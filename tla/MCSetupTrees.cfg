CONSTANTS
  a = a
  b = b
  c = c
  s = s
  t = t
  nowhere = nowhere
  MaxGroups = 2
  Types = {"RequireAll"}
  Paths = {a, b, c, s, nowhere}
  Svc <- Services
  insts <- Instances
  Unknown = nowhere
  Manifests <- Trees
SPECIFICATION Spec
INVARIANTS Acyclic Complete
CHECK_DEADLOCK FALSE
