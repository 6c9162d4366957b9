CONSTANTS
  a = a
  b = b
  c = c
  s = s
  t = t
  nowhere = nowhere
  MaxGroups = 3
  Types = {"RequireAll"}
  Paths = {a, b, c}
  Svc <- Services
  insts <- Instances
  Unknown = nowhere
  Manifests <- AllSingles
SPECIFICATION Spec
INVARIANTS Acyclic
CHECK_DEADLOCK FALSE
