CONSTANTS
  g = g
  h = h
  adm = adm
  cfg = cfg
  ask = ask
  NoClient = NoClient
  Client = {g, adm, cfg}
  Program <- OnePrograms
  Manifests <- PlainManifests
  Paths <- PlainPaths
  TrialPath <- Trial
  Garbage = {TRUE}
  Killable = {}
  MaxCalls <- FewCalls
  MaxStarts = 1
  Twice = FALSE
SPECIFICATION Spec
PROPERTY UnknownDoesNothing
CHECK_DEADLOCK FALSE
