CONSTANTS
  g = g
  h = h
  adm = adm
  cfg = cfg
  ask = ask
  NoClient = NoClient
  Client = {h, ask, cfg}
  Program <- DataPrograms
  Manifests <- DataManifests
  Paths <- DataPaths
  TrialPath <- Trial
  Garbage = {TRUE, FALSE}
  Killable = {}
  MaxCalls <- DataCalls
  MaxStarts = 1
  Twice = FALSE
SPECIFICATION Spec
INVARIANTS DependenciesArrive MethodsArrive
PROPERTY LookupAnswers
CHECK_DEADLOCK FALSE
