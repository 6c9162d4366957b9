CONSTANTS
  g = g
  h = h
  adm = adm
  cfg = cfg
  ask = ask
  NoClient = NoClient
  Client = {g, adm, cfg}
  Program <- OnePrograms
  Manifests <- PlainManifests
  Paths <- PlainPaths
  TrialPath <- Trial
  Garbage = {TRUE}
  Killable = {g, adm}
  MaxCalls <- FewCalls
  MaxStarts = 1
  Twice = TRUE
SPECIFICATION Spec
INVARIANTS TypeOK OwnReply ToldOnceInOrder Agree
PROPERTIES DiesOf
CHECK_DEADLOCK FALSE
