CONSTANTS
  g = g
  h = h
  adm = adm
  cfg = cfg
  ask = ask
  NoClient = NoClient
  Client = {g, adm, cfg}
  Program <- OnePrograms
  Manifests <- OneManifest
  Paths <- OnePath
  TrialPath <- Trial
  Garbage = {TRUE}
  Killable = {g, adm}
  MaxCalls <- OneCall
  MaxStarts = 2
  Twice = FALSE
SPECIFICATION FairSpec
PROPERTIES Answered ComesBack CarriedOut Restartable
CHECK_DEADLOCK FALSE
