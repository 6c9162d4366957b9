CONSTANTS
  ai = ai aii = aii bi = bi ci = ci sa = sa sb = sb sc = sc bg = bg cg = cg
  x = x m = m n = n e = e sx = sx sm = sm mg = mg ng1 = ng1 eg = eg
  Inst = {ai, aii, bi, ci, m, e}
  Svc = {sa, sb, sc, sm}
  DepGroup = {bg, cg, mg, ng1, eg}
  graph <- MixVertices
  dependencies <- MixDeps
  dependents <- MixRdeps
  dg_type <- MixType
  restart_on <- MixRestart
  Script <- MixScript
SPECIFICATION FairSpec
INVARIANTS TypeOK Inv RunsOnlyIfEnabled MarksCleared NoLostWakeup DependenciesHold
PROPERTIES ImplementsLifecycle DisableOrder DisableDone CascadeEnds
