CONSTANTS
  ai = ai aii = aii bi = bi ci = ci sa = sa sb = sb sc = sc bg = bg cg = cg
  x = x m = m n = n e = e sx = sx sm = sm mg = mg ng1 = ng1 eg = eg
  Inst = {x, m, n, e}
  Svc = {sx, sm}
  DepGroup = {mg, ng1, eg}
  graph <- ChainVertices
  dependencies <- ChainDeps
  dependents <- ChainRdeps
  dg_type <- ChainType
  restart_on <- ChainRestart
  Script <- ChainScript
SPECIFICATION Spec
PROPERTY StartsSatisfied
