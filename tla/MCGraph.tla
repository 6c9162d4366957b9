------------------------------- MODULE MCGraph -------------------------------
(***************************************************************************)
(* Small graphs for model checking Graph.  A graph is given by its edges,  *)
(* in the order in which graph_install_service and vtx_setup add them.     *)
(***************************************************************************)
EXTENDS Graph

CONSTANTS ai, aii, bi, ci, sa, sb, sc, bg, cg, x, m, n, e, sx, sm, mg, ng1, eg

Out(edges, vs) == [v \in vs |-> LET s == SelectSeq(edges, LAMBDA p : p[1] = v)
                                IN  [k \in DOMAIN s |-> s[k][2]]]
In(edges, vs)  == [v \in vs |-> LET s == SelectSeq(edges, LAMBDA p : p[2] = v)
                                IN  [k \in DOMAIN s |-> s[k][1]]]

\* usr/src/test/{a,b,c}.ucl, and a service with the kinds of group they lack: m
\* requires any instance of a, and b, which depends on a, too; e excludes m.
MixVertices == <<sa, ai, aii, sb, bi, sc, ci, sm, m, e, bg, cg, mg, ng1, eg>>
MixEdges == << <<sa, ai>>, <<sa, aii>>, <<sb, bi>>, <<sc, ci>>, <<sm, m>>, <<sm, e>>,
               <<bi, bg>>, <<bg, ai>>, <<ci, cg>>, <<cg, sb>>,
               <<m, mg>>, <<mg, ai>>, <<mg, aii>>, <<m, ng1>>, <<ng1, sb>>,
               <<e, eg>>, <<eg, m>> >>
MixDeps == Out(MixEdges, ToSet(MixVertices))
MixRdeps == In(MixEdges, ToSet(MixVertices))
MixType == [v \in ToSet(MixVertices) |->
  CASE v = cg -> "OptionalAll" [] v = mg -> "RequireAny" [] v = eg -> "ExcludeAll"
    [] OTHER -> "RequireAll"]
MixRestart == [v \in ToSet(MixVertices) |->
  CASE v = bg -> RestartOnRefresh [] v = cg -> RestartOnRestart [] v = mg -> RestartOnNone
    [] v = ng1 -> RestartOnRestart [] OTHER -> RestartOnAny]
MixScript == <<[type |-> "A_DISABLE", path |-> ai], [type |-> "A_ENABLE", path |-> ai],
            [type |-> "SC_OFFLINE", path |-> ai]>>

\* A chain of four, of which the last comes before the third in the list.
ChainVertices == <<sx, x, sm, m, e, n, mg, eg, ng1>>
ChainEdges == << <<sx, x>>, <<sm, m>>, <<sm, e>>, <<sm, n>>,
                 <<m, mg>>, <<mg, x>>, <<e, eg>>, <<eg, n>>, <<n, ng1>>, <<ng1, m>> >>
ChainDeps == Out(ChainEdges, ToSet(ChainVertices))
ChainRdeps == In(ChainEdges, ToSet(ChainVertices))
ChainType == [v \in ToSet(ChainVertices) |-> "RequireAll"]
ChainRestart == [v \in ToSet(ChainVertices) |->
  IF v \in {mg, ng1, eg} THEN RestartOnRestart ELSE RestartOnAny]
ChainScript == <<[type |-> "A_DISABLE", path |-> x], [type |-> "A_ENABLE", path |-> x],
            [type |-> "SC_OFFLINE", path |-> x]>>

=============================================================================
