---------------------------- MODULE MCGraphSetup ----------------------------
(***************************************************************************)
(* Small sets of manifests for checking GraphSetup: three instances of two *)
(* services, each with up to MaxGroups groups of one path or one group of  *)
(* two.                                                                    *)
(***************************************************************************)
EXTENDS GraphSetup, FiniteSets, TLC

CONSTANTS a, b, c, s, t, nowhere, MaxGroups, Types, Paths

Services == <<s, t>>
Instances == [v \in {s, t} |-> IF v = s THEN <<a, b>> ELSE <<c>>]

One == {[type |-> ty, paths |-> <<p>>] : ty \in Types, p \in Paths}
Two == {[type |-> ty, paths |-> <<p, q>>] : ty \in Types, p, q \in Paths}
Singles == UNION {[1 .. k -> One] : k \in 0 .. MaxGroups}
Lists == Singles \cup {<<x>> : x \in Two}

\* Every manifest with groups of one path.
AllSingles == [{a, b, c} -> Singles]

\* The places of a list of groups that name instance i, directly or through a
\* service.
Named(l, i) ==
  {<<n, k>> \in (1 .. 2) \X (1 .. 2) :
     /\ n \in DOMAIN l /\ k \in DOMAIN l[n].paths
     /\ l[n].paths[k] \in {i, IF i = c THEN t ELSE s}}

\* The lists of groups that name no instance twice.
Sparse == {l \in Lists : \A i \in {a, b, c} : Cardinality(Named(l, i)) <= 1}

\* The manifests in which no instance is named twice.
Trees ==
  {m \in {(a :> x) @@ (b :> y) @@ (c :> z) : x, y, z \in Sparse} :
     \A i \in {a, b, c} :
       Cardinality(Named(m[a], i)) + Cardinality(Named(m[b], i))
         + Cardinality(Named(m[c], i)) <= 1}

=============================================================================
