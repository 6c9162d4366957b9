--------------------------- MODULE GraphWalkProofs ---------------------------
(***************************************************************************)
(* Proofs about the walks of module Graph: in a graph without cycles they  *)
(* are well defined and finite, and visit what they should.                *)
(***************************************************************************)
EXTENDS Graph, SequenceTheorems, WellFoundedInduction, TLAPS

(* A nonempty set of natural numbers has a least element: the induction used
   for recursive functions of indices. *)
LEMMA LeastNat ==
  ASSUME NEW T \in SUBSET Nat, T # {}
  PROVE  \E n \in T : \A m \in T : n <= m
<1> DEFINE Less == {p \in Nat \X Nat : p[1] < p[2]}
<1>1. IsWellFoundedOn(Less, Nat)
  BY NatLessThanWellFounded DEF OpToRel
<1>2. PICK n \in T : \A m \in T : ~(<<m, n>> \in Less)
  <2> HIDE DEF Less
  <2> QED BY <1>1, WFMin
<1>3. ASSUME NEW m \in T PROVE n <= m
  <2>1. <<m, n>> \notin Less
    BY <1>2
  <2>2. m \in Nat /\ n \in Nat
    OBVIOUS
  <2>3. ~(m < n)
    BY <2>1, <2>2
  <2> QED BY <2>2, <2>3
<1> QED BY <1>3

-----------------------------------------------------------------------------
(* FlattenSeq *)

\* f satisfies the recursive equation in the definition of FlattenSeq, up to n.
FlattenTo(ss, n, f) ==
  f = [i \in 1 .. n |-> IF i = 1 THEN ss[i] ELSE f[i - 1] \o ss[i]]

(* The recursion in FlattenSeq is well defined. *)
LEMMA FlattenExists ==
  ASSUME NEW ss, NEW N \in Nat
  PROVE  \E f : FlattenTo(ss, N, f)
<1> DEFINE Bad == {n \in Nat : ~ \E f : FlattenTo(ss, n, f)}
<1>1. SUFFICES ASSUME Bad # {} PROVE FALSE
  OBVIOUS
<1>2. PICK n \in Bad : \A m \in Bad : n <= m
  <2>1. Bad \in SUBSET Nat
    OBVIOUS
  <2> HIDE DEF Bad
  <2> QED BY <1>1, <2>1, LeastNat
<1>3. n \in Nat
  OBVIOUS
<1>4. CASE n = 0
  <2> DEFINE f == [i \in 1 .. 0 |-> <<>>]
  <2>1. FlattenTo(ss, 0, f)
    BY DEF FlattenTo
  <2> QED BY <1>4, <2>1
<1>5. CASE n # 0
  <2>1. n - 1 \in Nat /\ n - 1 \notin Bad
    <3> HIDE DEF Bad
    <3> QED BY <1>2, <1>3, <1>5
  <2>2. PICK f : FlattenTo(ss, n - 1, f)
    BY <2>1
  <2> DEFINE g == [i \in 1 .. n |-> IF i < n THEN f[i]
                                    ELSE IF n = 1 THEN ss[1] ELSE f[n - 1] \o ss[n]]
  <2>3. ASSUME NEW i \in 1 .. n
        PROVE  g[i] = IF i = 1 THEN ss[i] ELSE g[i - 1] \o ss[i]
    <3>1. CASE i < n
      <4>1. i \in 1 .. n - 1 /\ g[i] = f[i] /\ (i # 1 => g[i - 1] = f[i - 1])
        BY <1>3, <3>1
      <4> QED BY <2>2, <4>1 DEF FlattenTo
    <3>2. CASE i = n
      <4>1. i # 1 => g[i - 1] = f[i - 1]
        BY <1>3, <1>5, <3>2
      <4> QED BY <1>3, <1>5, <3>2, <4>1
    <3> QED BY <1>3, <3>1, <3>2
  <2>4. FlattenTo(ss, n, g)
    BY <2>3 DEF FlattenTo
  <2> QED BY <2>4
<1> QED BY <1>4, <1>5

\* A function of 1 .. n is a sequence of n elements.
LEMMA IsSequence ==
  ASSUME NEW V, NEW n \in Nat, NEW s \in [1 .. n -> V]
  PROVE  s \in Seq(V) /\ Len(s) = n
<1>1. s \in Seq(V)
  BY SeqDef
<1>2. Len(s) \in Nat /\ 1 .. Len(s) = 1 .. n
  BY <1>1, LenProperties
<1> QED BY <1>1, <1>2

\* The elements of two sequences put together.
LEMMA ConcatSet ==
  ASSUME NEW V, NEW s \in Seq(V), NEW t \in Seq(V)
  PROVE  s \o t \in Seq(V) /\ ToSet(s \o t) = ToSet(s) \cup ToSet(t)
<1>1. /\ s \o t \in Seq(V) /\ Len(s) \in Nat /\ Len(t) \in Nat
      /\ Len(s \o t) = Len(s) + Len(t)
      /\ DOMAIN s = 1 .. Len(s) /\ DOMAIN t = 1 .. Len(t) /\ DOMAIN (s \o t) = 1 .. Len(s \o t)
      /\ \A k \in 1 .. Len(s) + Len(t) :
           (s \o t)[k] = IF k <= Len(s) THEN s[k] ELSE t[k - Len(s)]
  BY ConcatProperties
<1>2. ASSUME NEW x \in ToSet(s) PROVE x \in ToSet(s \o t)
  <2>1. PICK k \in 1 .. Len(s) : s[k] = x
    BY <1>1 DEF ToSet
  <2>2. k \in 1 .. Len(s) + Len(t) /\ (s \o t)[k] = x
    BY <1>1, <2>1
  <2> QED BY <1>1, <2>2 DEF ToSet
<1>3. ASSUME NEW x \in ToSet(t) PROVE x \in ToSet(s \o t)
  <2>1. PICK k \in 1 .. Len(t) : t[k] = x
    BY <1>1 DEF ToSet
  <2>2. Len(s) + k \in 1 .. Len(s) + Len(t) /\ (s \o t)[Len(s) + k] = x
    BY <1>1, <2>1
  <2> QED BY <1>1, <2>2 DEF ToSet
<1>4. ASSUME NEW x \in ToSet(s \o t) PROVE x \in ToSet(s) \cup ToSet(t)
  <2>1. PICK k \in 1 .. Len(s) + Len(t) : (s \o t)[k] = x
    BY <1>1 DEF ToSet
  <2>2. CASE k <= Len(s)
    <3>1. k \in 1 .. Len(s) /\ s[k] = x
      BY <1>1, <2>1, <2>2
    <3> QED BY <1>1, <3>1 DEF ToSet
  <2>3. CASE ~(k <= Len(s))
    <3>1. k - Len(s) \in 1 .. Len(t) /\ t[k - Len(s)] = x
      BY <1>1, <2>1, <2>3
    <3> QED BY <1>1, <3>1 DEF ToSet
  <2> QED BY <2>2, <2>3
<1> QED BY <1>1, <1>2, <1>3, <1>4

(* Flattening keeps the elements. *)
LEMMA Flattened ==
  ASSUME NEW V, NEW ss \in Seq(Seq(V))
  PROVE  /\ FlattenSeq(ss) \in Seq(V)
         /\ \A x : x \in ToSet(FlattenSeq(ss)) <=> \E k \in 1 .. Len(ss) : x \in ToSet(ss[k])
<1>1. Len(ss) \in Nat /\ (\A k \in 1 .. Len(ss) : ss[k] \in Seq(V))
  BY ElementOfSeq
<1>2. CASE Len(ss) = 0
  <2>1. FlattenSeq(ss) = <<>>
    BY <1>2, EmptySeq DEF FlattenSeq
  <2>2. ToSet(<<>>) = {} /\ <<>> \in Seq(V)
    BY DEF ToSet
  <2> QED BY <1>2, <2>1, <2>2
<1>3. CASE Len(ss) # 0
  <2> DEFINE f == CHOOSE f : FlattenTo(ss, Len(ss), f)
  <2>1. FlattenTo(ss, Len(ss), f)
    BY <1>1, FlattenExists
  <2>2. FlattenSeq(ss) = f[Len(ss)]
    BY <1>3 DEF FlattenSeq, FlattenTo
  <2> HIDE DEF f
  <2> DEFINE Good(n) == /\ f[n] \in Seq(V)
                        /\ \A x : x \in ToSet(f[n]) <=> \E k \in 1 .. n : x \in ToSet(ss[k])
             Bad == {n \in 1 .. Len(ss) : ~Good(n)}
  <2>3. SUFFICES ASSUME Bad # {} PROVE FALSE
    <3>1. Len(ss) \in 1 .. Len(ss)
      BY <1>1, <1>3
    <3> QED BY <2>2, <3>1
  <2>4. PICK n \in Bad : \A m \in Bad : n <= m
    <3>1. Bad \in SUBSET Nat
      BY <1>1
    <3> HIDE DEF Bad
    <3> QED BY <2>3, <3>1, LeastNat
  <2>5. n \in 1 .. Len(ss) /\ ~Good(n)
    OBVIOUS
  <2>6. f[n] = IF n = 1 THEN ss[n] ELSE f[n - 1] \o ss[n]
    BY <2>1, <2>5 DEF FlattenTo
  <2>7. CASE n = 1
    <3>1. f[1] = ss[1] /\ ss[1] \in Seq(V) /\ 1 .. 1 = {1}
      BY <1>1, <2>5, <2>6, <2>7
    <3>2. Good(1)
      BY <3>1
    <3> QED BY <2>5, <2>7, <3>2
  <2>8. CASE n # 1
    <3>1. n - 1 \in 1 .. Len(ss) /\ n - 1 \notin Bad
      <4> HIDE DEF Bad
      <4> QED BY <1>1, <2>4, <2>5, <2>8
    <3>2. Good(n - 1)
      BY <3>1
    <3>3. f[n] = f[n - 1] \o ss[n] /\ ss[n] \in Seq(V)
      BY <1>1, <2>5, <2>6, <2>8
    <3>4. f[n] \in Seq(V) /\ ToSet(f[n]) = ToSet(f[n - 1]) \cup ToSet(ss[n])
      BY <3>2, <3>3, ConcatSet
    <3>5. 1 .. n = (1 .. n - 1) \cup {n}
      BY <1>1, <2>5, <2>8
    <3>6. Good(n)
      BY <3>2, <3>4, <3>5
    <3> QED BY <2>5, <3>6
  <2> QED BY <2>7, <2>8
<1> QED
  BY <1>2, <1>3

-----------------------------------------------------------------------------
(* Walks exist. *)

\* Among any vertices there is one from which no other can be walked on to.
Founded(next, Pass) ==
  \A S \in SUBSET Vertex : S # {} => \E v \in S : ToSet(next[v]) \cap Pass \cap S = {}

\* What a walk visits from v on, when f says what it visits from the others on.
Visit(next, Pass, f, v) ==
  FlattenSeq([k \in DOMAIN next[v] |->
    <<next[v][k]>> \o (IF next[v][k] \in Pass THEN f[next[v][k]] ELSE <<>>)])

\* f is the walk, on a set of vertices that it does not leave.
WalkOn(next, Pass, D, f) ==
  /\ D \subseteq Vertex /\ \A v \in D : ToSet(next[v]) \cap Pass \subseteq D
  /\ f = [v \in D |-> Visit(next, Pass, f, v)]

\* Only what is known of the vertices that can be walked on to matters.
LEMMA VisitSame ==
  ASSUME NEW next, NEW Pass, NEW f, NEW g, NEW v,
         \A w \in ToSet(next[v]) \cap Pass : f[w] = g[w]
  PROVE  Visit(next, Pass, f, v) = Visit(next, Pass, g, v)
<1>1. \A k \in DOMAIN next[v] :
        (IF next[v][k] \in Pass THEN f[next[v][k]] ELSE <<>>)
          = (IF next[v][k] \in Pass THEN g[next[v][k]] ELSE <<>>)
  BY DEF ToSet
<1>2. [k \in DOMAIN next[v] |->
         <<next[v][k]>> \o (IF next[v][k] \in Pass THEN f[next[v][k]] ELSE <<>>)]
    = [k \in DOMAIN next[v] |->
         <<next[v][k]>> \o (IF next[v][k] \in Pass THEN g[next[v][k]] ELSE <<>>)]
  BY <1>1, Zenon
<1> QED BY <1>2, Zenon DEF Visit

\* Two walks agree where both are defined.
LEMMA WalkUnique ==
  ASSUME NEW next, NEW Pass, Founded(next, Pass), NEW D, NEW E, NEW f, NEW g,
         WalkOn(next, Pass, D, f), WalkOn(next, Pass, E, g)
  PROVE  \A v \in D \cap E : f[v] = g[v]
<1> DEFINE Bad == {v \in D \cap E : f[v] # g[v]}
<1>1. SUFFICES ASSUME Bad # {} PROVE FALSE
  OBVIOUS
<1>2. PICK v \in Bad : ToSet(next[v]) \cap Pass \cap Bad = {}
  <2>1. Bad \in SUBSET Vertex
    BY DEF WalkOn
  <2> QED BY <1>1, <2>1 DEF Founded
<1>3. \A w \in ToSet(next[v]) \cap Pass : f[w] = g[w]
  BY <1>2 DEF WalkOn
<1>4. f[v] = Visit(next, Pass, f, v) /\ g[v] = Visit(next, Pass, g, v)
  BY Zenon DEF WalkOn
<1> QED BY <1>3, <1>4, VisitSame

(* The recursion of a walk is well defined. *)
LEMMA WalkExists ==
  ASSUME NEW next \in [Vertex -> Seq(Vertex)], NEW Pass, Founded(next, Pass)
  PROVE  \E f : WalkOn(next, Pass, Vertex, f)
<1> DEFINE Fit(v, f) == \E D : v \in D /\ WalkOn(next, Pass, D, f)
           All == {v \in Vertex : \E f : Fit(v, f)}
           F == [v \in All |-> (CHOOSE f : Fit(v, f))[v]]
<1>1. ASSUME NEW D, NEW f, WalkOn(next, Pass, D, f)
      PROVE  D \subseteq All /\ \A v \in D : F[v] = f[v]
  <2>1. SUFFICES ASSUME NEW v \in D PROVE v \in All /\ F[v] = f[v]
    BY Zenon
  <2>2. Fit(v, f) /\ v \in All
    BY <1>1 DEF WalkOn
  <2> DEFINE g == CHOOSE g : Fit(v, g)
  <2>3. Fit(v, g)
    BY <2>2, Zenon
  <2>4. F[v] = g[v]
    BY <2>2
  <2> HIDE DEF g, F, All
  <2>5. PICK E : v \in E /\ WalkOn(next, Pass, E, g)
    BY <2>3
  <2>6. f[v] = g[v]
    BY <1>1, <2>5, WalkUnique
  <2> QED BY <2>2, <2>4, <2>6
<1>2. ASSUME NEW v \in All
      PROVE  ToSet(next[v]) \cap Pass \subseteq All /\ F[v] = Visit(next, Pass, F, v)
  <2>1. PICK f, D : v \in D /\ WalkOn(next, Pass, D, f)
    OBVIOUS
  <2> HIDE DEF F, All
  <2>2. D \subseteq All /\ \A w \in D : F[w] = f[w]
    BY <1>1, <2>1
  <2>3. f[v] = Visit(next, Pass, f, v) /\ ToSet(next[v]) \cap Pass \subseteq D
    BY <2>1, Zenon DEF WalkOn
  <2>4. Visit(next, Pass, f, v) = Visit(next, Pass, F, v)
    <3>1. \A w \in ToSet(next[v]) \cap Pass : f[w] = F[w]
      BY <2>2, <2>3
    <3> QED BY <3>1, VisitSame
  <2> QED BY <2>1, <2>2, <2>3, <2>4
<1>3. All = Vertex
  <2> SUFFICES ASSUME Vertex \ All # {} PROVE FALSE
    OBVIOUS
  <2>1. PICK v \in Vertex \ All : ToSet(next[v]) \cap Pass \cap (Vertex \ All) = {}
    <3> HIDE DEF All
    <3> QED BY DEF Founded
  <2>2. ToSet(next[v]) \cap Pass \subseteq All
    <3>1. ToSet(next[v]) \subseteq Vertex
      BY DEF ToSet
    <3> HIDE DEF All
    <3> QED BY <2>1, <3>1
  <2> DEFINE D == All \cup {v}
             g == [u \in D |-> IF u = v THEN Visit(next, Pass, F, v) ELSE F[u]]
  <2>3. ASSUME NEW u \in D
        PROVE  ToSet(next[u]) \cap Pass \subseteq All /\ g[u] = Visit(next, Pass, F, u)
    <3> HIDE DEF F, All
    <3> QED BY <1>2, <2>1, <2>2
  <2>4. \A w \in All : g[w] = F[w]
    <3> HIDE DEF F, All
    <3> QED BY <2>1
  <2>5. ASSUME NEW u \in D PROVE g[u] = Visit(next, Pass, g, u)
    <3> HIDE DEF F, All, g
    <3>1. \A w \in ToSet(next[u]) \cap Pass : F[w] = g[w]
      BY <2>3, <2>4
    <3>2. Visit(next, Pass, F, u) = Visit(next, Pass, g, u)
      BY <3>1, VisitSame
    <3> QED BY <2>3, <3>2
  <2>6. g = [u \in D |-> g[u]]
    <3> HIDE DEF F, All
    <3> QED OBVIOUS
  <2>7. g = [u \in D |-> Visit(next, Pass, g, u)]
    <3> HIDE DEF F, All, g, D
    <3>1. [u \in D |-> g[u]] = [u \in D |-> Visit(next, Pass, g, u)]
      BY <2>5, Zenon
    <3> QED BY <2>6, <3>1, Zenon
  <2>8. D \subseteq Vertex /\ \A u \in D : ToSet(next[u]) \cap Pass \subseteq D
    BY <2>1, <2>3
  <2>9. WalkOn(next, Pass, D, g)
    <3> HIDE DEF F, All, g, D
    <3> QED BY <2>7, <2>8, Zenon DEF WalkOn
  <2>10. D \subseteq All
    <3> HIDE DEF F, All, g, D
    <3> QED BY <1>1, <2>9
  <2> QED BY <2>1, <2>10
<1>4. F = [v \in All |-> F[v]]
  <2> HIDE DEF All
  <2> QED OBVIOUS
<1>5. F = [v \in Vertex |-> Visit(next, Pass, F, v)]
  <2> HIDE DEF F, All
  <2>1. [v \in All |-> F[v]] = [v \in Vertex |-> Visit(next, Pass, F, v)]
    BY <1>2, <1>3, Zenon
  <2> QED BY <1>4, <2>1, Zenon
<1>6. WalkOn(next, Pass, Vertex, F)
  <2>1. \A v \in Vertex : ToSet(next[v]) \cap Pass \subseteq Vertex
    BY DEF ToSet
  <2> HIDE DEF F, All
  <2> QED BY <1>5, <2>1, Zenon DEF WalkOn
<1> QED BY <1>6

(* What a walk visits: the neighbours, and what is visited from those it may
   pass. *)
LEMMA Walked ==
  ASSUME NEW next \in [Vertex -> Seq(Vertex)], NEW Pass, Founded(next, Pass)
  PROVE  /\ Walk(next, Pass) \in [Vertex -> Seq(Vertex)]
         /\ \A v \in Vertex : \A x :
              x \in ToSet(Walk(next, Pass)[v]) <=>
                \E w \in ToSet(next[v]) :
                  x = w \/ (w \in Pass /\ x \in ToSet(Walk(next, Pass)[w]))
<1> DEFINE f == CHOOSE f : f = [v \in Vertex |-> Visit(next, Pass, f, v)]
<1>1. f = [v \in Vertex |-> Visit(next, Pass, f, v)]
  <2>1. \E g : g = [v \in Vertex |-> Visit(next, Pass, g, v)]
    BY WalkExists, Zenon DEF WalkOn
  <2> QED BY <2>1, Zenon
<1>2. Walk(next, Pass) = [v \in Vertex |-> f[v]]
  BY Zenon DEF Walk, Visit
<1> HIDE DEF f
<1>3. f = [v \in Vertex |-> f[v]]
  BY <1>1, Zenon
<1>4. Walk(next, Pass) = f
  BY <1>2, <1>3, Zenon
<1> DEFINE piece(v) == [k \in DOMAIN next[v] |->
             <<next[v][k]>> \o (IF next[v][k] \in Pass THEN f[next[v][k]] ELSE <<>>)]
<1>5. \A v \in Vertex : f[v] = FlattenSeq(piece(v))
  BY <1>1, Zenon DEF Visit
<1>6. ASSUME NEW v \in Vertex, \A w \in ToSet(next[v]) \cap Pass : f[w] \in Seq(Vertex)
      PROVE  /\ f[v] \in Seq(Vertex)
             /\ \A x : x \in ToSet(f[v]) <=>
                  \E w \in ToSet(next[v]) : x = w \/ (w \in Pass /\ x \in ToSet(f[w]))
  <2> DEFINE nx == next[v]
             tail(k) == IF nx[k] \in Pass THEN f[nx[k]] ELSE <<>>
  <2>1. nx \in Seq(Vertex) /\ Len(nx) \in Nat /\ DOMAIN nx = 1 .. Len(nx)
    OBVIOUS
  <2>2. ASSUME NEW k \in 1 .. Len(nx)
        PROVE  /\ piece(v)[k] \in Seq(Vertex)
               /\ \A x : x \in ToSet(piece(v)[k]) <=>
                    x = nx[k] \/ (nx[k] \in Pass /\ x \in ToSet(f[nx[k]]))
    <3>1. nx[k] \in Vertex /\ nx[k] \in ToSet(nx)
      <4> HIDE DEF nx
      <4> QED BY <2>1, ElementOfSeq DEF ToSet
    <3>2. tail(k) \in Seq(Vertex)
      BY <1>6, <3>1
    <3>3. piece(v)[k] = <<nx[k]>> \o tail(k)
      BY <2>1
    <3>4. <<nx[k]>> \in Seq(Vertex) /\ ToSet(<<nx[k]>>) = {nx[k]}
      BY <3>1 DEF ToSet
    <3>5. ToSet(<<>>) = {}
      BY DEF ToSet
    <3>6. \A x : x \in ToSet(tail(k)) <=> (nx[k] \in Pass /\ x \in ToSet(f[nx[k]]))
      BY <3>5
    <3> HIDE DEF tail, piece, nx
    <3>7. /\ <<nx[k]>> \o tail(k) \in Seq(Vertex)
          /\ ToSet(<<nx[k]>> \o tail(k)) = ToSet(<<nx[k]>>) \cup ToSet(tail(k))
      <4>1. PICK one : one = <<nx[k]>>
        OBVIOUS
      <4>2. one \in Seq(Vertex)
        BY <3>4, <4>1
      <4>3. one \o tail(k) \in Seq(Vertex) /\ ToSet(one \o tail(k)) = ToSet(one) \cup ToSet(tail(k))
        BY <3>2, <4>2, ConcatSet
      <4> QED BY <4>1, <4>3
    <3>8. piece(v)[k] \in Seq(Vertex) /\ ToSet(piece(v)[k]) = {nx[k]} \cup ToSet(tail(k))
      BY <3>3, <3>4, <3>7, Zenon
    <3> QED BY <3>6, <3>8
  <2>3. DOMAIN piece(v) = 1 .. Len(nx)
    BY <2>1
  <2>4. piece(v) \in Seq(Seq(Vertex)) /\ Len(piece(v)) = Len(nx)
    <3>1. piece(v) = [k \in 1 .. Len(nx) |-> piece(v)[k]]
      BY <2>1
    <3> HIDE DEF piece, nx
    <3>2. piece(v) \in [1 .. Len(nx) -> Seq(Vertex)]
      <4>1. \A k \in 1 .. Len(nx) : piece(v)[k] \in Seq(Vertex)
        BY <2>2
      <4> QED BY <3>1, <4>1, Zenon
    <3> QED BY <2>1, <3>2, IsSequence
  <2>5. ToSet(nx) = {nx[k] : k \in 1 .. Len(nx)}
    BY <2>1 DEF ToSet
  <2>6. f[v] = FlattenSeq(piece(v))
    BY <1>5
  <2> HIDE DEF piece, nx
  <2>7. /\ f[v] \in Seq(Vertex)
        /\ \A x : x \in ToSet(f[v]) <=> \E k \in 1 .. Len(nx) : x \in ToSet(piece(v)[k])
    BY <2>4, <2>6, Flattened
  <2>8. \A x : x \in ToSet(f[v]) <=>
          \E w \in ToSet(nx) : x = w \/ (w \in Pass /\ x \in ToSet(f[w]))
    <3>1. ASSUME NEW x
          PROVE  (\E k \in 1 .. Len(nx) : x \in ToSet(piece(v)[k])) <=>
                 (\E k \in 1 .. Len(nx) :
                    x = nx[k] \/ (nx[k] \in Pass /\ x \in ToSet(f[nx[k]])))
      BY <2>2, Zenon
    <3> QED BY <2>5, <2>7, <3>1, Zenon
  <2> QED BY <2>7, <2>8 DEF nx
<1>7. ASSUME NEW v \in Vertex PROVE f[v] \in Seq(Vertex)
  <2> DEFINE Bad == {u \in Vertex : f[u] \notin Seq(Vertex)}
  <2>1. SUFFICES ASSUME Bad # {} PROVE FALSE
    OBVIOUS
  <2>2. PICK u \in Bad : ToSet(next[u]) \cap Pass \cap Bad = {}
    BY <2>1 DEF Founded
  <2>3. ToSet(next[u]) \subseteq Vertex
    BY DEF ToSet
  <2>4. \A w \in ToSet(next[u]) \cap Pass : f[w] \in Seq(Vertex)
    BY <2>2, <2>3
  <2> QED BY <1>6, <2>4
<1>8. \A v \in Vertex : ToSet(next[v]) \subseteq Vertex
  BY DEF ToSet
<1>9. f \in [Vertex -> Seq(Vertex)]
  BY <1>3, <1>7
<1>10. ASSUME NEW v \in Vertex
       PROVE  \A x : x \in ToSet(f[v]) <=>
                \E w \in ToSet(next[v]) : x = w \/ (w \in Pass /\ x \in ToSet(f[w]))
  BY <1>6, <1>7, <1>8
<1> QED BY <1>4, <1>9, <1>10, Zenon

-----------------------------------------------------------------------------
(* The walks of the graph. *)

Up(v)   == ToSet(dependents[v])
Down(v) == ToSet(dependencies[v])

\* The instances next above an instance, over groups in G: what can reach it
\* without passing another instance.
Above(G, i) ==
  {x \in Inst : \E g \in G : x \in Up(g) /\ (g \in Up(i) \/ \E s \in Svc : s \in Up(i) /\ g \in Up(s))}

(* Every edge is known at both ends and leads up from a group to an instance,
   from an instance to a group or a service, or from a service to a group. *)
LEMMA Edges ==
  /\ \A v \in Vertex : Up(v) \subseteq Vertex /\ Down(v) \subseteq Vertex
  /\ \A v, w \in Vertex : w \in Up(v) <=> v \in Down(w)
  /\ \A v \in Vertex : \A w \in Up(v) :
       \/ v \in DepGroup /\ w \in Inst
       \/ v \in Inst /\ w \in Svc \cup DepGroup
       \/ v \in Svc /\ w \in DepGroup
<1>1. ASSUME NEW v \in Vertex
      PROVE  /\ Up(v) \subseteq Vertex /\ Down(v) \subseteq Vertex
             /\ \A w : w \in Up(v) <=> Contains(dependents[v], w)
             /\ \A w : w \in Down(v) <=> Contains(dependencies[v], w)
  <2>1. dependents[v] \in Seq(Vertex) /\ dependencies[v] \in Seq(Vertex)
    BY GraphAssumption
  <2>2. /\ DOMAIN dependents[v] = 1 .. Len(dependents[v])
        /\ DOMAIN dependencies[v] = 1 .. Len(dependencies[v])
    BY <2>1, LenProperties
  <2> QED BY <2>1, <2>2, ElementOfSeq DEF Up, Down, ToSet, Contains
<1>2. ASSUME NEW v \in Vertex, NEW w \in Vertex
      PROVE  w \in Up(v) <=> v \in Down(w)
  BY <1>1, EdgeAssumption
<1>3. ASSUME NEW v \in Vertex, NEW w \in Up(v)
      PROVE  \/ v \in DepGroup /\ w \in Inst
             \/ v \in Inst /\ w \in Svc \cup DepGroup
             \/ v \in Svc /\ w \in DepGroup
  <2>1. w \in Vertex /\ Contains(dependencies[w], v)
    BY <1>1, EdgeAssumption
  <2>2. \/ w \in Inst     /\ v \in DepGroup
        \/ w \in Svc      /\ v \in Inst
        \/ w \in DepGroup /\ v \notin DepGroup
    BY <2>1, EdgeAssumption
  <2> QED BY <2>2 DEF Vertex
<1> QED BY <1>1, <1>2, <1>3

(* Walks up end because there are no cycles, walks down to the nearest instances
   because of the kinds of vertices. *)
LEMMA WalksFounded ==
  /\ \A Pass : Founded(dependents, Pass)
  /\ Founded(dependencies, Svc \cup DepGroup)
<1>1. ASSUME NEW Pass PROVE Founded(dependents, Pass)
  BY AcyclicAssumption DEF Founded
<1>2. ASSUME NEW S \in SUBSET Vertex, S # {}
      PROVE  \E v \in S : ToSet(dependencies[v]) \cap (Svc \cup DepGroup) \cap S = {}
  <2>1. ASSUME NEW v \in S, NEW w \in Down(v)
        PROVE  \/ v \in Inst /\ w \in DepGroup
               \/ v \in Svc /\ w \in Inst
               \/ v \in DepGroup /\ w \in Inst \cup Svc
    <3>1. v \in Vertex /\ w \in Vertex /\ v \in Up(w)
      BY Edges
    <3> QED BY <3>1, Edges
  <2>2. CASE S \cap Svc # {}
    <3>1. PICK v \in S \cap Svc : TRUE
      BY <2>2
    <3>2. Down(v) \cap (Svc \cup DepGroup) = {}
      BY <2>1, <3>1, GraphAssumption
    <3> QED BY <3>1, <3>2 DEF Down
  <2>3. CASE S \cap Svc = {} /\ S \cap DepGroup # {}
    <3>1. PICK v \in S \cap DepGroup : TRUE
      BY <2>3
    <3>2. Down(v) \cap (Svc \cup DepGroup) \cap S = {}
      BY <2>1, <2>3, <3>1, GraphAssumption
    <3> QED BY <3>1, <3>2 DEF Down
  <2>4. CASE S \cap Svc = {} /\ S \cap DepGroup = {}
    <3>1. PICK v \in S : TRUE
      BY <1>2
    <3>2. ToSet(dependencies[v]) \cap (Svc \cup DepGroup) \cap S = {}
      BY <2>4
    <3> QED BY <3>2
  <2> QED BY <2>2, <2>3, <2>4
<1>3. Founded(dependencies, Svc \cup DepGroup)
  BY <1>2, Zenon DEF Founded
<1> QED BY <1>1, <1>3

(* The recursion of the code ends, with the vertices it visits. *)
LEMMA WalksEnd ==
  /\ StartWalk \in [Vertex -> Seq(Vertex)]
  /\ StopWalk \in [RestartOn -> [Vertex -> Seq(Vertex)]]
  /\ MiscWalk \in [Vertex -> Seq(Vertex)]
  /\ DisableWalk \in [Vertex -> Seq(Vertex)]
  /\ DependencyWalk \in [Vertex -> Seq(Vertex)]
<1>1. \A Pass : Walk(dependents, Pass) \in [Vertex -> Seq(Vertex)]
  BY Walked, WalksFounded, GraphAssumption
<1>2. Walk(dependencies, Svc \cup DepGroup) \in [Vertex -> Seq(Vertex)]
  BY Walked, WalksFounded, GraphAssumption
<1> QED BY <1>1, <1>2 DEF StartWalk, StopWalk, MiscWalk, DisableWalk, DependencyWalk

\* The elements of a walk up.
LEMMA WalkUp ==
  ASSUME NEW Pass, NEW v \in Vertex
  PROVE  \A x : x \in ToSet(Walk(dependents, Pass)[v]) <=>
           \E w \in Up(v) : x = w \/ (w \in Pass /\ x \in ToSet(Walk(dependents, Pass)[w]))
<1>1. dependents \in [Vertex -> Seq(Vertex)] /\ Founded(dependents, Pass)
  BY WalksFounded, GraphAssumption
<1>2. \A x : x \in ToSet(Walk(dependents, Pass)[v]) <=>
        \E w \in ToSet(dependents[v]) :
          x = w \/ (w \in Pass /\ x \in ToSet(Walk(dependents, Pass)[w]))
  BY <1>1, Walked
<1> QED BY <1>2 DEF Up

(* vtx_notify_stop tells instances next above only, over groups that follow. *)
LEMMA StopReaches ==
  ASSUME NEW reason \in RestartOn, NEW i \in Inst
  PROVE  ToSet(StopWalk[reason][i]) \cap Inst \subseteq Above(Follows(reason), i)
<1> DEFINE Pass == Svc \cup Follows(reason)
           W == Walk(dependents, Pass)
<1>1. StopWalk[reason] = W
  BY DEF StopWalk
<1>2. \A v \in Vertex : \A x : x \in ToSet(W[v]) <=>
        \E w \in Up(v) : x = w \/ (w \in Pass /\ x \in ToSet(W[w]))
  BY WalkUp
<1>3. Inst \cap Svc = {} /\ Inst \cap DepGroup = {} /\ Svc \cap DepGroup = {}
  BY GraphAssumption
<1>4. Pass = Svc \cup Follows(reason) /\ Follows(reason) \subseteq DepGroup
  BY DEF Follows
<1> HIDE DEF W, Pass
<1>5. ASSUME NEW v \in Vertex, NEW x \in Inst, x \in ToSet(W[v])
      PROVE  \E w \in Up(v) : /\ w \in Vertex
                              /\ x = w \/ (w \in Pass /\ x \in ToSet(W[w]))
  BY <1>2, <1>5, Edges
<1>6. ASSUME NEW g \in DepGroup, NEW x \in Inst, x \in ToSet(W[g])
      PROVE  x \in Up(g)
  BY <1>3, <1>4, <1>5, <1>6, Edges DEF Vertex
<1>7. ASSUME NEW s \in Svc, NEW x \in Inst, x \in ToSet(W[s])
      PROVE  \E g \in Follows(reason) : g \in Up(s) /\ x \in Up(g)
  <2>1. PICK g \in Up(s) : g \in Vertex /\ (x = g \/ (g \in Pass /\ x \in ToSet(W[g])))
    BY <1>5, <1>7 DEF Vertex
  <2>2. g \in DepGroup
    BY <1>3, Edges DEF Vertex
  <2> QED BY <1>3, <1>4, <1>6, <2>1, <2>2
<1>8. ASSUME NEW x \in Inst, x \in ToSet(W[i]) PROVE x \in Above(Follows(reason), i)
  <2>1. PICK w \in Up(i) : w \in Vertex /\ (x = w \/ (w \in Pass /\ x \in ToSet(W[w])))
    BY <1>5, <1>8 DEF Vertex
  <2>2. w \in Svc \cup DepGroup
    BY <1>3, Edges DEF Vertex
  <2>3. CASE w \in Svc
    BY <1>3, <1>7, <2>1, <2>3 DEF Above
  <2>4. CASE w \in DepGroup
    BY <1>3, <1>4, <1>6, <2>1, <2>4 DEF Above
  <2> QED BY <2>2, <2>3, <2>4
<1> QED BY <1>1, <1>8

(* vtx_offline_dependency looks at every instance next below. *)
LEMMA DependencyReaches ==
  ASSUME NEW i \in Inst, NEW x \in Above(DepGroup, i)
  PROVE  i \in ToSet(DependencyWalk[x])
<1> DEFINE W == Walk(dependencies, Svc \cup DepGroup)
<1>1. \A v \in Vertex : \A y : y \in ToSet(W[v]) <=>
        \E w \in Down(v) : y = w \/ (w \in Svc \cup DepGroup /\ y \in ToSet(W[w]))
  <2>1. dependencies \in [Vertex -> Seq(Vertex)] /\ Founded(dependencies, Svc \cup DepGroup)
    BY WalksFounded, GraphAssumption
  <2>2. \A v \in Vertex : \A y : y \in ToSet(W[v]) <=>
          \E w \in ToSet(dependencies[v]) :
            y = w \/ (w \in Svc \cup DepGroup /\ y \in ToSet(W[w]))
    BY <2>1, Walked
  <2> QED BY <2>2 DEF Down
<1>2. DependencyWalk = W
  BY DEF DependencyWalk
<1> HIDE DEF W
<1>3. PICK g \in DepGroup : x \in Up(g) /\ (g \in Up(i) \/ \E s \in Svc : s \in Up(i) /\ g \in Up(s))
  BY DEF Above
<1>4. x \in Inst /\ x \in Vertex /\ g \in Vertex /\ i \in Vertex
  BY DEF Above, Vertex
<1>5. g \in Down(x)
  BY <1>3, <1>4, Edges
<1>6. i \in ToSet(W[g])
  <2>1. CASE g \in Up(i)
    <3>1. i \in Down(g)
      BY <1>4, <2>1, Edges
    <3> QED BY <1>1, <1>4, <3>1
  <2>2. CASE \E s \in Svc : s \in Up(i) /\ g \in Up(s)
    <3>1. PICK s \in Svc : s \in Up(i) /\ g \in Up(s)
      BY <2>2
    <3>2. s \in Vertex /\ i \in Down(s) /\ s \in Down(g)
      BY <1>4, <3>1, Edges DEF Vertex
    <3>3. i \in ToSet(W[s])
      BY <1>1, <3>2
    <3> QED BY <1>1, <1>4, <3>2, <3>3
  <2> QED BY <1>3, <2>1, <2>2
<1>7. i \in ToSet(W[x])
  BY <1>1, <1>4, <1>5, <1>6
<1> QED BY <1>2, <1>7

\* What vtx_notify_admin_disable marks.
MarkedBy(i) == {i} \cup (ToSet(DisableWalk[i]) \cap Inst)

(* vtx_notify_admin_disable marks, with an instance, all that are next above it
   over groups that stop with it. *)
LEMMA DisableClosed ==
  ASSUME NEW i \in Inst
  PROVE  MarkedBy(i) \subseteq Inst /\ \A k \in MarkedBy(i) : Above(Stops, k) \subseteq MarkedBy(i)
<1> DEFINE Pass == Inst \cup Svc \cup Stops
           W == Walk(dependents, Pass)
<1>1. \A v \in Vertex : \A x : x \in ToSet(W[v]) <=>
        \E w \in Up(v) : x = w \/ (w \in Pass /\ x \in ToSet(W[w]))
  BY WalkUp
<1>2. DisableWalk = W
  BY DEF DisableWalk
<1>3. Inst \subseteq Pass /\ Svc \subseteq Pass /\ Stops \subseteq Pass /\ Stops \subseteq DepGroup
  BY DEF Stops
<1> HIDE DEF W, Pass
<1>4. ASSUME NEW v \in Vertex, NEW w \in ToSet(W[v]), w \in Pass, w \in Vertex, NEW x \in Up(w)
      PROVE  x \in ToSet(W[v])
  <2> DEFINE Bad == {u \in Vertex : w \in ToSet(W[u]) /\ x \notin ToSet(W[u])}
  <2>1. SUFFICES ASSUME Bad # {} PROVE FALSE
    OBVIOUS
  <2>2. PICK u \in Bad : Up(u) \cap Bad = {}
    <3>1. Bad \in SUBSET Vertex
      OBVIOUS
    <3> QED BY <2>1, <3>1, AcyclicAssumption DEF Up
  <2>3. u \in Vertex /\ w \in ToSet(W[u]) /\ x \notin ToSet(W[u])
    OBVIOUS
  <2>4. PICK z \in Up(u) : w = z \/ (z \in Pass /\ w \in ToSet(W[z]))
    BY <1>1, <2>3
  <2>5. CASE w = z
    <3>1. x \in ToSet(W[w])
      BY <1>1, <1>4
    <3> QED BY <1>1, <1>4, <2>3, <2>4, <2>5, <3>1
  <2>6. CASE z \in Pass /\ w \in ToSet(W[z])
    <3>1. z \in Vertex /\ z \notin Bad
      BY <2>2, <2>3, <2>4, Edges
    <3>2. x \in ToSet(W[z])
      BY <2>6, <3>1
    <3> QED BY <1>1, <2>3, <2>4, <2>6, <3>2
  <2> QED BY <2>4, <2>5, <2>6
<1>5. ASSUME NEW k \in MarkedBy(i), NEW x \in Up(k) PROVE x \in ToSet(W[i])
  <2>1. i \in Vertex /\ k \in Vertex /\ k \in Inst
    BY DEF MarkedBy, Vertex
  <2>2. CASE k = i
    BY <1>1, <1>5, <2>1, <2>2
  <2>3. CASE k \in ToSet(W[i])
    BY <1>3, <1>4, <1>5, <2>1, <2>3
  <2> QED BY <1>2, <2>2, <2>3 DEF MarkedBy
<1>6. ASSUME NEW k \in MarkedBy(i), NEW x \in Above(Stops, k) PROVE x \in MarkedBy(i)
  <2>1. PICK g \in Stops :
          x \in Up(g) /\ (g \in Up(k) \/ \E s \in Svc : s \in Up(k) /\ g \in Up(s))
    BY <1>6 DEF Above
  <2>2. i \in Vertex /\ g \in Vertex /\ Svc \subseteq Vertex /\ x \in Inst
    BY <1>3, <1>6 DEF Vertex, Above
  <2>3. g \in ToSet(W[i])
    BY <1>3, <1>4, <1>5, <2>1, <2>2
  <2>4. x \in ToSet(W[i])
    BY <1>3, <1>4, <2>1, <2>2, <2>3
  <2> QED BY <1>2, <2>2, <2>4 DEF MarkedBy
<1> QED BY <1>6 DEF MarkedBy

(* Among any instances there is one that has none of the others next above. *)
LEMMA Highest ==
  ASSUME NEW T \in SUBSET Inst, T # {}
  PROVE  \E i \in T : Above(DepGroup, i) \cap T = {}
<1> DEFINE G == {g \in DepGroup : Up(g) \cap T # {}}
           H == {s \in Svc : Up(s) \cap G # {}}
           S == T \cup G \cup H
<1>1. PICK v \in S : Up(v) \cap S = {}
  <2>1. S \in SUBSET Vertex /\ S # {}
    BY DEF Vertex
  <2> HIDE DEF S
  <2> QED BY <2>1, AcyclicAssumption DEF Up
<1>2. v \in T
  BY <1>1
<1>3. ASSUME NEW x \in Above(DepGroup, v) \cap T PROVE FALSE
  <2>1. PICK g \in DepGroup :
          x \in Up(g) /\ (g \in Up(v) \/ \E s \in Svc : s \in Up(v) /\ g \in Up(s))
    BY <1>3 DEF Above
  <2>2. g \in G
    BY <1>3, <2>1
  <2> QED BY <1>1, <2>1, <2>2
<1> QED BY <1>2, <1>3

=============================================================================
