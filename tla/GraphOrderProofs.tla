--------------------------- MODULE GraphOrderProofs ---------------------------
(***************************************************************************)
(* Proofs about how module Graph takes instances down: the order in which  *)
(* it does, and that no mark is left behind.                               *)
(***************************************************************************)
EXTENDS GraphProofs

-----------------------------------------------------------------------------
(* The invariant.  It is stated of the set N of queued notes, the marks off and
   the states st. *)

Runs(st, i) == st[i] \in {"Online", "Degraded"}

\* vtx_can_go_down
GoDown(off, st, v) ==
  LET quiet[u \in Vertex] ==
        \A w \in ToSet(dependents[u]) :
          \/ w \in Inst /\ ~off[w]
          \/ quiet[w] /\ (w \in Inst => st[w] \notin {"Online", "Degraded"})
  IN  quiet[v]

\* Next above i there is no marked instance that runs.
Calm(off, st, i) == \A x \in Above(DepGroup, i) : ~(off[x] /\ Runs(st, x))

\* A request to disable is being carried out that began with marking T.
Cascade(T, N, off, st) ==
  /\ \A i \in Inst : off[i] => i \in T
  /\ \A i \in T : Above(Stops, i) \subseteq T
  /\ \A i \in T : ~off[i] => Calm(off, st, i)
  /\ \A n \in N : n.type = "SC_OFFLINE" => n.path \in T /\ n.reason = RestartOnRestart

Offlines(N, i) == \E n \in N : n.type = "SC_OFFLINE" /\ n.path = i

(* A marked instance has its SC_OFFLINE queued or waits for one next above it.
   A note for a marked instance is an SC_OFFLINE, and it may go down.  While
   there are marks, all that are to stop belong to what was marked at first. *)
OrderOf(N, off, st) ==
  /\ \A i \in Inst : off[i] => Offlines(N, i) \/ \E x \in Above(DepGroup, i) : off[x]
  /\ \A n \in N : off[n.path] => n.type = "SC_OFFLINE" /\ GoDown(off, st, n.path)
  /\ (\E i \in Inst : off[i]) => \E T \in SUBSET Inst : Cascade(T, N, off, st)

OrderInv == OrderOf(ToSet(notes), to_offline, state)

-----------------------------------------------------------------------------
(* vtx_can_go_down *)

\* What the recursion of vtx_can_go_down asks of a dependent w, when ok is what
\* it found of w itself.
Lets(off, st, w, ok) ==
  \/ w \in Inst /\ ~off[w]
  \/ ok /\ (w \in Inst => ~Runs(st, w))

(* The recursion of vtx_can_go_down has a solution: the greatest set of vertices
   that are free to go as long as those above them are. *)
LEMMA GoDownEq ==
  ASSUME NEW off, NEW st, NEW v \in Vertex
  PROVE  GoDown(off, st, v) <=> \A w \in Up(v) : Lets(off, st, w, GoDown(off, st, w))
<1> DEFINE Closed(S) == \A u \in S : \A w \in Up(u) : Lets(off, st, w, w \in S)
           Q == UNION {S \in SUBSET Vertex : Closed(S)}
           Eq(q) == q = [u \in Vertex |->
                          \A w \in ToSet(dependents[u]) :
                            \/ w \in Inst /\ ~off[w]
                            \/ q[w] /\ (w \in Inst => st[w] \notin {"Online", "Degraded"})]
           f == [u \in Vertex |-> u \in Q]
           q0 == CHOOSE q : Eq(q)
<1>1. ASSUME NEW u \in Vertex
      PROVE  u \in Q <=> \A w \in Up(u) : Lets(off, st, w, w \in Q)
  <2>1. ASSUME u \in Q, NEW w \in Up(u) PROVE Lets(off, st, w, w \in Q)
    <3>1. PICK S \in SUBSET Vertex : Closed(S) /\ u \in S
      BY <2>1
    <3>2. Lets(off, st, w, w \in S)
      BY <2>1, <3>1
    <3> QED BY <3>1, <3>2 DEF Lets
  <2>2. ASSUME \A w \in Up(u) : Lets(off, st, w, w \in Q) PROVE u \in Q
    <3> DEFINE R == Q \cup {u}
    <3>1. ASSUME NEW x \in Q, NEW w \in Up(x) PROVE Lets(off, st, w, w \in Q)
      <4>1. PICK S \in SUBSET Vertex : Closed(S) /\ x \in S
        BY <3>1
      <4>2. Lets(off, st, w, w \in S)
        BY <3>1, <4>1
      <4> QED BY <4>1, <4>2 DEF Lets
    <3>2. Q \subseteq Vertex
      OBVIOUS
    <3>3. Closed(R)
      <4> HIDE DEF Q
      <4> QED BY <2>2, <3>1 DEF Lets
    <3>4. R \in SUBSET Vertex
      BY <3>2
    <3>5. u \in R
      OBVIOUS
    <3> HIDE DEF Closed, R
    <3> QED BY <3>3, <3>4, <3>5
  <2> QED BY <2>1, <2>2
<1>2. Eq(f)
  <2> HIDE DEF Q
  <2>1. ASSUME NEW u \in Vertex
        PROVE  (u \in Q) = (\A w \in ToSet(dependents[u]) :
                            \/ w \in Inst /\ ~off[w]
                            \/ f[w] /\ (w \in Inst => st[w] \notin {"Online", "Degraded"}))
    <3>1. \A w \in Up(u) : f[w] = (w \in Q)
      BY Edges
    <3> HIDE DEF f
    <3>2. \A w \in Up(u) :
            Lets(off, st, w, w \in Q) <=>
              \/ w \in Inst /\ ~off[w]
              \/ f[w] /\ (w \in Inst => st[w] \notin {"Online", "Degraded"})
      BY <3>1, Zenon DEF Lets, Runs
    <3>3. u \in Q <=> \A w \in Up(u) : Lets(off, st, w, w \in Q)
      BY <1>1
    <3>4. u \in Q <=> \A w \in Up(u) :
                        \/ w \in Inst /\ ~off[w]
                        \/ f[w] /\ (w \in Inst => st[w] \notin {"Online", "Degraded"})
      BY <3>2, <3>3
    <3> DEFINE all == \A w \in ToSet(dependents[u]) :
                        \/ w \in Inst /\ ~off[w]
                        \/ f[w] /\ (w \in Inst => st[w] \notin {"Online", "Degraded"})
    <3>5. all \in BOOLEAN /\ (u \in Q <=> all)
      BY <3>4, Zenon DEF Up
    <3> HIDE DEF all
    <3>6. (u \in Q) = all
      BY <3>5
    <3> QED BY <3>6, Zenon DEF all
  <2> QED BY <2>1, Zenon
<1>3. Eq(q0)
  <2> HIDE DEF f
  <2> QED BY <1>2, Zenon
<1>4. \A u : GoDown(off, st, u) = q0[u]
  BY DEF GoDown
<1> HIDE DEF q0
<1>5. q0[v] = \A w \in ToSet(dependents[v]) :
                \/ w \in Inst /\ ~off[w]
                \/ q0[w] /\ (w \in Inst => st[w] \notin {"Online", "Degraded"})
  BY <1>3, Zenon
<1> QED BY <1>4, <1>5 DEF Lets, Runs, Up

(* What may go down still may when there are fewer marks and fewer of the marked
   run. *)
LEMMA GoDownLess ==
  ASSUME NEW off, NEW st, NEW off2, NEW st2,
         \A w \in Inst : off2[w] => off[w] /\ (Runs(st2, w) => Runs(st, w))
  PROVE  \A v \in Vertex : GoDown(off, st, v) => GoDown(off2, st2, v)
<1> DEFINE Bad == {v \in Vertex : GoDown(off, st, v) /\ ~GoDown(off2, st2, v)}
<1>1. SUFFICES ASSUME Bad # {} PROVE FALSE
  OBVIOUS
<1>2. PICK v \in Bad : Up(v) \cap Bad = {}
  <2>1. Bad \in SUBSET Vertex
    OBVIOUS
  <2> HIDE DEF Bad
  <2> QED BY <1>1, <2>1, AcyclicAssumption DEF Up
<1>3. v \in Vertex /\ GoDown(off, st, v) /\ ~GoDown(off2, st2, v)
  OBVIOUS
<1>4. PICK w \in Up(v) : ~Lets(off2, st2, w, GoDown(off2, st2, w))
  BY <1>3, GoDownEq
<1>5. Lets(off, st, w, GoDown(off, st, w))
  BY <1>3, GoDownEq
<1>6. w \in Vertex /\ (GoDown(off, st, w) => GoDown(off2, st2, w))
  BY <1>2, <1>3, Edges
<1> QED BY <1>4, <1>5, <1>6 DEF Lets

(* An instance that may go down has no marked instance next above that runs. *)
LEMMA GoDownCalm ==
  ASSUME NEW off, NEW st, NEW i \in Inst, GoDown(off, st, i)
  PROVE  Calm(off, st, i)
<1>1. Inst \cap Svc = {} /\ Inst \cap DepGroup = {} /\ Svc \cap DepGroup = {}
  BY GraphAssumption
<1>2. ASSUME NEW x \in Above(DepGroup, i), off[x], Runs(st, x) PROVE FALSE
  <2>1. PICK g \in DepGroup :
          x \in Up(g) /\ (g \in Up(i) \/ \E s \in Svc : s \in Up(i) /\ g \in Up(s))
    BY <1>2 DEF Above
  <2>2. i \in Vertex /\ g \in Vertex /\ Svc \subseteq Vertex /\ x \in Inst
    BY <1>2 DEF Vertex, Above
  <2>3. ~GoDown(off, st, g)
    <3>1. ~Lets(off, st, x, GoDown(off, st, x))
      BY <1>2, <2>2 DEF Lets
    <3> QED BY <2>1, <2>2, <3>1, GoDownEq
  <2>4. ~Lets(off, st, g, GoDown(off, st, g))
    BY <1>1, <2>3 DEF Lets
  <2>5. CASE g \in Up(i)
    BY <2>2, <2>4, <2>5, GoDownEq
  <2>6. CASE \E s \in Svc : s \in Up(i) /\ g \in Up(s)
    <3>1. PICK s \in Svc : s \in Up(i) /\ g \in Up(s)
      BY <2>6
    <3>2. ~GoDown(off, st, s)
      BY <2>2, <2>4, <3>1, GoDownEq
    <3>3. ~Lets(off, st, s, GoDown(off, st, s))
      BY <1>1, <3>2 DEF Lets
    <3> QED BY <2>2, <3>1, <3>3, GoDownEq
  <2> QED BY <2>1, <2>5, <2>6
<1> QED BY <1>2 DEF Calm

(* An instance that has no marked instance next above may go down. *)
LEMMA UnmarkedGoDown ==
  ASSUME NEW off, NEW st, NEW i \in Inst, \A x \in Above(DepGroup, i) : ~off[x]
  PROVE  GoDown(off, st, i)
<1>1. Inst \cap Svc = {} /\ Inst \cap DepGroup = {} /\ Svc \cap DepGroup = {}
  BY GraphAssumption
<1>2. Inst \subseteq Vertex /\ Svc \subseteq Vertex /\ DepGroup \subseteq Vertex
  BY DEF Vertex
<1>3. ASSUME NEW g \in DepGroup, g \in Up(i) \/ \E s \in Svc : s \in Up(i) /\ g \in Up(s)
      PROVE  GoDown(off, st, g)
  <2>1. ASSUME NEW x \in Up(g) PROVE Lets(off, st, x, GoDown(off, st, x))
    <3>1. x \in Inst
      BY <1>1, <1>2, Edges
    <3>2. x \in Above(DepGroup, i)
      BY <1>3, <2>1, <3>1 DEF Above
    <3> QED BY <3>1, <3>2 DEF Lets
  <2> QED BY <1>2, <2>1, GoDownEq
<1>4. ASSUME NEW s \in Svc, s \in Up(i) PROVE GoDown(off, st, s)
  <2>1. ASSUME NEW g \in Up(s) PROVE Lets(off, st, g, GoDown(off, st, g))
    <3>1. g \in DepGroup
      BY <1>1, <1>2, Edges
    <3>2. GoDown(off, st, g)
      BY <1>3, <1>4, <3>1
    <3> QED BY <1>1, <3>1, <3>2 DEF Lets
  <2> QED BY <1>2, <2>1, GoDownEq
<1>5. ASSUME NEW w \in Up(i) PROVE Lets(off, st, w, GoDown(off, st, w))
  <2>1. w \in Svc \cup DepGroup
    BY <1>1, <1>2, Edges
  <2>2. GoDown(off, st, w)
    BY <1>3, <1>4, <2>1
  <2> QED BY <1>1, <2>1, <2>2 DEF Lets
<1> QED BY <1>2, <1>5, GoDownEq

-----------------------------------------------------------------------------
(* The queue as a set of notes. *)

\* The elements of a sequence and of what is left without the first one.
LEMMA HeadSet ==
  ASSUME NEW V, NEW s \in Seq(V), s # <<>>
  PROVE  Tail(s) \in Seq(V) /\ ToSet(s) = {Head(s)} \cup ToSet(Tail(s))
<1>1. /\ Tail(s) \in Seq(V) /\ Len(s) \in Nat \ {0} /\ Len(Tail(s)) = Len(s) - 1
      /\ Head(s) = s[1] /\ \A k \in 1 .. Len(Tail(s)) : Tail(s)[k] = s[k + 1]
  BY HeadTailProperties, EmptySeq
<1>2. DOMAIN s = 1 .. Len(s) /\ DOMAIN Tail(s) = 1 .. Len(Tail(s))
  BY <1>1, LenProperties
<1>3. ASSUME NEW x \in ToSet(s), x # Head(s) PROVE x \in ToSet(Tail(s))
  <2>1. PICK k \in 1 .. Len(s) : x = s[k]
    BY <1>2, <1>3 DEF ToSet
  <2>2. k - 1 \in 1 .. Len(Tail(s)) /\ Tail(s)[k - 1] = x
    <3>1. k # 1 /\ k - 1 \in 1 .. Len(Tail(s)) /\ (k - 1) + 1 = k
      BY <1>1, <1>3, <2>1
    <3> QED BY <1>1, <2>1, <3>1
  <2> QED BY <1>2, <2>2 DEF ToSet
<1>4. ASSUME NEW x \in ToSet(Tail(s)) PROVE x \in ToSet(s)
  <2>1. PICK k \in 1 .. Len(Tail(s)) : x = Tail(s)[k]
    BY <1>2, <1>4 DEF ToSet
  <2>2. k + 1 \in 1 .. Len(s) /\ s[k + 1] = x
    BY <1>1, <2>1
  <2> QED BY <1>2, <2>2 DEF ToSet
<1>5. Head(s) \in ToSet(s)
  BY <1>1, <1>2 DEF ToSet
<1> QED BY <1>1, <1>3, <1>4, <1>5

(* Keep returns the elements it was asked for. *)
LEMMA KeepSet ==
  ASSUME NEW V, NEW s \in Seq(V), NEW S
  PROVE  ToSet(Keep(s, S)) = ToSet(s) \cap S
<1> DEFINE f == CHOOSE f : KeepOf(s, S, f)
<1>1. KeepOf(s, S, f)
  BY KeepExists
<1>2. Keep(s, S) = f[Len(s)]
  BY DEF Keep, KeepOf
<1> HIDE DEF f
<1> DEFINE Good(n) == /\ f[n] \in Seq(V)
                      /\ \A x : x \in ToSet(f[n]) <=> x \in S /\ \E k \in 1 .. n : x = s[k]
           Bad == {n \in 0 .. Len(s) : ~Good(n)}
<1>3. Len(s) \in Nat /\ DOMAIN s = 1 .. Len(s)
  OBVIOUS
<1>4. SUFFICES ASSUME Bad # {} PROVE FALSE
  <2>1. Len(s) \in 0 .. Len(s)
    BY <1>3
  <2>2. Bad = {} => Good(Len(s))
    BY <2>1
  <2>3. \A x : x \in ToSet(s) <=> \E k \in 1 .. Len(s) : x = s[k]
    BY <1>3 DEF ToSet
  <2> HIDE DEF Bad
  <2> QED BY <1>2, <2>2, <2>3
<1>5. PICK n \in Bad : \A m \in Bad : n <= m
  <2>1. Bad \in SUBSET Nat
    BY <1>3
  <2> HIDE DEF Bad
  <2> QED BY <1>4, <2>1, LeastNat
<1>6. n \in Nat /\ n <= Len(s) /\ ~Good(n)
  BY <1>3
<1>7. n # 0
  <2>1. f[0] = <<>>
    BY <1>1, <1>3 DEF KeepOf
  <2>2. Good(0)
    BY <2>1 DEF ToSet
  <2> QED BY <1>6, <2>2
<1>8. Good(n - 1)
  <2>1. n - 1 \in 0 .. Len(s) /\ n - 1 \notin Bad
    <3> HIDE DEF Bad
    <3> QED BY <1>3, <1>5, <1>6, <1>7
  <2> QED BY <2>1
<1>9. f[n] = IF s[n] \in S THEN Append(f[n - 1], s[n]) ELSE f[n - 1]
  BY <1>1, <1>3, <1>6, <1>7 DEF KeepOf
<1>10. s[n] \in V
  BY <1>3, <1>6, <1>7
<1>11. 1 .. n = (1 .. n - 1) \cup {n}
  BY <1>6, <1>7
<1>12. CASE s[n] \in S
  <2>1. PICK one : one = <<s[n]>>
    OBVIOUS
  <2>2. one \in Seq(V) /\ ToSet(one) = {s[n]}
    BY <1>10, <2>1 DEF ToSet
  <2>3. f[n] = f[n - 1] \o one
    BY <1>8, <1>9, <1>10, <1>12, <2>1, AppendIsConcat
  <2>4. f[n] \in Seq(V) /\ ToSet(f[n]) = ToSet(f[n - 1]) \cup {s[n]}
    BY <1>8, <2>2, <2>3, ConcatSet
  <2>5. \A x : x \in ToSet(f[n - 1]) <=> x \in S /\ \E k \in 1 .. n - 1 : x = s[k]
    BY <1>8
  <2>6. \A x : x \in ToSet(f[n]) <=> x \in S /\ \E k \in 1 .. n : x = s[k]
    BY <1>11, <1>12, <2>4, <2>5
  <2>7. Good(n)
    BY <2>4, <2>6
  <2> QED BY <1>6, <2>7
<1>13. CASE s[n] \notin S
  <2>1. Good(n)
    BY <1>8, <1>9, <1>11, <1>13
  <2> QED BY <1>6, <2>1
<1> QED BY <1>12, <1>13

\* The notes of one type for the instances in S.
Told(type, S, reason) == {[type |-> type, path |-> x, reason |-> reason] : x \in S}

(* A handler appends a note for every vertex visited that is in the set given,
   and for no other. *)
LEMMA NotesForSet ==
  ASSUME NEW type, NEW visited \in Seq(Vertex), NEW S, NEW reason
  PROVE  ToSet(NotesFor(type, visited, S, reason)) = Told(type, ToSet(visited) \cap S, reason)
<1> DEFINE hit == Keep(visited, S)
<1>1. hit \in Seq(Vertex \cap S)
  BY KeepProperties
<1>2. ToSet(hit) = ToSet(visited) \cap S
  BY KeepSet
<1>3. NotesFor(type, visited, S, reason)
        = [k \in 1 .. Len(hit) |-> [type |-> type, path |-> hit[k], reason |-> reason]]
  BY DEF NotesFor
<1> HIDE DEF hit
<1>4. Len(hit) \in Nat /\ DOMAIN hit = 1 .. Len(hit)
  BY <1>1
<1>5. ToSet(hit) = {hit[k] : k \in 1 .. Len(hit)}
  BY <1>4 DEF ToSet
<1>6. ToSet(NotesFor(type, visited, S, reason))
        = {[type |-> type, path |-> hit[k], reason |-> reason] : k \in 1 .. Len(hit)}
  BY <1>3, <1>4 DEF ToSet
<1> QED BY <1>2, <1>5, <1>6 DEF Told

-----------------------------------------------------------------------------
(* The steps, on the set of notes, the marks and the states. *)

(* While there are no marks the invariant says nothing. *)
LEMMA NoMarks ==
  ASSUME NEW N \in SUBSET Note, NEW off, NEW st, \A i \in Inst : ~off[i]
  PROVE  OrderOf(N, off, st)
BY DEF OrderOf, Note

(* With an empty queue nothing is marked: the highest marked instance would have
   to wait for one above it. *)
LEMMA NothingMarked ==
  ASSUME NEW off, NEW st, OrderOf({}, off, st)
  PROVE  \A i \in Inst : ~off[i]
<1> DEFINE M == {i \in Inst : off[i]}
<1>1. SUFFICES ASSUME M # {} PROVE FALSE
  OBVIOUS
<1>2. M \in SUBSET Inst
  OBVIOUS
<1>3. PICK i \in M : Above(DepGroup, i) \cap M = {}
  <2> HIDE DEF M
  <2> QED BY <1>1, <1>2, Highest
<1>4. PICK x \in Above(DepGroup, i) : off[x]
  BY DEF OrderOf, Offlines
<1> QED BY <1>3, <1>4 DEF Above

\* A step that changes no mark, nor the state of a marked instance, nor takes
\* away a note for one, and queues notes for unmarked instances only.
PassesBy(N, N2, off, st, st2) ==
  /\ \A w \in Inst : off[w] => st2[w] = st[w]
  /\ \A n \in N : off[n.path] => n \in N2
  /\ \A n \in N2 : n \notin N => ~off[n.path]
  /\ \A n \in N2, T \in SUBSET Inst :
       (n \notin N /\ n.type = "SC_OFFLINE" /\ Cascade(T, N, off, st) /\ \E w \in Inst : off[w])
         => n.path \in T /\ n.reason = RestartOnRestart

(* Such a step keeps the invariant: what vtx_can_go_down says of the marked ones
   does not change. *)
LEMMA StepUnmarked ==
  ASSUME NEW N \in SUBSET Note, NEW N2 \in SUBSET Note, NEW off, NEW st, NEW st2,
         OrderOf(N, off, st), PassesBy(N, N2, off, st, st2)
  PROVE  OrderOf(N2, off, st2)
<1> USE DEF PassesBy
<1>1. \A v \in Vertex : GoDown(off, st, v) => GoDown(off, st2, v)
  <2>1. \A w \in Inst : off[w] => off[w] /\ (Runs(st2, w) => Runs(st, w))
    BY DEF Runs
  <2> QED BY <2>1, GoDownLess
<1>2. \A n \in N \cup N2 : n.path \in Inst /\ n.path \in Vertex
  BY DEF Note, Vertex
<1>3. ASSUME NEW i \in Inst, off[i], Offlines(N, i) PROVE Offlines(N2, i)
  BY <1>3 DEF Offlines
<1>4. ASSUME NEW n \in N2, off[n.path]
      PROVE  n.type = "SC_OFFLINE" /\ GoDown(off, st2, n.path)
  BY <1>1, <1>2, <1>4 DEF OrderOf
<1>5. ASSUME NEW w \in Inst, off[w] PROVE \E T \in SUBSET Inst : Cascade(T, N2, off, st2)
  <2>1. PICK T \in SUBSET Inst : Cascade(T, N, off, st)
    BY <1>5 DEF OrderOf
  <2>2. ASSUME NEW k \in Inst, Calm(off, st, k) PROVE Calm(off, st2, k)
    BY <2>2 DEF Calm, Runs, Above
  <2>3. ASSUME NEW n \in N2, n.type = "SC_OFFLINE"
        PROVE  n.path \in T /\ n.reason = RestartOnRestart
    <3>1. CASE n \in N
      BY <2>1, <2>3, <3>1 DEF Cascade
    <3>2. CASE n \notin N
      BY <1>5, <2>1, <2>3, <3>2
    <3> QED BY <3>1, <3>2
  <2>4. Cascade(T, N2, off, st2)
    BY <2>1, <2>2, <2>3 DEF Cascade
  <2> QED BY <2>4
<1> QED BY <1>3, <1>4, <1>5 DEF OrderOf

(* An administrative stop goes over the same groups as the restart it becomes. *)
LEMMA FollowsRestart == Follows(RestartOnRestart) = Stops
<1>1. \A g \in DepGroup : restart_on[g] \in RestartOn
  BY GraphAssumption DEF Vertex
<1>2. \A r \in RestartOn : r >= RestartOnRestart <=> r \notin {RestartOnNone, RestartOnError}
  BY DEF RestartOn, RestartOnNone, RestartOnError, RestartOnRestart, RestartOnAny
<1> QED BY <1>1, <1>2 DEF Follows, Stops

\* A marked instance j goes offline: its mark is taken away, what is below and
\* may go now is told to, and what runs above is told of it.
Releases(N, N2, off, st, off2, st2, j, reason) ==
  /\ off[j] /\ [type |-> "SC_OFFLINE", path |-> j, reason |-> reason] \in N
  /\ \A w \in Inst : off2[w] <=> (off[w] /\ w # j)
  /\ \A w \in Inst : st2[w] = IF w = j THEN "Offline" ELSE st[w]
  /\ \A n \in N : n.path # j => n \in N2
  /\ \A x \in ToSet(DependencyWalk[j]) \cap Inst :
       (off2[x] /\ GoDown(off2, st2, x)) => Offlines(N2, x)
  /\ \A n \in N2 :
       \/ n \in N
       \/ n.path = j /\ n.type # "SC_OFFLINE"
       \/ /\ n.type = "SC_OFFLINE" /\ n.reason = reason
          /\ \/ off2[n.path] /\ GoDown(off2, st2, n.path)
             \/ n.path \in Above(Follows(reason), j) /\ Runs(st2, n.path)

(* It keeps the invariant: an instance that waited for j is told now or has
   another one to wait for. *)
LEMMA StepMarked ==
  ASSUME NEW N \in SUBSET Note, NEW N2 \in SUBSET Note, NEW off, NEW st, NEW off2, NEW st2,
         NEW j \in Inst, NEW reason \in RestartOn, OrderOf(N, off, st),
         Releases(N, N2, off, st, off2, st2, j, reason)
  PROVE  OrderOf(N2, off2, st2)
<1> USE DEF Releases
<1>1. \A w \in Inst : off2[w] => off[w] /\ (Runs(st2, w) => Runs(st, w))
  BY DEF Runs
<1>2. \A v \in Vertex : GoDown(off, st, v) => GoDown(off2, st2, v)
  BY <1>1, GoDownLess
<1>3. \A n \in N \cup N2 : n.path \in Inst /\ n.path \in Vertex
  BY DEF Note, Vertex
<1>4. PICK T \in SUBSET Inst : Cascade(T, N, off, st)
  BY DEF OrderOf
<1>5. GoDown(off, st, j) /\ j \in T /\ reason = RestartOnRestart
  BY <1>4 DEF OrderOf, Cascade
<1>6. Calm(off, st, j)
  BY <1>5, GoDownCalm
<1>7. Follows(reason) = Stops
  BY <1>5, FollowsRestart
<1>8. Stops \subseteq DepGroup
  BY DEF Stops
<1>9. ASSUME NEW x \in Above(Stops, j), Runs(st2, x) PROVE x \in T /\ ~off2[x]
  <2>1. x \in Above(DepGroup, j) /\ x \in Inst
    BY <1>8, <1>9 DEF Above
  <2>2. x \in T
    BY <1>4, <1>5, <1>9 DEF Cascade
  <2>3. ~(off[x] /\ Runs(st, x))
    BY <1>6, <2>1 DEF Calm
  <2> QED BY <1>1, <1>9, <2>1, <2>2, <2>3
<1>10. ASSUME NEW i \in Inst, off2[i]
       PROVE  Offlines(N2, i) \/ \E x \in Above(DepGroup, i) : off2[x]
  <2>1. off[i] /\ i # j
    BY <1>10
  <2>2. CASE Offlines(N, i)
    BY <2>1, <2>2 DEF Offlines
  <2>3. CASE \E x \in Above(DepGroup, i) : off[x]
    <3>1. SUFFICES ASSUME \A x \in Above(DepGroup, i) : ~off2[x] PROVE Offlines(N2, i)
      OBVIOUS
    <3>2. j \in Above(DepGroup, i)
      BY <2>3, <3>1 DEF Above
    <3>3. i \in ToSet(DependencyWalk[j])
      BY <3>2, DependencyReaches
    <3>4. GoDown(off2, st2, i)
      BY <3>1, UnmarkedGoDown
    <3> QED BY <1>10, <3>3, <3>4
  <2> QED BY <2>1, <2>2, <2>3 DEF OrderOf
<1>11. ASSUME NEW n \in N2, off2[n.path]
       PROVE  n.type = "SC_OFFLINE" /\ GoDown(off2, st2, n.path)
  <2>1. n.path # j /\ off[n.path]
    BY <1>3, <1>11
  <2>2. CASE n \in N
    BY <1>2, <1>3, <2>1, <2>2 DEF OrderOf
  <2>3. CASE n \notin N
    BY <1>7, <1>9, <1>11, <2>1, <2>3
  <2> QED BY <2>2, <2>3
<1>12. Cascade(T, N2, off2, st2)
  <2>1. ASSUME NEW n \in N2, n.type = "SC_OFFLINE"
        PROVE  n.path \in T /\ n.reason = RestartOnRestart
    <3>1. CASE n \in N
      BY <1>4, <2>1, <3>1 DEF Cascade
    <3>2. CASE n \notin N
      <4>1. n.reason = reason /\ (off2[n.path] \/ (n.path \in Above(Stops, j) /\ Runs(st2, n.path)))
        BY <1>7, <2>1, <3>2
      <4>2. off2[n.path] => n.path \in T
        BY <1>3, <1>4 DEF Cascade
      <4> QED BY <1>5, <1>9, <4>1, <4>2
    <3> QED BY <3>1, <3>2
  <2>2. ASSUME NEW k \in Inst, Calm(off, st, k) PROVE Calm(off2, st2, k)
    BY <1>1, <2>2 DEF Calm, Above
  <2>3. ASSUME NEW k \in T, ~off2[k] PROVE Calm(off2, st2, k)
    BY <1>4, <1>6, <2>2, <2>3 DEF Cascade
  <2>4. \A i \in Inst : off2[i] => i \in T
    BY <1>4 DEF Cascade
  <2>5. \A i \in T : Above(Stops, i) \subseteq T
    BY <1>4 DEF Cascade
  <2> QED BY <2>1, <2>3, <2>4, <2>5 DEF Cascade
<1> QED BY <1>10, <1>11, <1>12 DEF OrderOf

(* A request to disable i is read when nothing is marked and nothing queued. *)
LEMMA StepMark ==
  ASSUME NEW N, NEW off, NEW st, NEW i \in Inst,
         \A v \in Inst : off[v] <=> v \in MarkedBy(i),
         N = Told("SC_OFFLINE", {v \in Inst : off[v] /\ GoDown(off, st, v)}, RestartOnRestart)
  PROVE  OrderOf(N, off, st)
<1>1. ASSUME NEW x \in Inst, off[x], GoDown(off, st, x) PROVE Offlines(N, x)
  <2> DEFINE n == [type |-> "SC_OFFLINE", path |-> x, reason |-> RestartOnRestart]
  <2>1. n \in N
    BY <1>1 DEF Told
  <2>2. n.type = "SC_OFFLINE" /\ n.path = x
    OBVIOUS
  <2> QED BY <2>1, <2>2 DEF Offlines
<1>2. \A n \in N : /\ n.type = "SC_OFFLINE" /\ n.reason = RestartOnRestart
                   /\ n.path \in Inst /\ off[n.path] /\ GoDown(off, st, n.path)
  BY DEF Told
<1>3. MarkedBy(i) \subseteq Inst /\ \A k \in MarkedBy(i) : Above(Stops, k) \subseteq MarkedBy(i)
  BY DisableClosed
<1>4. Cascade(MarkedBy(i), N, off, st)
  BY <1>2, <1>3 DEF Cascade
<1>5. ASSUME NEW k \in Inst, off[k]
      PROVE  Offlines(N, k) \/ \E x \in Above(DepGroup, k) : off[x]
  BY <1>1, <1>5, UnmarkedGoDown
<1> QED BY <1>2, <1>3, <1>4, <1>5 DEF OrderOf

-----------------------------------------------------------------------------
(* The handlers. *)

(* vtx_can_go_down and the sets of instances that the handlers look for. *)
LEMMA Sought ==
  /\ \A v : vtx_can_go_down(v) <=> GoDown(to_offline, state, v)
  /\ Running' = {v \in Inst : Runs(state', v)}
  /\ Droppable' = {v \in Inst : to_offline'[v] /\ GoDown(to_offline', state', v)}
  /\ \A v \in Startable' : v \in Inst /\ ~to_offline'[v]
<1>1. \A v : vtx_can_go_down(v) <=> GoDown(to_offline, state, v)
  BY DEF vtx_can_go_down, GoDown, vtx_is_running
<1>2. Running' = {v \in Inst : Runs(state', v)}
  BY DEF Running, Runs, vtx_is_running
<1>3. Droppable' = {v \in Inst : to_offline'[v] /\ GoDown(to_offline', state', v)}
  BY DEF Droppable, vtx_can_go_down, GoDown, vtx_is_running
<1>4. \A v \in Startable' : v \in Inst /\ ~to_offline'[v]
  BY DEF Startable, vtx_inst_can_come_up
<1> QED BY <1>1, <1>2, <1>3, <1>4

(* The notes that the handlers append, as sets. *)
LEMMA AppendedSet ==
  ASSUME NEW i \in Inst, NEW reason \in RestartOn
  PROVE  /\ \A n \in ToSet(vtx_notify_start(i)') \cup ToSet(vtx_notify_misc(i, reason)') :
              n.type = "SC_ONLINE" /\ n.path \in Startable'
         /\ ToSet(vtx_notify_stop(i, reason)')
              = Told("SC_OFFLINE", ToSet(StopWalk[reason][i]) \cap Running', reason)
         /\ ToSet(vtx_offline_dependency(i, reason)')
              = Told("SC_OFFLINE", ToSet(DependencyWalk[i]) \cap Droppable', reason)
         /\ ToSet(vtx_offline_if_possible')
              = Told("SC_OFFLINE", Droppable', RestartOnRestart)
<1>1. /\ StartWalk[i] \in Seq(Vertex) /\ MiscWalk[i] \in Seq(Vertex)
      /\ StopWalk[reason][i] \in Seq(Vertex) /\ DependencyWalk[i] \in Seq(Vertex)
      /\ graph \in Seq(Vertex) /\ ToSet(graph) = Vertex
  BY WalksEnd, GraphAssumption DEF Vertex
<1>2. /\ vtx_notify_start(i)' = NotesFor("SC_ONLINE", StartWalk[i], Startable', RestartOnNone)
      /\ vtx_notify_misc(i, reason)' = NotesFor("SC_ONLINE", MiscWalk[i], Startable', reason)
      /\ vtx_notify_stop(i, reason)' = NotesFor("SC_OFFLINE", StopWalk[reason][i], Running', reason)
      /\ vtx_offline_dependency(i, reason)' =
           NotesFor("SC_OFFLINE", DependencyWalk[i], Droppable', reason)
      /\ vtx_offline_if_possible' = NotesFor("SC_OFFLINE", graph, Droppable', RestartOnRestart)
  BY DEF vtx_notify_start, vtx_notify_misc, vtx_notify_stop, vtx_offline_dependency,
         vtx_offline_if_possible
<1>3. /\ ToSet(vtx_notify_start(i)') =
           Told("SC_ONLINE", ToSet(StartWalk[i]) \cap Startable', RestartOnNone)
      /\ ToSet(vtx_notify_misc(i, reason)') =
           Told("SC_ONLINE", ToSet(MiscWalk[i]) \cap Startable', reason)
      /\ ToSet(vtx_notify_stop(i, reason)') =
           Told("SC_OFFLINE", ToSet(StopWalk[reason][i]) \cap Running', reason)
      /\ ToSet(vtx_offline_dependency(i, reason)') =
           Told("SC_OFFLINE", ToSet(DependencyWalk[i]) \cap Droppable', reason)
      /\ ToSet(vtx_offline_if_possible') =
           Told("SC_OFFLINE", ToSet(graph) \cap Droppable', RestartOnRestart)
  BY <1>1, <1>2, NotesForSet
<1>4. ToSet(graph) \cap Droppable' = Droppable'
  BY <1>1 DEF Droppable, Vertex
<1>5. \A n \in ToSet(vtx_notify_start(i)') \cup ToSet(vtx_notify_misc(i, reason)') :
        n.type = "SC_ONLINE" /\ n.path \in Startable'
  BY <1>3 DEF Told
<1> QED BY <1>3, <1>4, <1>5

(* The queue before and after its first note is handled. *)
LEMMA TakeFirst ==
  ASSUME TypeOK, NEW type, NEW i, NEW reason, First(type, i, reason)
  PROVE  /\ Tail(notes) \in Seq(Note) /\ ToSet(Tail(notes)) \subseteq Note
         /\ ToSet(notes) = {[type |-> type, path |-> i, reason |-> reason]} \cup ToSet(Tail(notes))
         /\ ToSet(notes) \subseteq Note
<1>1. notes \in Seq(Note) /\ notes # <<>> /\ Head(notes) = [type |-> type, path |-> i, reason |-> reason]
  BY DEF First, Quiescent, TypeOK
<1>2. Tail(notes) \in Seq(Note) /\ ToSet(notes) = {Head(notes)} \cup ToSet(Tail(notes))
  BY <1>1, HeadSet
<1>3. \A s \in Seq(Note) : ToSet(s) \subseteq Note
  BY ElementOfSeq DEF ToSet
<1> QED BY <1>1, <1>2, <1>3

(* Notes added to the queue. *)
LEMMA AddNotes ==
  ASSUME NEW s \in Seq(Note), NEW t \in Seq(Note)
  PROVE  s \o t \in Seq(Note) /\ ToSet(s \o t) = ToSet(s) \cup ToSet(t)
BY ConcatSet

(* A note other than SC_OFFLINE is for an unmarked instance, and so are the
   notes that follow it. *)
LEMMA NotOfflineOrder ==
  ASSUME TypeOK, OrderInv, NEW type, type # "SC_OFFLINE", NEW i \in Inst, NEW reason,
         First(type, i, reason), NEW A \in Seq(Note), notes' = Tail(notes) \o A,
         \A n \in ToSet(A) : n.type = "SC_ONLINE" /\ n.path \in Startable',
         \A w \in Inst : w # i => state'[w] = state[w],
         ~to_offline[i] => to_offline' = to_offline
  PROVE  OrderInv'
<1> DEFINE N == ToSet(notes)
           R == ToSet(Tail(notes))
           N2 == ToSet(notes')
           h == [type |-> type, path |-> i, reason |-> reason]
<1>1. Tail(notes) \in Seq(Note) /\ R \subseteq Note /\ N = {h} \cup R /\ N \subseteq Note
  BY TakeFirst
<1>2. OrderOf(N, to_offline, state)
  BY DEF OrderInv
<1>3. h.path = i /\ h.type # "SC_OFFLINE"
  OBVIOUS
<1>4. ~to_offline[i]
  BY <1>1, <1>2, <1>3 DEF OrderOf
<1>5. N2 = R \cup ToSet(A) /\ notes' \in Seq(Note)
  BY <1>1, AddNotes
<1>6. N2 \subseteq Note
  BY <1>5, ElementOfSeq DEF ToSet
<1>7. \A n \in ToSet(A) : n.type = "SC_ONLINE" /\ ~to_offline[n.path]
  BY <1>4, Sought
<1>8. \A w \in Inst : to_offline[w] => state'[w] = state[w]
  BY <1>4
<1> HIDE DEF N, R, N2, h
<1>9. OrderOf(N2, to_offline, state')
  <2>1. \A n \in N : to_offline[n.path] => n \in N2
    BY <1>1, <1>3, <1>4, <1>5
  <2>2. \A n \in N2 : n \notin N => ~to_offline[n.path] /\ n.type # "SC_OFFLINE"
    BY <1>1, <1>5, <1>7
  <2>3. PassesBy(N, N2, to_offline, state, state')
    BY <1>8, <2>1, <2>2 DEF PassesBy
  <2> QED BY <1>1, <1>2, <1>6, <2>3, StepUnmarked
<1> QED BY <1>4, <1>9 DEF OrderInv, N2

(* SC_ONLINE keeps the invariant. *)
LEMMA OnlineOrder ==
  ASSUME TypeOK, OrderInv, Online
  PROVE  OrderInv'
<1>1. PICK i \in Inst, reason \in RestartOn :
             First("SC_ONLINE", i, reason) /\ ProcessOnline(i, Tail(notes))
  BY DEF Online
<1> DEFINE A == vtx_notify_start(i)'
<1>2. A \in Seq(Note) /\ \A n \in ToSet(A) : n.type = "SC_ONLINE" /\ n.path \in Startable'
  BY Appended, AppendedSet DEF OnlyNotes
<1>3. notes' = Tail(notes) \o A
  BY <1>1 DEF ProcessOnline
<1>4. (\A w \in Inst : w # i => state'[w] = state[w]) /\ to_offline' = to_offline
  BY <1>1 DEF ProcessOnline, TypeOK
<1> HIDE DEF A
<1> QED BY <1>1, <1>2, <1>3, <1>4, NotOfflineOrder

(* SC_DISABLED keeps the invariant. *)
LEMMA DisabledOrder ==
  ASSUME TypeOK, OrderInv, Disabled
  PROVE  OrderInv'
<1>1. PICK i \in Inst, reason \in RestartOn :
             First("SC_DISABLED", i, reason) /\ ProcessDisabled(i, reason, Tail(notes))
  BY DEF Disabled
<1> DEFINE A == vtx_notify_misc(i, reason)'
<1>2. A \in Seq(Note) /\ \A n \in ToSet(A) : n.type = "SC_ONLINE" /\ n.path \in Startable'
  BY Appended, AppendedSet DEF OnlyNotes
<1>3. notes' = Tail(notes) \o A
  BY <1>1 DEF ProcessDisabled
<1>4. \A w \in Inst : w # i => state'[w] = state[w]
  BY <1>1 DEF ProcessDisabled, TypeOK
<1>5. ~to_offline[i] => to_offline' = to_offline
  BY <1>1 DEF ProcessDisabled, TypeOK
<1> HIDE DEF A
<1> QED BY <1>1, <1>2, <1>3, <1>4, <1>5, NotOfflineOrder

(* An unmarked instance goes offline.  If there are marks, what runs above it
   and is told to stop is none of them. *)
LEMMA UnmarkedOrder ==
  ASSUME TypeOK, OrderInv, NEW i \in Inst, NEW reason \in RestartOn,
         First("SC_OFFLINE", i, reason), ProcessOffline(i, reason, Tail(notes)), ~to_offline[i]
  PROVE  OrderInv'
<1> DEFINE N == ToSet(notes)
           R == ToSet(Tail(notes))
           N2 == ToSet(notes')
           h == [type |-> "SC_OFFLINE", path |-> i, reason |-> reason]
           C == IF vtx_inst_can_come_up(i)' THEN vtx_online(i, reason) ELSE <<>>
           D == vtx_notify_stop(i, reason)'
<1>1. Tail(notes) \in Seq(Note) /\ R \subseteq Note /\ N = {h} \cup R /\ N \subseteq Note
  BY TakeFirst
<1>2. OrderOf(N, to_offline, state)
  BY DEF OrderInv
<1>3. /\ \A w \in Inst : w # i => state'[w] = state[w]
      /\ to_offline' = to_offline /\ Runs(state', i) = FALSE
      /\ notes' = (Tail(notes) \o C) \o D
  <2>1. notes' = (Tail(notes) \o C) \o D
    BY DEF ProcessOffline
  <2>2. to_offline' = to_offline
    BY DEF ProcessOffline, TypeOK
  <2>3. (\A w \in Inst : w # i => state'[w] = state[w]) /\ ~Runs(state', i)
    BY DEF ProcessOffline, TypeOK, Runs
  <2> QED BY <2>1, <2>2, <2>3
<1>4. C \in Seq(Note) /\ \A n \in ToSet(C) : n.type = "SC_ONLINE" /\ n.path = i
  BY HasOne, HasNone DEF vtx_online, ToSet
<1>5. D \in Seq(Note) /\ ToSet(D) = Told("SC_OFFLINE", ToSet(StopWalk[reason][i]) \cap Running', reason)
  BY Appended, AppendedSet DEF OnlyNotes
<1>6. \A n \in ToSet(D) : /\ n.type = "SC_OFFLINE" /\ n.reason = reason
                          /\ n.path \in Above(Follows(reason), i) /\ Runs(state', n.path)
  <2>1. \A x \in ToSet(StopWalk[reason][i]) \cap Running' :
          x \in Above(Follows(reason), i) /\ Runs(state', x)
    BY StopReaches, Sought
  <2> HIDE DEF D
  <2> QED BY <1>5, <2>1 DEF Told
<1> HIDE DEF C, D
<1>7. N2 = R \cup ToSet(C) \cup ToSet(D) /\ notes' \in Seq(Note)
  <2>1. Tail(notes) \o C \in Seq(Note) /\ ToSet(Tail(notes) \o C) = R \cup ToSet(C)
    BY <1>1, <1>4, AddNotes
  <2> QED BY <1>3, <1>5, <2>1, AddNotes
<1>8. N2 \subseteq Note
  BY <1>7, ElementOfSeq DEF ToSet
<1>9. h.path = i /\ h.type = "SC_OFFLINE" /\ h.reason = reason
  OBVIOUS
<1>10. \A w \in Inst : to_offline[w] => state'[w] = state[w]
  BY <1>3
<1> HIDE DEF N, R, N2, h
<1>11. ASSUME NEW T \in SUBSET Inst, Cascade(T, N, to_offline, state),
              NEW n \in ToSet(D), \E w \in Inst : to_offline[w]
       PROVE  ~to_offline[n.path] /\ n.path \in T /\ n.reason = RestartOnRestart
  <2>1. i \in T /\ reason = RestartOnRestart
    BY <1>1, <1>9, <1>11 DEF Cascade
  <2>2. Follows(reason) = Stops
    BY <2>1, FollowsRestart
  <2>3. n.path \in Above(Stops, i)
    BY <1>6, <2>2
  <2>4. n.path \in Above(DepGroup, i) /\ n.path \in Inst
    BY <2>3 DEF Above, Stops
  <2>5. n.path \in T /\ Calm(to_offline, state, i)
    BY <1>11, <2>1, <2>3 DEF Cascade
  <2>6. ~(to_offline[n.path] /\ Runs(state, n.path))
    BY <2>4, <2>5 DEF Calm
  <2>7. to_offline[n.path] => Runs(state, n.path)
    BY <1>6, <1>10, <2>4 DEF Runs
  <2> QED BY <1>6, <2>1, <2>5, <2>6, <2>7
<1>12. \A n \in ToSet(D) : ~to_offline[n.path]
  <2>1. ASSUME NEW n \in ToSet(D), to_offline[n.path] PROVE FALSE
    <3>1. n.path \in Inst
      BY <1>6 DEF Above
    <3>2. PICK T \in SUBSET Inst : Cascade(T, N, to_offline, state)
      BY <1>2, <2>1, <3>1 DEF OrderOf
    <3> QED BY <1>11, <2>1, <3>1, <3>2
  <2> QED BY <2>1
<1>13. OrderOf(N2, to_offline, state')
  <2>1. \A n \in N : to_offline[n.path] => n \in N2
    BY <1>1, <1>7, <1>9
  <2>2. \A n \in N2 : n \notin N => ~to_offline[n.path] /\ (n.type = "SC_OFFLINE" => n \in ToSet(D))
    BY <1>1, <1>4, <1>7, <1>12
  <2>3. \A n \in N2, T \in SUBSET Inst :
          (n \notin N /\ n.type = "SC_OFFLINE" /\ Cascade(T, N, to_offline, state)
             /\ \E w \in Inst : to_offline[w])
            => n.path \in T /\ n.reason = RestartOnRestart
    BY <1>11, <2>2
  <2>4. \A n \in N2 : n \notin N => ~to_offline[n.path]
    BY <2>2
  <2>5. PassesBy(N, N2, to_offline, state, state')
    BY <1>10, <2>1, <2>3, <2>4 DEF PassesBy
  <2> QED BY <1>1, <1>2, <1>8, <2>5, StepUnmarked
<1> QED BY <1>3, <1>13 DEF OrderInv, N2

(* A marked instance goes offline. *)
LEMMA MarkedOrder ==
  ASSUME TypeOK, OrderInv, NEW i \in Inst, NEW reason \in RestartOn,
         First("SC_OFFLINE", i, reason), ProcessOffline(i, reason, Tail(notes)), to_offline[i]
  PROVE  OrderInv'
<1> DEFINE N == ToSet(notes)
           R == ToSet(Tail(notes))
           N2 == ToSet(notes')
           h == [type |-> "SC_OFFLINE", path |-> i, reason |-> reason]
           A == vtx_offline_dependency(i, reason)'
           B == IF to_disable[i] THEN vtx_disable(i, reason) ELSE <<>>
           D == vtx_notify_stop(i, reason)'
<1>1. Tail(notes) \in Seq(Note) /\ R \subseteq Note /\ N = {h} \cup R /\ N \subseteq Note
  BY TakeFirst
<1>2. OrderOf(N, to_offline, state)
  BY DEF OrderInv
<1>3. notes' = ((Tail(notes) \o A) \o B) \o D
  BY DEF ProcessOffline
<1>4. /\ \A w \in Inst : to_offline'[w] <=> (to_offline[w] /\ w # i)
      /\ \A w \in Inst : state'[w] = IF w = i THEN "Offline" ELSE state[w]
  BY DEF ProcessOffline, TypeOK
<1>5. /\ A \in Seq(Note)
      /\ ToSet(A) = Told("SC_OFFLINE", ToSet(DependencyWalk[i]) \cap Droppable', reason)
  BY Appended, AppendedSet DEF OnlyNotes
<1>6. B \in Seq(Note) /\ \A n \in ToSet(B) : n.type = "SC_DISABLED" /\ n.path = i
  BY HasOne, HasNone DEF vtx_disable, ToSet
<1>7. D \in Seq(Note) /\ ToSet(D) = Told("SC_OFFLINE", ToSet(StopWalk[reason][i]) \cap Running', reason)
  BY Appended, AppendedSet DEF OnlyNotes
<1> HIDE DEF A, B, D
<1>8. \A n \in ToSet(D) : /\ n.type = "SC_OFFLINE" /\ n.reason = reason
                          /\ n.path \in Above(Follows(reason), i) /\ Runs(state', n.path)
  <2>1. \A x \in ToSet(StopWalk[reason][i]) \cap Running' :
          x \in Above(Follows(reason), i) /\ Runs(state', x)
    BY StopReaches, Sought
  <2> QED BY <1>7, <2>1 DEF Told
<1>9. \A n \in ToSet(A) : /\ n.type = "SC_OFFLINE" /\ n.reason = reason
                          /\ to_offline'[n.path] /\ GoDown(to_offline', state', n.path)
  <2>1. \A x \in ToSet(DependencyWalk[i]) \cap Droppable' :
          to_offline'[x] /\ GoDown(to_offline', state', x)
    BY Sought
  <2> QED BY <1>5, <2>1 DEF Told
<1>10. /\ N2 = R \cup ToSet(A) \cup ToSet(B) \cup ToSet(D) /\ notes' \in Seq(Note)
  <2>1. Tail(notes) \o A \in Seq(Note) /\ ToSet(Tail(notes) \o A) = R \cup ToSet(A)
    BY <1>1, <1>5, AddNotes
  <2>2. /\ (Tail(notes) \o A) \o B \in Seq(Note)
        /\ ToSet((Tail(notes) \o A) \o B) = R \cup ToSet(A) \cup ToSet(B)
    BY <1>6, <2>1, AddNotes
  <2> QED BY <1>3, <1>7, <2>2, AddNotes
<1>11. N2 \subseteq Note
  BY <1>10, ElementOfSeq DEF ToSet
<1>12. h.path = i
  OBVIOUS
<1>13. ASSUME NEW x \in ToSet(DependencyWalk[i]) \cap Inst,
              to_offline'[x], GoDown(to_offline', state', x)
       PROVE  Offlines(N2, x)
  <2> DEFINE n == [type |-> "SC_OFFLINE", path |-> x, reason |-> reason]
  <2>1. x \in ToSet(DependencyWalk[i]) \cap Droppable'
    BY <1>13, Sought
  <2>2. n \in ToSet(A)
    BY <1>5, <2>1 DEF Told
  <2>3. n.type = "SC_OFFLINE" /\ n.path = x /\ n \in N2
    BY <1>10, <2>2
  <2> HIDE DEF n
  <2> QED BY <2>3 DEF Offlines
<1>14. h \in N /\ h = [type |-> "SC_OFFLINE", path |-> i, reason |-> reason]
  BY <1>1
<1> HIDE DEF N, R, N2, h
<1>15. \A n \in N : n.path # i => n \in N2
  BY <1>1, <1>10, <1>12
<1>16. \A n \in N2 :
           \/ n \in N
           \/ n.path = i /\ n.type # "SC_OFFLINE"
           \/ /\ n.type = "SC_OFFLINE" /\ n.reason = reason
              /\ \/ to_offline'[n.path] /\ GoDown(to_offline', state', n.path)
                 \/ n.path \in Above(Follows(reason), i) /\ Runs(state', n.path)
  BY <1>1, <1>6, <1>8, <1>9, <1>10
<1>17. Releases(N, N2, to_offline, state, to_offline', state', i, reason)
  BY <1>4, <1>13, <1>14, <1>15, <1>16 DEF Releases
<1>18. OrderOf(N2, to_offline', state')
  BY <1>1, <1>2, <1>11, <1>17, StepMarked
<1> QED BY <1>18 DEF OrderInv, N2

(* A request is read, or one of the trials of graph_setup_all made, when the
   queue is empty, and then nothing is marked. *)
LEMMA QuiescentUnmarked ==
  ASSUME OrderInv, Quiescent
  PROVE  \A i \in Inst : ~to_offline[i]
<1>1. ToSet(notes) = {}
  BY DEF Quiescent, ToSet
<1>2. OrderOf({}, to_offline, state)
  BY <1>1 DEF OrderInv
<1> QED BY <1>2, NothingMarked

(* A_DISABLE establishes the invariant, with what it marks as T. *)
LEMMA DisableRequestOrder ==
  ASSUME TypeOK, OrderInv, Quiescent, NEW i \in Inst, ProcessDisable(i, <<>>)
  PROVE  OrderInv'
<1> DEFINE A == vtx_offline_if_possible'
<1>1. \A v \in Inst : ~to_offline[v]
  BY QuiescentUnmarked
<1>2. \A v \in Inst : to_offline'[v] <=> v \in MarkedBy(i)
  BY <1>1 DEF ProcessDisable, MarkedBy, TypeOK
<1>3. A \in Seq(Note) /\ ToSet(A) = Told("SC_OFFLINE", Droppable', RestartOnRestart)
  BY Reasons, Appended, AppendedSet DEF OnlyNotes
<1>4. notes' = <<>> \o A
  BY DEF ProcessDisable
<1> HIDE DEF A
<1>5. notes' = A
  BY <1>3, <1>4
<1>6. ToSet(notes') = Told("SC_OFFLINE",
        {v \in Inst : to_offline'[v] /\ GoDown(to_offline', state', v)}, RestartOnRestart)
  BY <1>3, <1>5, Sought
<1>7. OrderOf(ToSet(notes'), to_offline', state')
  BY <1>2, <1>6, StepMark
<1> QED BY <1>7 DEF OrderInv

(* A step that adds no mark to none. *)
LEMMA StaysUnmarked ==
  ASSUME TypeOK', \A i \in Inst : ~to_offline'[i]
  PROVE  OrderInv'
<1>1. ToSet(notes') \subseteq Note
  BY ElementOfSeq DEF TypeOK, ToSet
<1>2. OrderOf(ToSet(notes'), to_offline', state')
  BY <1>1, NoMarks
<1> QED BY <1>2 DEF OrderInv

(* A_ENABLE and a trial SC_OFFLINE mark nothing. *)
LEMMA OtherRequestOrder ==
  ASSUME TypeOK, TypeOK', OrderInv, Quiescent, NEW i \in Inst, NEW reason,
         ProcessEnable(i, <<>>) \/ ProcessOffline(i, reason, <<>>)
  PROVE  OrderInv'
<1>1. \A v \in Inst : ~to_offline[v]
  BY QuiescentUnmarked
<1>2. \A v \in Inst : ~to_offline'[v]
  BY <1>1 DEF ProcessEnable, ProcessOffline, TypeOK
<1> QED BY <1>2, StaysUnmarked

(* At first nothing is marked. *)
LEMMA InitOrder == Init /\ TypeOK => OrderInv
<1> SUFFICES ASSUME Init, TypeOK PROVE OrderInv
  OBVIOUS
<1>1. ToSet(notes) \subseteq Note
  BY ElementOfSeq DEF TypeOK, ToSet
<1>2. \A i \in Inst : ~to_offline[i]
  BY DEF Init
<1>3. OrderOf(ToSet(notes), to_offline, state)
  BY <1>1, <1>2, NoMarks
<1> QED BY <1>3 DEF OrderInv

(* Every step keeps the invariant. *)
LEMMA NextOrder == TypeOK /\ TypeOK' /\ OrderInv /\ [Next]_vars => OrderInv'
<1> SUFFICES ASSUME TypeOK, TypeOK', OrderInv, [Next]_vars PROVE OrderInv'
  OBVIOUS
<1>1. CASE Online
  BY <1>1, OnlineOrder
<1>2. CASE Offline
  <2>1. PICK i \in Inst, reason \in RestartOn :
               First("SC_OFFLINE", i, reason) /\ ProcessOffline(i, reason, Tail(notes))
    BY <1>2 DEF Offline
  <2>2. CASE to_offline[i]
    BY <2>1, <2>2, MarkedOrder
  <2>3. CASE ~to_offline[i]
    BY <2>1, <2>3, UnmarkedOrder
  <2> QED BY <2>2, <2>3
<1>3. CASE Disabled
  BY <1>3, DisabledOrder
<1>4. CASE Setup
  BY <1>4, DisableRequestOrder, OtherRequestOrder DEF Setup, TryDisable, TryEnable, TryOffline, Try
<1>5. CASE Admin
  BY <1>5, DisableRequestOrder, OtherRequestOrder DEF Admin, AdminDisable, AdminEnable
<1>6. CASE UNCHANGED vars
  BY <1>6 DEF vars, OrderInv
<1> QED BY <1>1, <1>2, <1>3, <1>4, <1>5, <1>6 DEF Next, Drain

(* The inductive invariant holds in every reachable state. *)
THEOREM OrderHolds == Spec => []OrderInv
<1>1. TypeOK /\ TypeOK' /\ OrderInv /\ [Next]_vars => OrderInv'
  BY NextOrder
<1>2. Init /\ TypeOK => OrderInv
  BY InitOrder
<1> QED BY <1>1, <1>2, TypeCorrect, PTL DEF Spec

(* When the queue has drained no instance is left marked to go offline or to be
   disabled: A_DISABLE withholds the SC_OFFLINE of what still has a marked
   instance above it, and vtx_offline_dependency makes up for every one. *)
THEOREM NothingLeftMarked == Spec => []MarksCleared
<1>1. TypeOK /\ Inv /\ OrderInv => MarksCleared
  <2> SUFFICES ASSUME Inv, OrderInv, Quiescent, NEW i \in Inst
               PROVE  ~to_offline[i] /\ ~to_disable[i]
    BY DEF MarksCleared
  <2>1. ~to_offline[i]
    BY QuiescentUnmarked
  <2>2. ~Queued("SC_DISABLED", i)
    BY HasNone DEF Queued, Quiescent
  <2> QED BY <2>1, <2>2 DEF Inv
<1> QED BY <1>1, TypeCorrect, InvHolds, OrderHolds, PTL

(* A marked instance goes offline only when no marked instance above it runs any
   more, although vtx_can_go_down is asked when its SC_OFFLINE is queued and not
   when it is handled. *)
THEOREM StopsInOrder == Spec => DisableOrder
<1>1. ASSUME TypeOK, OrderInv, [Next]_vars, NEW i \in Running,
             to_offline[i], state'[i] = "Offline"
      PROVE  vtx_can_go_down(i)
  <2>1. i \in Inst /\ state[i] # "Offline"
    BY <1>1 DEF Running, vtx_is_running
  <2>2. ~Quiescent
    BY <1>1, <2>1, QuiescentUnmarked
  <2>3. Offline
    <3>1. ~Setup /\ ~Admin
      BY <2>2 DEF Setup, TryDisable, TryEnable, TryOffline, Try, Admin, AdminDisable, AdminEnable
    <3>2. ~UNCHANGED vars
      BY <1>1, <2>1 DEF vars
    <3>3. ~Online
      BY <1>1, <2>1 DEF Online, ProcessOnline, TypeOK
    <3>4. ~Disabled
      BY <1>1, <2>1 DEF Disabled, ProcessDisabled, TypeOK
    <3> QED BY <1>1, <3>1, <3>2, <3>3, <3>4 DEF Next, Drain
  <2>4. PICK j \in Inst, reason \in RestartOn :
               First("SC_OFFLINE", j, reason) /\ ProcessOffline(j, reason, Tail(notes))
    BY <2>3 DEF Offline
  <2>5. j = i
    BY <1>1, <2>1, <2>4 DEF ProcessOffline, TypeOK
  <2> DEFINE h == [type |-> "SC_OFFLINE", path |-> j, reason |-> reason]
  <2>6. h \in ToSet(notes) /\ h.path = i
    BY <1>1, <2>4, <2>5, TakeFirst
  <2> HIDE DEF h
  <2>7. GoDown(to_offline, state, i)
    BY <1>1, <2>6 DEF OrderInv, OrderOf
  <2> QED BY <2>7, Sought
<1>2. TypeOK /\ OrderInv /\ [Next]_vars
        => [\A i \in Running : (to_offline[i] /\ state'[i] = "Offline") => vtx_can_go_down(i)]_vars
  BY <1>1
<1> QED BY <1>2, TypeCorrect, OrderHolds, PTL DEF Spec, DisableOrder

=============================================================================
