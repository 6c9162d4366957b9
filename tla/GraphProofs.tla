----------------------------- MODULE GraphProofs -----------------------------
(***************************************************************************)
(* Proofs about module Graph, for every graph without cycles.              *)
(***************************************************************************)
EXTENDS GraphWalkProofs, SequenceTheorems, TLAPS

\* f satisfies the recursive equation in the definition of Keep.
KeepOf(s, S, f) == f = [k \in 0 .. Len(s) |->
        IF k = 0 THEN <<>>
        ELSE IF s[k] \in S THEN Append(f[k - 1], s[k]) ELSE f[k - 1]]

(* The recursion in Keep is well defined. *)
LEMMA KeepExists ==
  ASSUME NEW V, NEW s \in Seq(V), NEW S
  PROVE  \E f : KeepOf(s, S, f)
<1> DEFINE Good(n, f) == f = [k \in 0 .. n |->
        IF k = 0 THEN <<>>
        ELSE IF s[k] \in S THEN Append(f[k - 1], s[k]) ELSE f[k - 1]]
    Bad == {n \in 0 .. Len(s) : ~ \E f : Good(n, f)}
<1>1. Len(s) \in Nat
  OBVIOUS
<1>2. SUFFICES ASSUME Bad # {} PROVE FALSE
  <2>1. \A f : Good(Len(s), f) => KeepOf(s, S, f)
    BY DEF KeepOf
  <2> HIDE DEF Good
  <2> QED BY <1>1, <2>1
<1>3. PICK n \in Bad : \A m \in Bad : n <= m
  <2>1. Bad \in SUBSET Nat
    BY <1>1
  <2> HIDE DEF Bad
  <2> QED BY <1>2, <2>1, LeastNat
<1>4. n \in Nat /\ n <= Len(s)
  BY <1>1
<1>5. CASE n = 0
  <2> DEFINE f == [k \in 0 .. 0 |-> <<>>]
  <2>1. Good(0, f)
    OBVIOUS
  <2> QED BY <2>1, <1>5
<1>6. CASE n # 0
  <2>1. n - 1 \in 0 .. Len(s) /\ n - 1 \notin Bad
    <3> HIDE DEF Bad
    <3> QED BY <1>1, <1>3, <1>4, <1>6
  <2>2. PICK f : Good(n - 1, f)
    BY <2>1
  <2> DEFINE g == [k \in 0 .. n |-> IF k < n THEN f[k]
                    ELSE IF s[n] \in S THEN Append(f[n - 1], s[n]) ELSE f[n - 1]]
  <2>3. ASSUME NEW k \in 0 .. n
        PROVE  g[k] = IF k = 0 THEN <<>>
                      ELSE IF s[k] \in S THEN Append(g[k - 1], s[k]) ELSE g[k - 1]
    <3>1. CASE k < n
      <4>1. k \in 0 .. n - 1 /\ g[k] = f[k] /\ (k # 0 => g[k - 1] = f[k - 1])
        BY <3>1, <1>4
      <4> QED BY <4>1, <2>2
    <3>2. CASE k = n
      BY <3>2, <1>4, <1>6
    <3> QED BY <3>1, <3>2, <1>4
  <2>4. Good(n, g)
    BY <2>3
  <2> QED BY <2>4
<1> QED BY <1>5, <1>6

(* Keep returns a sequence, and only elements it was asked for. *)
LEMMA KeepProperties ==
  ASSUME NEW V, NEW s \in Seq(V), NEW S
  PROVE  Keep(s, S) \in Seq(V \cap S)
<1> DEFINE f == CHOOSE f : KeepOf(s, S, f)
<1>1. KeepOf(s, S, f)
  BY KeepExists
<1>2. Keep(s, S) = f[Len(s)]
  BY DEF Keep, KeepOf
<1> HIDE DEF f
<1> DEFINE Bad == {n \in 0 .. Len(s) : f[n] \notin Seq(V \cap S)}
<1>3. Len(s) \in Nat
  OBVIOUS
<1>4. SUFFICES ASSUME Bad # {} PROVE FALSE
  BY <1>2, <1>3
<1>5. PICK n \in Bad : \A m \in Bad : n <= m
  <2>1. Bad \in SUBSET Nat
    BY <1>3
  <2> HIDE DEF Bad
  <2> QED BY <1>4, <2>1, LeastNat
<1>6. n \in Nat /\ n <= Len(s)
  BY <1>3
<1>7. n # 0
  <2>1. f[0] = <<>>
    BY <1>1, <1>3 DEF KeepOf
  <2>2. <<>> \in Seq(V \cap S)
    OBVIOUS
  <2> QED BY <2>1, <2>2
<1>8. f[n - 1] \in Seq(V \cap S)
  BY <1>3, <1>5, <1>6, <1>7
<1>9. f[n] = IF s[n] \in S THEN Append(f[n - 1], s[n]) ELSE f[n - 1]
  BY <1>1, <1>3, <1>6, <1>7 DEF KeepOf
<1>10. s[n] \in V
  BY <1>6, <1>7, <1>3
<1>11. f[n] \in Seq(V \cap S)
  BY <1>8, <1>9, <1>10
<1> QED BY <1>11

-----------------------------------------------------------------------------
(* The note queue. *)

\* s is a queue of notes of one type, for members of S.
OnlyNotes(s, type, S) ==
  s \in Seq(Note) /\ \A t, i : HasNote(s, t, i) => t = type /\ i \in S

(* What the handlers append: well-formed notes of one type, for members of the
   set that was given only. *)
LEMMA NotesForProperties ==
  ASSUME NEW type \in {"SC_ONLINE", "SC_OFFLINE", "SC_DISABLED"},
         NEW visited \in Seq(Vertex), NEW S \in SUBSET Inst, NEW reason \in RestartOn
  PROVE  OnlyNotes(NotesFor(type, visited, S, reason), type, S)
<1> DEFINE hit == Keep(visited, S)
           out == NotesFor(type, visited, S, reason)
<1>1. hit \in Seq(Vertex \cap S)
  BY KeepProperties
<1>2. out = [k \in 1 .. Len(hit) |-> [type |-> type, path |-> hit[k], reason |-> reason]]
  BY DEF NotesFor
<1> HIDE DEF hit, out
<1>3. Len(hit) \in Nat /\ \A k \in 1 .. Len(hit) : hit[k] \in S
  BY <1>1
<1>4. out \in [1 .. Len(hit) -> Note]
  BY <1>2, <1>3 DEF Note
<1>5. out \in Seq(Note)
  BY <1>3, <1>4, SeqDef
<1>6. \A t, i : HasNote(out, t, i) => t = type /\ i \in S
  BY <1>2, <1>3 DEF HasNote
<1> QED BY <1>5, <1>6 DEF out, OnlyNotes

(* The notes of two queues put together. *)
LEMMA HasConcat ==
  ASSUME NEW s \in Seq(Note), NEW u \in Seq(Note), NEW t, NEW i
  PROVE  /\ s \o u \in Seq(Note)
         /\ HasNote(s \o u, t, i) <=> HasNote(s, t, i) \/ HasNote(u, t, i)
<1>1. s \o u \in Seq(Note)
  OBVIOUS
<1>2. HasNote(s, t, i) => HasNote(s \o u, t, i)
  BY ConcatProperties DEF HasNote
<1>3. HasNote(u, t, i) => HasNote(s \o u, t, i)
  <2> SUFFICES ASSUME NEW k \in DOMAIN u, u[k].type = t, u[k].path = i
               PROVE  HasNote(s \o u, t, i)
    BY DEF HasNote
  <2>1. Len(s) + k \in DOMAIN (s \o u) /\ (s \o u)[Len(s) + k] = u[k]
    BY ConcatProperties
  <2> QED BY <2>1 DEF HasNote
<1>4. HasNote(s \o u, t, i) => HasNote(s, t, i) \/ HasNote(u, t, i)
  <2> SUFFICES ASSUME NEW k \in DOMAIN (s \o u),
                      (s \o u)[k].type = t, (s \o u)[k].path = i
               PROVE  HasNote(s, t, i) \/ HasNote(u, t, i)
    BY DEF HasNote
  <2>1. k \in 1 .. Len(s) + Len(u)
    BY ConcatProperties
  <2>2. CASE k <= Len(s)
    BY <2>1, <2>2, ConcatProperties DEF HasNote
  <2>3. CASE ~(k <= Len(s))
    <3>1. k - Len(s) \in DOMAIN u /\ (s \o u)[k] = u[k - Len(s)]
      BY <2>1, <2>3, ConcatProperties
    <3> QED BY <3>1 DEF HasNote
  <2> QED BY <2>2, <2>3
<1> QED BY <1>1, <1>2, <1>3, <1>4

(* The notes of a queue from which the first one is taken. *)
LEMMA HasTail ==
  ASSUME NEW s \in Seq(Note), s # <<>>, NEW t, NEW i
  PROVE  /\ Tail(s) \in Seq(Note)
         /\ HasNote(s, t, i) <=> \/ Head(s).type = t /\ Head(s).path = i
                                 \/ HasNote(Tail(s), t, i)
<1>1. Tail(s) \in Seq(Note) /\ Len(s) \in Nat \ {0} /\ Len(Tail(s)) = Len(s) - 1
  BY HeadTailProperties, EmptySeq
<1>2. HasNote(Tail(s), t, i) => HasNote(s, t, i)
  <2> SUFFICES ASSUME NEW k \in DOMAIN Tail(s), Tail(s)[k].type = t, Tail(s)[k].path = i
               PROVE  HasNote(s, t, i)
    BY DEF HasNote
  <2>1. k + 1 \in DOMAIN s /\ s[k + 1] = Tail(s)[k]
    BY <1>1, HeadTailProperties
  <2> QED BY <2>1 DEF HasNote
<1>3. Head(s) = s[1] /\ 1 \in DOMAIN s
  BY <1>1
<1>4. HasNote(s, t, i) => \/ Head(s).type = t /\ Head(s).path = i
                          \/ HasNote(Tail(s), t, i)
  <2> SUFFICES ASSUME NEW k \in DOMAIN s, s[k].type = t, s[k].path = i, k # 1
               PROVE  HasNote(Tail(s), t, i)
    BY <1>3 DEF HasNote
  <2>1. k - 1 \in DOMAIN Tail(s) /\ s[k] = Tail(s)[k - 1]
    BY <1>1, HeadTailProperties
  <2> QED BY <2>1 DEF HasNote
<1> QED BY <1>1, <1>2, <1>3, <1>4 DEF HasNote

(* A queue of one note, and the empty one. *)
LEMMA HasOne ==
  ASSUME NEW type \in {"SC_ONLINE", "SC_OFFLINE", "SC_DISABLED"},
         NEW i \in Inst, NEW reason \in RestartOn
  PROVE  LET s == <<[type |-> type, path |-> i, reason |-> reason]>>
         IN  /\ s \in Seq(Note)
             /\ \A t, j : HasNote(s, t, j) <=> t = type /\ j = i
BY DEF HasNote, Note

LEMMA HasNone == <<>> \in Seq(Note) /\ \A t, i : ~HasNote(<<>>, t, i)
BY DEF HasNote

(* What each family of notes that a handler appends can contain.  They are
   stated of the state after the flags have been changed, where the handlers
   read them. *)
LEMMA Appended ==
  ASSUME NEW i \in Inst, NEW reason \in RestartOn
  PROVE  /\ OnlyNotes(vtx_notify_start(i)', "SC_ONLINE", Startable')
         /\ OnlyNotes(vtx_notify_misc(i, reason)', "SC_ONLINE", Startable')
         /\ OnlyNotes(vtx_notify_stop(i, reason)', "SC_OFFLINE", Running')
         /\ OnlyNotes(vtx_offline_dependency(i, reason)', "SC_OFFLINE", Droppable')
         /\ OnlyNotes(vtx_offline_if_possible', "SC_OFFLINE", Droppable')
<1>1. Startable' \in SUBSET Inst /\ Running' \in SUBSET Inst /\ Droppable' \in SUBSET Inst
  BY DEF Startable, Running, Droppable
<1>2. /\ StartWalk[i] \in Seq(Vertex) /\ MiscWalk[i] \in Seq(Vertex)
      /\ StopWalk[reason][i] \in Seq(Vertex) /\ DependencyWalk[i] \in Seq(Vertex)
      /\ graph \in Seq(Vertex)
  BY WalksEnd, GraphAssumption DEF Vertex
<1>3. {RestartOnNone, RestartOnRestart} \subseteq RestartOn
  BY DEF RestartOn, RestartOnNone, RestartOnRestart, RestartOnAny
<1>4. /\ vtx_notify_start(i)' = NotesFor("SC_ONLINE", StartWalk[i], Startable', RestartOnNone)
      /\ vtx_notify_misc(i, reason)' = NotesFor("SC_ONLINE", MiscWalk[i], Startable', reason)
      /\ vtx_notify_stop(i, reason)' = NotesFor("SC_OFFLINE", StopWalk[reason][i], Running', reason)
      /\ vtx_offline_dependency(i, reason)' =
           NotesFor("SC_OFFLINE", DependencyWalk[i], Droppable', reason)
      /\ vtx_offline_if_possible' = NotesFor("SC_OFFLINE", graph, Droppable', RestartOnRestart)
  BY DEF vtx_notify_start, vtx_notify_misc, vtx_notify_stop, vtx_offline_dependency,
         vtx_offline_if_possible
<1> QED BY <1>1, <1>2, <1>3, <1>4, NotesForProperties


(* The notes in the queue after one was taken from the front and A appended. *)
LEMMA QueueStep ==
  ASSUME notes \in Seq(Note), ~Quiescent, NEW A \in Seq(Note),
         NEW type, NEW i, NEW reason, First(type, i, reason),
         notes' = Tail(notes) \o A
  PROVE  /\ notes' \in Seq(Note)
         /\ \A t, j : HasNote(A, t, j) => Queued(t, j)'
         /\ \A t, j : Queued(t, j) => Queued(t, j)' \/ (t = type /\ j = i)
         /\ \A t, j : Queued(t, j)' => Queued(t, j) \/ HasNote(A, t, j)
<1>1. notes # <<>> /\ Head(notes).type = type /\ Head(notes).path = i
  BY DEF Quiescent, First
<1>2. Tail(notes) \in Seq(Note)
  BY <1>1, HasTail
<1>3. \A t, j : Queued(t, j) <=> (type = t /\ i = j) \/ HasNote(Tail(notes), t, j)
  BY <1>1, HasTail DEF Queued
<1>4. \A t, j : Queued(t, j)' <=> HasNote(Tail(notes), t, j) \/ HasNote(A, t, j)
  BY <1>2, HasConcat DEF Queued
<1>5. notes' \in Seq(Note)
  BY <1>2, HasConcat
<1> QED BY <1>3, <1>4, <1>5

-----------------------------------------------------------------------------
(* Type correctness. *)

\* TypeOK without the script, which no handler touches.
Typed ==
  /\ state \in [Inst -> State]
  /\ is_enabled \in [Inst -> BOOLEAN]
  /\ to_offline \in [Inst -> BOOLEAN]
  /\ to_disable \in [Inst -> BOOLEAN]
  /\ notes \in Seq(Note)

\* The five handlers, for one instance.
Process(i, reason, rest) ==
  \/ ProcessOnline(i, rest)
  \/ ProcessOffline(i, reason, rest)
  \/ ProcessDisabled(i, reason, rest)
  \/ ProcessDisable(i, rest)
  \/ ProcessEnable(i, rest)

LEMMA Reasons == {RestartOnNone, RestartOnRestart} \subseteq RestartOn
BY DEF RestartOn, RestartOnNone, RestartOnRestart, RestartOnAny

(* Every handler keeps the types. *)
LEMMA ProcessTyped ==
  ASSUME Typed, NEW i \in Inst, NEW reason \in RestartOn, NEW rest \in Seq(Note),
         Process(i, reason, rest)
  PROVE  Typed'
<1> USE DEF Typed
<1>1. CASE ProcessOnline(i, rest)
  <2>1. notes' \in Seq(Note)
    BY <1>1, Appended, HasConcat DEF ProcessOnline, OnlyNotes
  <2> QED BY <1>1, <2>1 DEF ProcessOnline, State
<1>2. CASE ProcessOffline(i, reason, rest)
  <2> DEFINE A == vtx_offline_dependency(i, reason)'
             B == IF to_disable[i] THEN vtx_disable(i, reason) ELSE <<>>
             C == IF vtx_inst_can_come_up(i)' THEN vtx_online(i, reason) ELSE <<>>
             D == vtx_notify_stop(i, reason)'
  <2>1. A \in Seq(Note) /\ D \in Seq(Note)
    BY Appended DEF OnlyNotes
  <2>2. B \in Seq(Note) /\ C \in Seq(Note)
    BY HasOne, HasNone DEF vtx_disable, vtx_online
  <2>3. notes' = rest \o A \o B \o D \/ notes' = rest \o C \o D
    BY <1>2 DEF ProcessOffline
  <2> HIDE DEF A, B, C, D
  <2>4. rest \o A \in Seq(Note) /\ rest \o C \in Seq(Note)
    BY <2>1, <2>2, ConcatProperties
  <2>5. (rest \o A) \o B \in Seq(Note)
    BY <2>2, <2>4, ConcatProperties
  <2>6. ((rest \o A) \o B) \o D \in Seq(Note) /\ (rest \o C) \o D \in Seq(Note)
    BY <2>1, <2>4, <2>5, ConcatProperties
  <2>7. notes' \in Seq(Note)
    BY <2>3, <2>6
  <2> QED BY <1>2, <2>7 DEF ProcessOffline, State
<1>3. CASE ProcessDisabled(i, reason, rest)
  <2> DEFINE A == vtx_notify_misc(i, reason)'
  <2>1. A \in Seq(Note)
    BY Appended DEF OnlyNotes
  <2>2. notes' = rest \o A
    BY <1>3 DEF ProcessDisabled
  <2> HIDE DEF A
  <2>3. notes' \in Seq(Note)
    BY <2>1, <2>2
  <2> QED BY <1>3, <2>3 DEF ProcessDisabled, State
<1>4. CASE ProcessDisable(i, rest)
  <2>1. notes' \in Seq(Note)
    BY <1>4, Appended, HasConcat DEF ProcessDisable, OnlyNotes
  <2>2. to_offline' \in [Inst -> BOOLEAN]
    BY <1>4 DEF ProcessDisable
  <2> QED BY <1>4, <2>1, <2>2 DEF ProcessDisable
<1>5. CASE ProcessEnable(i, rest)
  <2>1. notes' \in Seq(Note)
    BY <1>5, HasOne, Reasons DEF ProcessEnable, vtx_offline
  <2> QED BY <1>5, <2>1 DEF ProcessEnable
<1> QED BY <1>1, <1>2, <1>3, <1>4, <1>5 DEF Process

(* Every step is a handler at work on the queue without its first note, or on
   the empty queue when a request is read, or leaves everything unchanged. *)
LEMMA StepIsProcess ==
  ASSUME TypeOK, [Next]_vars
  PROVE  \/ UNCHANGED vars
         \/ /\ \E i \in Inst, reason \in RestartOn, rest \in Seq(Note) : Process(i, reason, rest)
            /\ script' \in Seq(Request)
<1>1. CASE Drain
  <2>1. ~Quiescent => Tail(notes) \in Seq(Note)
    BY HasTail DEF TypeOK, Quiescent
  <2> QED BY <1>1, <2>1 DEF TypeOK, Drain, Online, Offline, Disabled, First, Process
<1>2. CASE Setup
  <2>1. script # <<>> => Tail(script) \in Seq(Request)
    BY HeadTailProperties DEF TypeOK
  <2> QED BY <1>2, <2>1, HasNone, Reasons
          DEF Setup, TryDisable, TryEnable, TryOffline, Try, Process
<1>3. CASE Admin
  BY <1>3, HasNone, Reasons DEF TypeOK, Admin, AdminDisable, AdminEnable, Process
<1> QED BY <1>1, <1>2, <1>3 DEF Next

(* Type correctness: in particular the queue holds nothing but notes about
   instances, with reasons that exist. *)
THEOREM TypeCorrect == Spec => []TypeOK
<1>1. Init => TypeOK
  <2> SUFFICES ASSUME Init PROVE TypeOK
    OBVIOUS
  <2>1. Startable \in SUBSET Inst
    BY DEF Startable
  <2>2. notes \in Seq(Note)
    BY <2>1, Reasons, GraphAssumption, NotesForProperties DEF Init, OnlyNotes
  <2> QED BY <2>2, GraphAssumption DEF Init, TypeOK, State
<1>2. TypeOK /\ [Next]_vars => TypeOK'
  <2> SUFFICES ASSUME TypeOK, [Next]_vars PROVE TypeOK'
    OBVIOUS
  <2>1. CASE UNCHANGED vars
    BY <2>1 DEF TypeOK, vars
  <2>2. ASSUME NEW i \in Inst, NEW reason \in RestartOn, NEW rest \in Seq(Note),
               Process(i, reason, rest), script' \in Seq(Request)
        PROVE  TypeOK'
    BY <2>2, ProcessTyped DEF TypeOK, Typed
  <2> QED BY <2>1, <2>2, StepIsProcess
<1> QED BY <1>1, <1>2, PTL DEF Spec

-----------------------------------------------------------------------------
(* A disabled instance never comes back up. *)

(* What Inv says of one instance. *)
InvOf(i) ==
  /\ vtx_is_running(i) => is_enabled[i] \/ to_disable[i]
  /\ Queued("SC_ONLINE", i)   => is_enabled[i]
  /\ Queued("SC_DISABLED", i) => ~is_enabled[i] /\ ~vtx_is_running(i)
  /\ to_disable[i] => ~is_enabled[i] /\ (to_offline[i] \/ Queued("SC_DISABLED", i))
  /\ (state[i] = "Disabled" /\ is_enabled[i]) => Queued("SC_OFFLINE", i)

LEMMA InvIsInvOf ==
  /\ Inv  <=> \A i \in Inst : InvOf(i)
  /\ Inv' <=> \A i \in Inst : InvOf(i)'
BY DEF Inv, InvOf, RunsOnlyIfEnabled, Running

(* An instance that can be started is enabled. *)
LEMMA StartableEnabled == \A i \in Startable' : i \in Inst /\ is_enabled'[i]
BY DEF Startable, vtx_inst_can_come_up

(* SC_ONLINE keeps the invariant. *)
LEMMA OnlineInv ==
  ASSUME TypeOK, Inv, Online
  PROVE  Inv'
<1>1. PICK i \in Inst, reason \in RestartOn :
             First("SC_ONLINE", i, reason) /\ ProcessOnline(i, Tail(notes))
  BY DEF Online
<1> DEFINE A == vtx_notify_start(i)'
<1>2. A \in Seq(Note) /\ \A t, j : HasNote(A, t, j) => t = "SC_ONLINE" /\ j \in Startable'
  BY Appended DEF OnlyNotes
<1>3. notes' = Tail(notes) \o A
  BY <1>1 DEF ProcessOnline
<1>4. ~Quiescent
  BY <1>1 DEF First
<1> HIDE DEF A
<1>5. /\ \A t, j : Queued(t, j) => Queued(t, j)' \/ (t = "SC_ONLINE" /\ j = i)
      /\ \A t, j : Queued(t, j)' => Queued(t, j) \/ HasNote(A, t, j)
  BY <1>1, <1>2, <1>3, <1>4, QueueStep DEF TypeOK
<1>6. Queued("SC_ONLINE", i)
  <2>1. notes # <<>> /\ Head(notes).type = "SC_ONLINE" /\ Head(notes).path = i
    BY <1>1 DEF First, Quiescent
  <2> QED BY <2>1, HasTail DEF Queued, TypeOK
<1>7. SUFFICES ASSUME NEW j \in Inst, InvOf(j), InvOf(i) PROVE InvOf(j)'
  BY InvIsInvOf
<1> QED
  BY <1>1, <1>2, <1>5, <1>6, <1>7, StartableEnabled
  DEF InvOf, ProcessOnline, vtx_is_running, TypeOK

(* SC_OFFLINE keeps the invariant, whether it comes from the queue or is one of
   the trials of graph_setup_all. *)
LEMMA OfflineInv ==
  ASSUME TypeOK, Inv, NEW i \in Inst, NEW reason \in RestartOn, NEW rest \in Seq(Note),
         ProcessOffline(i, reason, rest),
         \A t, j : HasNote(rest, t, j) => Queued(t, j),
         \A t, j : Queued(t, j) => HasNote(rest, t, j) \/ (t = "SC_OFFLINE" /\ j = i)
  PROVE  Inv'
<1> DEFINE A == vtx_offline_dependency(i, reason)'
           B == IF to_disable[i] THEN vtx_disable(i, reason) ELSE <<>>
           C == IF vtx_inst_can_come_up(i)' THEN vtx_online(i, reason) ELSE <<>>
           D == vtx_notify_stop(i, reason)'
<1>1. /\ A \in Seq(Note) /\ \A t, j : HasNote(A, t, j) => t = "SC_OFFLINE"
      /\ D \in Seq(Note) /\ \A t, j : HasNote(D, t, j) => t = "SC_OFFLINE"
  BY Appended DEF OnlyNotes
<1>2. B \in Seq(Note) /\ \A t, j : HasNote(B, t, j) <=> t = "SC_DISABLED" /\ j = i /\ to_disable[i]
  BY HasOne, HasNone DEF vtx_disable
<1>3. /\ C \in Seq(Note)
      /\ \A t, j : HasNote(C, t, j) => t = "SC_ONLINE" /\ j = i /\ is_enabled'[i]
  BY HasOne, HasNone DEF vtx_online, vtx_inst_can_come_up
<1>4. \/ to_offline[i] /\ notes' = rest \o A \o B \o D
      \/ ~to_offline[i] /\ notes' = rest \o C \o D
  BY DEF ProcessOffline
<1> HIDE DEF A, B, C, D
<1>5. /\ rest \o A \in Seq(Note) /\ rest \o C \in Seq(Note)
      /\ \A t, j : HasNote(rest \o A, t, j) <=> HasNote(rest, t, j) \/ HasNote(A, t, j)
      /\ \A t, j : HasNote(rest \o C, t, j) <=> HasNote(rest, t, j) \/ HasNote(C, t, j)
  BY <1>1, <1>3, HasConcat
<1>6. /\ (rest \o A) \o B \in Seq(Note)
      /\ \A t, j : HasNote((rest \o A) \o B, t, j)
                     <=> HasNote(rest, t, j) \/ HasNote(A, t, j) \/ HasNote(B, t, j)
  BY <1>2, <1>5, HasConcat
<1>7. /\ \A t, j : HasNote(((rest \o A) \o B) \o D, t, j)
           <=> HasNote(rest, t, j) \/ HasNote(A, t, j) \/ HasNote(B, t, j) \/ HasNote(D, t, j)
      /\ \A t, j : HasNote((rest \o C) \o D, t, j)
           <=> HasNote(rest, t, j) \/ HasNote(C, t, j) \/ HasNote(D, t, j)
  BY <1>1, <1>5, <1>6, HasConcat
<1>8. SUFFICES ASSUME NEW j \in Inst, InvOf(j), InvOf(i) PROVE InvOf(j)'
  BY InvIsInvOf
<1>9. CASE to_offline[i] /\ notes' = ((rest \o A) \o B) \o D
  <2>1. \A t, k : Queued(t, k)' <=> HasNote(rest, t, k) \/ HasNote(A, t, k)
                                      \/ HasNote(B, t, k) \/ HasNote(D, t, k)
    BY <1>7, <1>9 DEF Queued
  <2> QED
    BY <1>1, <1>2, <1>8, <1>9, <2>1 DEF InvOf, ProcessOffline, vtx_is_running, TypeOK
<1>10. CASE ~to_offline[i] /\ notes' = (rest \o C) \o D
  <2>1. \A t, k : Queued(t, k)' <=> HasNote(rest, t, k) \/ HasNote(C, t, k) \/ HasNote(D, t, k)
    BY <1>7, <1>10 DEF Queued
  <2> QED
    BY <1>1, <1>3, <1>8, <1>10, <2>1 DEF InvOf, ProcessOffline, vtx_is_running, TypeOK
<1> QED BY <1>4, <1>9, <1>10

(* SC_DISABLED keeps the invariant. *)
LEMMA DisabledInv ==
  ASSUME TypeOK, Inv, Disabled
  PROVE  Inv'
<1>1. PICK i \in Inst, reason \in RestartOn :
             First("SC_DISABLED", i, reason) /\ ProcessDisabled(i, reason, Tail(notes))
  BY DEF Disabled
<1> DEFINE A == vtx_notify_misc(i, reason)'
<1>2. A \in Seq(Note) /\ \A t, j : HasNote(A, t, j) => t = "SC_ONLINE" /\ j \in Startable'
  BY Appended DEF OnlyNotes
<1>3. notes' = Tail(notes) \o A
  BY <1>1 DEF ProcessDisabled
<1>4. ~Quiescent
  BY <1>1 DEF First
<1> HIDE DEF A
<1>5. /\ \A t, j : Queued(t, j) => Queued(t, j)' \/ (t = "SC_DISABLED" /\ j = i)
      /\ \A t, j : Queued(t, j)' => Queued(t, j) \/ HasNote(A, t, j)
  BY <1>1, <1>2, <1>3, <1>4, QueueStep DEF TypeOK
<1>6. Queued("SC_DISABLED", i)
  <2>1. notes # <<>> /\ Head(notes).type = "SC_DISABLED" /\ Head(notes).path = i
    BY <1>1 DEF First, Quiescent
  <2> QED BY <2>1, HasTail DEF Queued, TypeOK
<1>7. SUFFICES ASSUME NEW j \in Inst, InvOf(j), InvOf(i) PROVE InvOf(j)'
  BY InvIsInvOf
<1> QED
  BY <1>1, <1>2, <1>5, <1>6, <1>7, StartableEnabled
  DEF InvOf, ProcessDisabled, vtx_is_running, TypeOK

(* A request that is read with the queue empty keeps the invariant. *)
LEMMA RequestInv ==
  ASSUME TypeOK, Inv, Quiescent, NEW i \in Inst,
         ProcessDisable(i, <<>>) \/ ProcessEnable(i, <<>>)
  PROVE  Inv'
<1>1. \A t, j : ~Queued(t, j)
  BY HasNone DEF Queued, Quiescent
<1>2. SUFFICES ASSUME NEW j \in Inst, InvOf(j) PROVE InvOf(j)'
  BY InvIsInvOf
<1>3. CASE ProcessDisable(i, <<>>)
  <2>1. OnlyNotes(vtx_offline_if_possible', "SC_OFFLINE", Droppable')
    BY Appended, Reasons
  <2>2. \A t, k : Queued(t, k)' => t = "SC_OFFLINE"
    BY <1>3, <2>1, HasNone, HasConcat DEF ProcessDisable, Queued, OnlyNotes
  <2> QED
    BY <1>1, <1>2, <1>3, <2>2 DEF InvOf, ProcessDisable, vtx_is_running, TypeOK
<1>4. CASE ProcessEnable(i, <<>>)
  <2>1. vtx_offline(i, RestartOnRestart) \in Seq(Note)
        /\ \A t, k : HasNote(vtx_offline(i, RestartOnRestart), t, k)
                        <=> t = "SC_OFFLINE" /\ k = i
    BY HasOne, Reasons DEF vtx_offline
  <2>2. \A t, k : Queued(t, k)' <=> t = "SC_OFFLINE" /\ k = i
    BY <1>4, <2>1, HasNone, HasConcat DEF ProcessEnable, Queued
  <2> QED
    BY <1>1, <1>2, <1>4, <2>2 DEF InvOf, ProcessEnable, vtx_is_running, TypeOK
<1> QED BY <1>3, <1>4

(* The invariant holds when the queue is first filled. *)
LEMMA InitInv == Init => Inv
<1> SUFFICES ASSUME Init PROVE Inv
  OBVIOUS
<1>1. Startable \in SUBSET Inst
  BY DEF Startable
<1>2. \A t, j : Queued(t, j) => t = "SC_OFFLINE"
  BY <1>1, Reasons, GraphAssumption, NotesForProperties DEF Init, OnlyNotes, Queued
<1> QED BY <1>2, InvIsInvOf DEF Init, InvOf, vtx_is_running

(* Every step keeps the invariant. *)
LEMMA NextInv == TypeOK /\ Inv /\ [Next]_vars => Inv'
<1> SUFFICES ASSUME TypeOK, Inv, [Next]_vars PROVE Inv'
  OBVIOUS
<1>1. CASE Online
  BY <1>1, OnlineInv
<1>2. CASE Offline
  <2>1. PICK i \in Inst, reason \in RestartOn :
               First("SC_OFFLINE", i, reason) /\ ProcessOffline(i, reason, Tail(notes))
    BY <1>2 DEF Offline
  <2>2. notes # <<>> /\ Head(notes).type = "SC_OFFLINE" /\ Head(notes).path = i
    BY <2>1 DEF First, Quiescent
  <2>3. /\ Tail(notes) \in Seq(Note)
        /\ \A t, j : HasNote(Tail(notes), t, j) => Queued(t, j)
        /\ \A t, j : Queued(t, j) => HasNote(Tail(notes), t, j) \/ (t = "SC_OFFLINE" /\ j = i)
    BY <2>2, HasTail DEF Queued, TypeOK
  <2> QED BY <2>1, <2>3, OfflineInv
<1>3. CASE Disabled
  BY <1>3, DisabledInv
<1>4. CASE Setup
  <2>1. CASE TryDisable \/ TryEnable
    BY <2>1, RequestInv DEF TryDisable, TryEnable, Try
  <2>2. CASE TryOffline
    <3>1. PICK i \in Inst : ProcessOffline(i, RestartOnNone, <<>>) /\ Quiescent
      BY <2>2 DEF TryOffline, Try
    <3>2. \A t, j : ~Queued(t, j)
      BY <3>1, HasNone DEF Queued, Quiescent
    <3> QED BY <3>1, <3>2, HasNone, Reasons, OfflineInv
  <2> QED BY <1>4, <2>1, <2>2 DEF Setup
<1>5. CASE Admin
  BY <1>5, RequestInv DEF Admin, AdminDisable, AdminEnable
<1>6. CASE UNCHANGED vars
  BY <1>6 DEF vars, Inv, RunsOnlyIfEnabled, Running, Queued, vtx_is_running
<1> QED BY <1>1, <1>2, <1>3, <1>4, <1>5, <1>6 DEF Next, Drain

(* The inductive invariant holds in every reachable state. *)
THEOREM InvHolds == Spec => []Inv
<1> QED BY TypeCorrect, InitInv, NextInv, PTL DEF Spec

(* No instance runs that has been disabled, unless it is on its way down. *)
THEOREM NeverResurrected == Spec => []RunsOnlyIfEnabled
<1>1. Inv => RunsOnlyIfEnabled
  BY DEF Inv
<1> QED BY <1>1, InvHolds, PTL

-----------------------------------------------------------------------------
(* The engine implements the lifecycle. *)

(* Each handler is a step of Lifecycle, or changes nothing that it sees. *)
LEMMA StepSimulated ==
  ASSUME TypeOK, Inv, [Next]_vars
  PROVE  [Life!Next]_(Life!vars)
<1>1. ASSUME NEW i \in Inst, NEW rest, ProcessOnline(i, rest), is_enabled[i]
      PROVE  Life!Up(i)
  BY <1>1 DEF ProcessOnline, Life!Up, Life!Set, vtx_is_running, TypeOK
<1>2. ASSUME NEW i \in Inst, NEW reason, NEW rest, ProcessOffline(i, reason, rest)
      PROVE  Life!Down(i)
  BY <1>2 DEF ProcessOffline, Life!Down, Life!Set, vtx_is_running, TypeOK
<1>3. ASSUME NEW i \in Inst, NEW reason, NEW rest, ProcessDisabled(i, reason, rest),
             ~is_enabled[i], ~vtx_is_running(i)
      PROVE  Life!Park(i)
  BY <1>3 DEF ProcessDisabled, Life!Park, Life!Set, vtx_is_running, TypeOK
<1>4. ASSUME NEW i \in Inst, NEW rest, ProcessDisable(i, rest)
      PROVE  Life!Disable(i)
  BY <1>4 DEF ProcessDisable, Life!Disable, vtx_is_running
<1>5. ASSUME NEW i \in Inst, NEW rest, ProcessEnable(i, rest)
      PROVE  Life!Enable(i)
  BY <1>5 DEF ProcessEnable, Life!Enable, vtx_is_running
<1>6. ASSUME NEW type, NEW i, NEW reason, First(type, i, reason)
      PROVE  Queued(type, i)
  <2>1. notes # <<>> /\ Head(notes).type = type /\ Head(notes).path = i
    BY <1>6 DEF First, Quiescent
  <2> QED BY <2>1, HasTail DEF Queued, TypeOK
<1>7. CASE Drain
  <2>1. CASE Online
    BY <2>1, <1>1, <1>6 DEF Online, Inv, Life!Next
  <2>2. CASE Offline
    BY <2>2, <1>2 DEF Offline, Life!Next
  <2>3. CASE Disabled
    BY <2>3, <1>3, <1>6 DEF Disabled, Inv, Running, Life!Next
  <2> QED BY <1>7, <2>1, <2>2, <2>3 DEF Drain
<1>8. CASE Setup
  BY <1>8, <1>2, <1>4, <1>5 DEF Setup, TryDisable, TryEnable, TryOffline, Life!Next
<1>9. CASE Admin
  BY <1>9, <1>4, <1>5 DEF Admin, AdminDisable, AdminEnable, Life!Next
<1>10. CASE UNCHANGED vars
  BY <1>10 DEF vars, Life!vars, vtx_is_running
<1> QED BY <1>7, <1>8, <1>9, <1>10 DEF Next

(* The engine implements the safety part of the administrator's view: an
   instance comes up only while it is enabled and is put to rest as Disabled
   only while it is not and is down. *)
THEOREM Implements == Spec => Life!SafeSpec
<1>1. Init => Life!Init
  BY DEF Init, Life!Init, vtx_is_running
<1>2. TypeOK /\ Inv /\ [Next]_vars => [Life!Next]_(Life!vars)
  BY StepSimulated
<1> QED BY <1>1, <1>2, TypeCorrect, InvHolds, PTL DEF Spec, Life!SafeSpec

=============================================================================
