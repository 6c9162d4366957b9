-------------------------- MODULE ConfigdNotesProofs --------------------------
(***************************************************************************)
(* Proofs about the notes of module Configd: a subscriber is told of every *)
(* request since it subscribed, once and in order, and then has the flags  *)
(* of the repository.                                                      *)
(***************************************************************************)
EXTENDS ConfigdDataProofs

-----------------------------------------------------------------------------
(* Notes. *)

\* A note that arrives as it was sent
IsNote(n) == s16db_ucl_to_note(s16db_note_to_ucl(n)) = n

\* A qualified path is read as it was written.
LEMMA QualifiedPath ==
  ASSUME NEW s, NEW i
  PROVE  LET p == S16PathNew(s, i) IN s16db_string_to_path(S16PathToString(p)) = p
<1> DEFINE p == S16PathNew(s, i)
<1>1. p.full_qual /\ p.svc = s /\ p.inst = i
  BY Zenon DEF S16PathNew
<1>2. p = [full_qual |-> TRUE, svc |-> s, inst |-> i]
  BY Zenon DEF S16PathNew
<1> HIDE DEF p
<1>3. ASSUME i = NULL PROVE s16db_string_to_path(S16PathToString(p)) = p
  BY <1>1, <1>2, <1>3, Written, Parsed, Zenon
<1>4. ASSUME i # NULL PROVE s16db_string_to_path(S16PathToString(p)) = p
  BY <1>1, <1>2, <1>4, Written, Parsed, Zenon
<1>5. s16db_string_to_path(S16PathToString(p)) = p
  BY <1>3, <1>4
<1> QED BY <1>5 DEF p

\* The notes of s16note_new are sent and read without a change.
LEMMA NoteArrives ==
  ASSUME NEW t, NEW a, NEW path0, NEW r
  PROVE  IsNote(s16note_new(t, a, path0, r))
<1> DEFINE q == S16PathCopy(path0)
           n == s16note_new(t, a, path0, r)
           w == S16PathToString(q)
           u == s16db_note_to_ucl(n)
<1>1. n = [note_type |-> t, type |-> a, path |-> q, reason |-> r]
  BY DEF s16note_new
<1>2. s16db_string_to_path(w) = q
  BY QualifiedPath DEF S16PathCopy
<1> HIDE DEF q, n, w
<1>3. n.note_type = t /\ n.type = a /\ n.path = q /\ n.reason = r
  BY <1>1
<1>4. u = Entry("note-type", t) ++ Entry("type", a) ++ Entry("path", w) ++ Entry("reason", r)
  BY <1>3, Zenon DEF s16db_note_to_ucl, w
<1> HIDE DEF u
<1>5. u["note-type"] = t
  BY <1>4, Objects, Entries
<1>6. u["type"] = a
  BY <1>4, Objects, Entries
<1>7. u["path"] = w
  BY <1>4, Objects, Entries
<1>8. u["reason"] = r
  BY <1>4, Objects, Entries
<1>9. s16db_ucl_to_note(u) = n
  BY <1>1, <1>2, <1>5, <1>6, <1>7, <1>8 DEF s16db_ucl_to_note
<1> QED BY <1>9 DEF IsNote, u, n

\* The notes of a request whose path is there
LEMMA NotesMade ==
  ASSUME NEW d, NEW l, StoreOK(d, l), NEW p, NEW enabled, Found(db_lookup_path_merged(d, p))
  PROVE  LET q == NotesOf(d, p, enabled) IN IsList(q) /\ \A k \in DOMAIN q : IsNote(q[k])
<1> DEFINE lu == db_lookup_path_merged(d, p)
           insts == d.manifest[lu.s].insts
           Request(x) == s16note_new("N_ADMIN_REQ", IF enabled THEN "A_ENABLE" ELSE "A_DISABLE", x, 0)
           q == NotesOf(d, p, enabled)
<1>1. CASE lu.type = "SVC"
  <2>1. q = [k \in DOMAIN insts |-> Request(insts[k].path)]
    BY <1>1 DEF NotesOf
  <2>2. lu.s # 0
    BY <1>1 DEF Found
  <2>3. lu.s \in DOMAIN d.manifest
    BY <2>2, LookedUp DEF db_lookup_path_merged, StoreOK, Serves
  <2>4. IsList(insts)
    BY <2>3 DEF StoreOK, Serves, SvcOK
  <2>5. \A k \in DOMAIN insts : IsNote(Request(insts[k].path))
    BY NoteArrives
  <2> HIDE DEF insts, lu, q, Request
  <2>6. q = [k \in DOMAIN insts |-> q[k]] /\ \A k \in DOMAIN insts : IsNote(q[k])
    BY <2>1, <2>5
  <2>7. IsList(q) /\ \A k \in DOMAIN q : IsNote(q[k])
    BY <2>4, <2>6, ListShape
  <2> QED BY <2>7 DEF q
<1>2. CASE lu.type # "SVC"
  <2>1. q = <<Request(p)>>
    BY <1>2 DEF NotesOf
  <2>2. IsNote(Request(p))
    BY NoteArrives
  <2> HIDE DEF q, lu, Request
  <2>3. q \in Seq({Request(p)}) /\ DOMAIN q = {1} /\ q[1] = Request(p)
    BY <2>1
  <2>4. IsList(q) /\ \A k \in DOMAIN q : IsNote(q[k])
    BY <2>2, <2>3, SeqIsList
  <2> QED BY <2>4 DEF q
<1> QED BY <1>1, <1>2

-----------------------------------------------------------------------------
(* The invariant. *)

\* The notes of some requests
Queued(r) == {r[k].note : k \in DOMAIN r}

\* What is on its way down, after a reply that is still to be read
Coming(d) ==
  LET sent == IF d # <<>> /\ Head(d).kind = "reply" THEN Tail(d) ELSE d
  IN  [k \in DOMAIN sent |-> s16db_ucl_to_note(sent[k].note)]

\* What configd s has still to send to c
Waiting(s) == IF s.pc = "reply" THEN Tail(s.todo) ELSE s.todo
Due(s, c)  == (IF c \in ToSet(Waiting(s)) THEN s.hand ELSE <<>>) \o s.notes

\* The notes of the requests that a client k has subscribed to
Since(k, r) == [j \in 1 .. Len(r) - k.since |-> r[k.since + j].note]

\* configd s: its notes are those of requests, and it has some only while it
\* sends them.
QueueOK(s, r) ==
  /\ IsList(r) /\ \A n \in Queued(r) : IsNote(n)
  /\ s.notes \in Seq(Queued(r)) /\ s.hand \in Seq(Queued(r)) /\ NoDup(s.todo)
  /\ s.pc \in {"down", "kevent", "recv"} => s.notes = <<>>

\* A client has notes only in the loop of graphd, and one in its hand only while
\* it carries it out.
QuietOK(k) ==
  /\ k.pc \notin {"loop", "process"} => k.got = <<>>
  /\ k.pc # "process" => k.note = <<>>

\* A subscriber: what it has, what is on its way and what is due
Complete(c, s, d, k, r) ==
  /\ k.got \in Seq(Queued(r)) /\ k.note \in Seq(Queued(r)) /\ Coming(d) \in Seq(Queued(r))
  /\ k.since \in 0 .. Len(r)
  /\ k.got \o k.note \o Coming(d) \o Due(s, c) = Since(k, r)

Listens(c, s, l, k) == Living(k) /\ l = "open" /\ c \in ToSet(s.subs)

NotesInv ==
  /\ QueueOK(srv, log.requests)
  /\ \A c \in Client :
       /\ QuietOK(clnt[c])
       /\ Listens(c, srv, link[c], clnt[c]) => Complete(c, srv, down[c], clnt[c], log.requests)

\* What is due are notes of requests.
LEMMA DueNotes ==
  ASSUME NEW s, NEW r, QueueOK(s, r), NEW c
  PROVE  Due(s, c) \in Seq(Queued(r))
<1>1. <<>> \in Seq(Queued(r))
  OBVIOUS
<1> QED BY <1>1 DEF QueueOK, Due

\* Nothing, a reply and a note on their way
LEMMA ComingShort ==
  ASSUME NEW a, NEW b
  PROVE  /\ Coming(<<>>) = <<>>
         /\ a.kind = "reply" => /\ Coming(<<a>>) = <<>>
                                /\ Coming(<<a, b>>) = <<s16db_ucl_to_note(b.note)>>
         /\ a.kind # "reply" => Coming(<<a>>) = <<s16db_ucl_to_note(a.note)>>
<1>1. \A x : [k \in DOMAIN <<x>> |-> s16db_ucl_to_note(<<x>>[k].note)] = <<s16db_ucl_to_note(x.note)>>
  <2> TAKE x
  <2> DEFINE F(y) == s16db_ucl_to_note(y.note)
             f == [k \in DOMAIN <<x>> |-> F(<<x>>[k])]
  <2> HIDE DEF F
  <2>1. PICK y : y = F(x)
    OBVIOUS
  <2>2. DOMAIN <<x>> = 1 .. 1 /\ <<x>>[1] = x
    OBVIOUS
  <2>3. f \in [1 .. 1 -> {y}] /\ f[1] = y
    BY <2>1, <2>2
  <2> HIDE DEF f
  <2>4. f = <<y>>
    BY <2>3
  <2>5. f = <<F(x)>>
    BY <2>1, <2>4
  <2> QED BY <2>5 DEF f, F
<1>2. [k \in DOMAIN <<>> |-> s16db_ucl_to_note(<<>>[k].note)] = <<>>
  <2>1. DOMAIN <<>> = {}
    OBVIOUS
  <2>2. \A f : f = [k \in {} |-> f[k]] => f = <<>>
    OBVIOUS
  <2> QED BY <2>1, <2>2
<1>3. Coming(<<>>) = <<>>
  BY <1>2, Zenon DEF Coming
<1>4. /\ Head(<<a>>) = a /\ Head(<<a, b>>) = a /\ Tail(<<a>>) = <<>> /\ Tail(<<a, b>>) = <<b>>
      /\ <<a>> # <<>> /\ <<a, b>> # <<>>
  BY Short
<1>5. ASSUME a.kind = "reply"
      PROVE  Coming(<<a>>) = <<>> /\ Coming(<<a, b>>) = <<s16db_ucl_to_note(b.note)>>
  BY <1>1, <1>2, <1>4, <1>5, Zenon DEF Coming
<1>6. ASSUME a.kind # "reply"
      PROVE  Coming(<<a>>) = <<s16db_ucl_to_note(a.note)>>
  BY <1>1, <1>4, <1>6, Zenon DEF Coming
<1> QED BY <1>3, <1>5, <1>6

\* A step that changes nothing for a subscriber
LEMMA SameDue ==
  ASSUME NEW c, NEW s, NEW t, NEW d, NEW k, NEW r, Complete(c, s, d, k, r), Due(t, c) = Due(s, c)
  PROVE  Complete(c, t, d, k, r)
BY DEF Complete

\* Two sequences put together
Joins(w, r, x) ==
  /\ Len(w) = Len(r) + Len(x)
  /\ \A i \in 1 .. Len(r) + Len(x) : w[i] = IF i <= Len(r) THEN r[i] ELSE x[i - Len(r)]

LEMMA Joined ==
  ASSUME NEW S, NEW r \in Seq(S), NEW x \in Seq(S)
  PROVE  r \o x \in Seq(S) /\ Joins(r \o x, r, x)
<1> DEFINE w == r \o x
<1>1. w \in Seq(S) /\ Len(w) = Len(r) + Len(x)
  OBVIOUS
<1>2. \A i \in 1 .. Len(r) + Len(x) : w[i] = IF i <= Len(r) THEN r[i] ELSE x[i - Len(r)]
  OBVIOUS
<1> QED BY <1>1, <1>2 DEF Joins

LEMMA JoinedLists ==
  ASSUME NEW a, IsList(a), NEW b, IsList(b)
  PROVE  DOMAIN (a \o b) = 1 .. Len(a) + Len(b) /\ Joins(a \o b, a, b)
<1> DEFINE S == ToSet(a) \cup ToSet(b)
           w == a \o b
<1>1. a \in Seq(S) /\ b \in Seq(S)
  BY DEF IsList
<1> HIDE DEF S
<1>2. w \in Seq(S) /\ Joins(w, a, b)
  BY <1>1, Joined
<1> HIDE DEF w
<1>3. DOMAIN w = 1 .. Len(a) + Len(b) /\ Joins(w, a, b)
  BY <1>2 DEF Joins
<1> QED BY <1>3 DEF w

\* The requests w are r and then those that led to the notes q.
Extends(w, r, q) ==
  /\ IsList(w) /\ Len(w) = Len(r) + Len(q)
  /\ \A k \in 1 .. Len(r) : w[k] = r[k]
  /\ \A k \in 1 .. Len(q) : w[Len(r) + k].note = q[k]
  /\ Queued(w) = Queued(r) \cup ToSet(q)

\* Requests that are added to others
LEMMA MoreRequests ==
  ASSUME NEW r, IsList(r), NEW q, IsList(q), NEW x, IsList(x), Len(x) = Len(q),
         \A k \in DOMAIN q : x[k].note = q[k]
  PROVE  Extends(r \o x, r, q)
<1>1. Len(q) \in Nat /\ DOMAIN q = 1 .. Len(q) /\ Len(r) \in Nat /\ DOMAIN r = 1 .. Len(r)
  BY LongerList
<1>2. \A k \in 1 .. Len(q) : x[k].note = q[k]
  BY <1>1
<1>3. IsList(x) /\ Len(x) = Len(q)
  OBVIOUS
<1> DEFINE S == ToSet(r) \cup ToSet(x)
           w == r \o x
<1>4. r \in Seq(S) /\ x \in Seq(S)
  BY <1>3 DEF IsList
<1>0. w = r \o x
  OBVIOUS
<1> HIDE DEF S, w
<1>5. /\ w \in Seq(S) /\ Len(w) = Len(r) + Len(x)
      /\ \A i \in 1 .. Len(r) + Len(x) : w[i] = IF i <= Len(r) THEN r[i] ELSE x[i - Len(r)]
  <2>1. w \in Seq(S) /\ Joins(w, r, x)
    BY <1>0, <1>4, Joined
  <2> QED BY <2>1 DEF Joins
<1>6. IsList(w)
  BY <1>5, SeqIsList
<1>7. \A k \in 1 .. Len(r) : k \in 1 .. Len(r) + Len(q) /\ w[k] = r[k]
  BY <1>1, <1>3, <1>5
<1>8. ASSUME NEW k \in 1 .. Len(q)
      PROVE  Len(r) + k \in 1 .. Len(r) + Len(q) /\ w[Len(r) + k] = x[k]
  <2>1. Len(r) + k \in 1 .. Len(r) + Len(x) /\ ~(Len(r) + k <= Len(r)) /\ (Len(r) + k) - Len(r) = k
    BY <1>1, <1>3
  <2> QED BY <1>3, <1>5, <2>1
<1>9. \A k \in 1 .. Len(q) : w[Len(r) + k].note = q[k]
  BY <1>1, <1>2, <1>8
<1>10. DOMAIN w = 1 .. Len(r) + Len(q)
  BY <1>3, <1>5
<1>11. Queued(w) = Queued(r) \cup ToSet(q)
  <2>1. ASSUME NEW k \in DOMAIN w
        PROVE  w[k].note \in Queued(r) \cup ToSet(q)
    <3>1. CASE k <= Len(r)
      <4>1. k \in DOMAIN r /\ w[k] = r[k]
        BY <1>1, <1>7, <1>10, <3>1
      <4> QED BY <4>1 DEF Queued
    <3>2. CASE ~(k <= Len(r))
      <4>1. k - Len(r) \in 1 .. Len(q) /\ k = Len(r) + (k - Len(r))
        BY <1>1, <1>10, <3>2
      <4>2. w[k].note = q[k - Len(r)]
        BY <1>9, <4>1
      <4> QED BY <1>1, <4>1, <4>2 DEF ToSet
    <3> QED BY <3>1, <3>2
  <2>2. ASSUME NEW k \in DOMAIN r
        PROVE  r[k].note \in Queued(w)
    BY <1>1, <1>7, <1>10 DEF Queued
  <2>3. ASSUME NEW k \in DOMAIN q
        PROVE  q[k] \in Queued(w)
    <3>1. Len(r) + k \in DOMAIN w /\ w[Len(r) + k].note = q[k]
      BY <1>1, <1>8, <1>9, <1>10
    <3> QED BY <3>1 DEF Queued
  <2>4. Queued(w) \subseteq Queued(r) \cup ToSet(q)
    BY <2>1 DEF Queued
  <2>5. Queued(r) \subseteq Queued(w)
    BY <2>2 DEF Queued
  <2>6. ToSet(q) \subseteq Queued(w)
    BY <2>3 DEF ToSet
  <2> QED BY <2>4, <2>5, <2>6
<1>12. Extends(w, r, q)
  BY <1>3, <1>5, <1>6, <1>7, <1>9, <1>11 DEF Extends
<1> QED BY <1>12 DEF w

\* What has been subscribed to, with the requests that are added
LEMMA SinceMore ==
  ASSUME NEW r, IsList(r), NEW q, IsList(q), NEW w, Extends(w, r, q), NEW k, k.since \in 0 .. Len(r)
  PROVE  Since(k, w) = Since(k, r) \o q
<1>1. Len(q) \in Nat /\ DOMAIN q = 1 .. Len(q) /\ Len(r) \in Nat
  BY LongerList
<1> DEFINE n == k.since
           a == Since(k, r)
           b == Since(k, w)
           S == {a[j] : j \in 1 .. Len(r) - n} \cup ToSet(q)
<1>2. /\ a = [j \in 1 .. Len(r) - n |-> r[n + j].note]
      /\ b = [j \in 1 .. Len(r) + Len(q) - n |-> w[n + j].note]
  BY DEF Since, Extends
<1>3. n \in 0 .. Len(r)
  OBVIOUS
<1> HIDE DEF n, a, b
<1>4. Len(r) - n \in Nat /\ Len(r) + Len(q) - n \in Nat
  BY <1>1, <1>3
<1>5. a \in [1 .. Len(r) - n -> S]
  BY <1>2
<1>6. a \in Seq(S) /\ Len(a) = Len(r) - n /\ q \in Seq(S)
  BY <1>4, <1>5 DEF IsList
<1> HIDE DEF S
<1> DEFINE c == a \o q
<1>7. /\ c \in Seq(S) /\ Len(c) = Len(a) + Len(q)
      /\ \A i \in 1 .. Len(a) + Len(q) : c[i] = IF i <= Len(a) THEN a[i] ELSE q[i - Len(a)]
  BY <1>6, ConcatProperties
<1> HIDE DEF c
<1>8. DOMAIN c = 1 .. Len(r) + Len(q) - n /\ c = [j \in DOMAIN c |-> c[j]]
  BY <1>1, <1>3, <1>6, <1>7
<1>9. ASSUME NEW j \in 1 .. Len(r) + Len(q) - n
      PROVE  c[j] = b[j]
  <2>1. j \in 1 .. Len(a) + Len(q)
    BY <1>1, <1>3, <1>6
  <2>2. CASE j <= Len(a)
    <3>1. j \in 1 .. Len(r) - n /\ n + j \in 1 .. Len(r)
      BY <1>1, <1>3, <1>6, <2>2
    <3>2. c[j] = a[j]
      BY <1>7, <2>1, <2>2
    <3>3. w[n + j] = r[n + j]
      BY <3>1 DEF Extends
    <3> QED BY <1>2, <3>1, <3>2, <3>3
  <2>3. CASE ~(j <= Len(a))
    <3>1. j - Len(a) \in 1 .. Len(q) /\ n + j = Len(r) + (j - Len(a))
      BY <1>1, <1>3, <1>6, <2>3
    <3>2. c[j] = q[j - Len(a)]
      BY <1>7, <2>1, <2>3
    <3>3. w[n + j].note = q[j - Len(a)]
      BY <3>1 DEF Extends
    <3> QED BY <1>2, <3>2, <3>3
  <2> QED BY <2>2, <2>3
<1>10. DOMAIN b = 1 .. Len(r) + Len(q) - n /\ b = [j \in DOMAIN b |-> b[j]]
  BY <1>2
<1>11. b = c
  BY <1>8, <1>9, <1>10
<1> QED BY <1>11 DEF a, b, c

\* A request, its notes and the history
LEMMA RequestLogged ==
  ASSUME StoreOK(db, log), IsList(log.requests), NEW c \in Client,
         NEW m \in {GetAll, Subscribe} \cup Requests(c), NEW o \in Outcomes(m), ~Unknown(m)
  PROVE  /\ IsList(o.notes) /\ \A k \in DOMAIN o.notes : IsNote(o.notes[k])
         /\ Extends(Logged(m, o.notes).requests, log.requests, o.notes)
         /\ m.method = "subscribe" => o.notes = <<>> /\ Logged(m, o.notes) = log
<1> DEFINE r == log.requests
           w == Logged(m, o.notes).requests
<1>1. CASE o.notes = <<>> /\ m.method \notin {"enable", "disable"}
  <2>1. w = r
    <3>1. CASE m.method = "import-service" /\ svc_converts(m.param)
      <4>1. PICK e : Logged(m, o.notes) = [log EXCEPT !.imports = e]
        BY <3>1, Zenon DEF Logged
      <4> QED BY <4>1 DEF StoreOK
    <3>2. CASE ~(m.method = "import-service" /\ svc_converts(m.param))
      BY <1>1, <3>2 DEF Logged
    <3> QED BY <3>1, <3>2
  <2>2. m.method = "subscribe" => Logged(m, o.notes) = log
    BY DEF Logged
  <2> HIDE DEF r, w
  <2>3. IsList(<<>>) /\ DOMAIN <<>> = {} /\ Len(<<>>) = 0 /\ ToSet(<<>>) = {}
    <3>1. <<>> \in Seq({}) /\ DOMAIN <<>> = {} /\ Len(<<>>) = 0
      OBVIOUS
    <3> QED BY <3>1, SeqIsList DEF ToSet
  <2>4. Extends(r, r, <<>>)
    <3>1. IsList(r) /\ Len(r) \in Nat
      BY LongerList DEF r
    <3> QED BY <2>3, <3>1 DEF Extends
  <2>5. Extends(w, r, o.notes)
    BY <1>1, <2>1, <2>4
  <2> QED BY <1>1, <2>2, <2>3, <2>5 DEF r, w
<1>2. CASE m.method \in {"enable", "disable"}
  <2> DEFINE p == s16db_string_to_path(m.param)
             en == (m.method = "enable")
             q == NotesOf(db, p, en)
             x == [k \in DOMAIN q |-> [path |-> p, note |-> q[k]]]
  <2>1. o = handle_disable(db, m.param, en)
    BY <1>2 DEF Outcomes
  <2>2. o.notes = q
    BY <2>1 DEF handle_disable, Outcome
  <2>3. Found(db_lookup_path_merged(db, p))
    BY <1>2 DEF Unknown
  <2>4. IsList(q) /\ \A k \in DOMAIN q : IsNote(q[k])
    BY <2>3, NotesMade
  <2>5. Logged(m, q) = [log EXCEPT !.requests = @ \o x]
    BY <1>2, Zenon DEF Logged
  <2> HIDE DEF q, p
  <2>6. /\ x = [k \in DOMAIN q |-> x[k]] /\ \A k \in DOMAIN q : x[k].note = q[k]
    OBVIOUS
  <2> HIDE DEF x
  <2>7. Logged(m, q).requests = r \o x
    BY <2>5 DEF StoreOK
  <2>8. IsList(x) /\ Len(x) = Len(q)
    BY <2>4, <2>6, ListShape
  <2>9. Extends(r \o x, r, q)
    BY <2>4, <2>6, <2>8, MoreRequests
  <2> QED BY <1>2, <2>2, <2>4, <2>7, <2>9
<1>3. o.notes = <<>> \/ m.method \in {"enable", "disable"}
  <2>1. CASE m = GetAll
    BY <2>1 DEF GetAll, Outcomes, handle_get_all_services_merged, Outcome
  <2>2. CASE m = Subscribe
    BY <2>2 DEF Subscribe, Outcomes, Outcome
  <2>3. ASSUME NEW en \in BOOLEAN, NEW txt \in Paths, m = SetEnabled(en, txt)
        PROVE  m.method \in {"enable", "disable"}
    BY <2>3 DEF SetEnabled
  <2>4. ASSUME NEW f \in Manifests, m = Import(f)
        PROVE  o.notes = <<>>
    <3>1. m.method = "import-service"
      BY <2>4 DEF Import
    <3>2. o \in handle_import_service(db, m.param)
      BY <3>1 DEF Outcomes
    <3>3. PICK d : o = Outcome(d, <<>>, 0)
      BY <3>2, Zenon DEF handle_import_service
    <3> QED BY <3>3 DEF Outcome
  <2>5. ASSUME NEW txt \in Paths, m = GetPath(txt)
        PROVE  o.notes = <<>>
    <3>1. m.method = "get-path-merged"
      BY <2>5 DEF GetPath
    <3>2. o = handle_get_path_merged(db, m.param)
      BY <3>1 DEF Outcomes
    <3> QED BY <3>2 DEF handle_get_path_merged, Outcome
  <2> QED BY <2>1, <2>2, <2>3, <2>4, <2>5, WhatIsAsked
<1> QED BY <1>1, <1>2, <1>3

-----------------------------------------------------------------------------
(* The steps. *)

\* Sequences put together
LEMMA Pieces ==
  ASSUME NEW S, NEW a \in Seq(S), NEW b \in Seq(S), NEW c \in Seq(S)
  PROVE  /\ a \o <<>> = a /\ <<>> \o a = a /\ (a \o b) \o c = a \o (b \o c) /\ a \o b \in Seq(S)
         /\ a # <<>> => Head(a) \in S /\ Tail(a) \in Seq(S) /\ <<Head(a)>> \o Tail(a) = a
<1>1. a \o <<>> = a /\ <<>> \o a = a
  BY ConcatEmptySeq
<1>2. (a \o b) \o c = a \o (b \o c)
  BY ConcatAssociative
<1>3. a \o b \in Seq(S)
  OBVIOUS
<1>4. ASSUME a # <<>>
      PROVE  Head(a) \in S /\ Tail(a) \in Seq(S) /\ <<Head(a)>> \o Tail(a) = a
  <2>0. Head(a) \in S /\ Tail(a) \in Seq(S)
    BY <1>4, HeadTailProperties
  <2>1. Head(a) \in S /\ Tail(a) \in Seq(S) /\ Len(a) \in Nat /\ Len(a) # 0 /\ Len(Tail(a)) = Len(a) - 1
    <3>1. Len(a) \in Nat /\ Len(Tail(a)) = Len(a) - 1
      BY <1>4, HeadTailProperties
    <3>2. Len(a) # 0
      BY <1>4, EmptySeq
    <3> QED BY <2>0, <3>1, <3>2
  <2> DEFINE t == Tail(a)
             w == <<Head(a)>> \o t
  <2>2. \A i \in 1 .. Len(t) : t[i] = a[i + 1]
    BY <1>4
  <2>3. Head(a) = a[1] /\ <<Head(a)>> \in Seq(S) /\ Len(<<Head(a)>>) = 1 /\ <<Head(a)>>[1] = Head(a)
    BY <1>4, <2>1
  <2>4. w \in Seq(S) /\ Joins(w, <<Head(a)>>, t)
    BY <2>1, <2>3, Joined
  <2> HIDE DEF w, t
  <2>5. w \in Seq(S) /\ Len(w) = Len(a)
    BY <2>1, <2>3, <2>4 DEF Joins, t
  <2>6. ASSUME NEW i \in 1 .. Len(a)
        PROVE  w[i] = a[i]
    <3>1. w[i] = IF i <= 1 THEN <<Head(a)>>[i] ELSE t[i - 1]
      BY <2>1, <2>3, <2>4, <2>5 DEF Joins
    <3>2. CASE i = 1
      BY <2>3, <3>1, <3>2
    <3>3. CASE i # 1
      <4>1. i - 1 \in 1 .. Len(t) /\ ~(i <= 1) /\ (i - 1) + 1 = i
        BY <2>1, <3>3 DEF t
      <4> QED BY <2>2, <3>1, <4>1
    <3> QED BY <3>2, <3>3
  <2>7. w = a
    <3>1. a \in Seq(S)
      OBVIOUS
    <3> QED BY <2>5, <2>6, <3>1, SeqEqual
  <2> QED BY <2>1, <2>7 DEF w, t
<1> QED BY <1>1, <1>2, <1>3, <1>4

LEMMA Regroup ==
  ASSUME NEW S
  PROVE  /\ <<>> \in Seq(S)
         /\ \A a, b \in Seq(S) : a \o b \in Seq(S)
         /\ \A a \in Seq(S) : a \o <<>> = a
         /\ \A a, b, c \in Seq(S) : (a \o b) \o c = a \o (b \o c)
<1>1. <<>> \in Seq(S)
  OBVIOUS
<1> QED BY <1>1, Pieces

\* The subscribers that are still to be told, without the first
LEMMA Todo ==
  ASSUME NEW q \in Seq(Client), q # <<>>, NoDup(q)
  PROVE  /\ NoDup(Tail(q)) /\ Head(q) \in Client /\ Head(q) \notin ToSet(Tail(q))
         /\ ToSet(q) = {Head(q)} \cup ToSet(Tail(q))
<1> DEFINE t == Tail(q)
<1>1. /\ t \in Seq(Client) /\ Len(t) = Len(q) - 1 /\ Len(q) \in Nat /\ Len(q) # 0
      /\ \A i \in 1 .. Len(t) : t[i] = q[i + 1]
      /\ Head(q) = q[1] /\ q[1] \in Client /\ DOMAIN q = 1 .. Len(q) /\ DOMAIN t = 1 .. Len(t)
  OBVIOUS
<1> HIDE DEF t
<1>2. NoDup(t)
  BY <1>1 DEF NoDup
<1>3. q[1] \notin ToSet(t)
  BY <1>1 DEF NoDup, ToSet
<1>4. ToSet(q) = {q[1]} \cup ToSet(t)
  <2>1. ASSUME NEW i \in 1 .. Len(q)
        PROVE  q[i] \in {q[1]} \cup ToSet(t)
    <3>1. CASE i # 1
      <4>1. i - 1 \in 1 .. Len(t) /\ q[i] = t[i - 1]
        BY <1>1, <3>1
      <4> QED BY <1>1, <4>1 DEF ToSet
    <3> QED BY <3>1
  <2>2. ASSUME NEW i \in 1 .. Len(t)
        PROVE  t[i] \in ToSet(q)
    <3>1. i + 1 \in DOMAIN q /\ t[i] = q[i + 1]
      BY <1>1
    <3> QED BY <3>1 DEF ToSet
  <2>3. q[1] \in ToSet(q)
    BY <1>1 DEF ToSet
  <2>4. ToSet(q) \subseteq {q[1]} \cup ToSet(t)
    BY <1>1, <2>1 DEF ToSet
  <2>5. ToSet(t) \subseteq ToSet(q)
    <3>1. \A y \in ToSet(t) : \E i \in 1 .. Len(t) : y = t[i]
      BY <1>1 DEF ToSet
    <3> QED BY <2>2, <3>1
  <2> QED BY <2>3, <2>4, <2>5
<1> QED BY <1>1, <1>2, <1>3, <1>4 DEF t

\* Nobody to tell
LEMMA NobodyDue ==
  ASSUME NEW s, NEW r, QueueOK(s, r), s.todo = <<>>, s.pc # "reply", NEW c
  PROVE  Due(s, c) = s.notes
<1>1. ToSet(Waiting(s)) = {}
  BY EmptyList DEF Waiting
<1>2. Due(s, c) = <<>> \o s.notes
  BY <1>1 DEF Due
<1> QED BY <1>2, Pieces DEF QueueOK

\* Steps that change nothing about notes
LEMMA FrameNotes ==
  ASSUME NotesInv, UNCHANGED <<log, clnt, down>>, QueueOK(srv', log.requests),
         \A c \in Client : Listens(c, srv', link'[c], clnt[c]) =>
           Listens(c, srv, link[c], clnt[c]) /\ Due(srv', c) = Due(srv, c)
  PROVE  NotesInv'
<1>1. ASSUME NEW c \in Client, Listens(c, srv', link'[c], clnt[c])
      PROVE  Complete(c, srv', down[c], clnt[c], log.requests)
  BY <1>1, SameDue DEF NotesInv
<1> QED BY <1>1 DEF NotesInv

\* configd has ended, or has not begun.
LEMMA NoNotes ==
  ASSUME NEW s, IsServer(s), s.notes = <<>>, s.hand = <<>>, s.todo = <<>>, s.subs = <<>>,
         NEW r, IsList(r), \A n \in Queued(r) : IsNote(n)
  PROVE  /\ QueueOK(s, r)
         /\ \A c, l, k : ~Listens(c, s, l, k)
<1>1. <<>> \in Seq(Queued(r))
  OBVIOUS
<1>2. NoDup(<<>>) /\ ToSet(<<>>) = {}
  BY EmptyList
<1> QED BY <1>1, <1>2 DEF QueueOK, Listens

LEMMA EndedNotes ==
  ASSUME NotesInv, Ended
  PROVE  NotesInv'
<1>1. srv' = Idle /\ log' = NoLog /\ clnt' = clnt
  BY DEF Ended
<1>2. /\ IsServer(Idle) /\ Idle.subs = <<>> /\ Idle.todo = <<>> /\ Idle.hand = <<>>
      /\ Idle.notes = <<>> /\ NoLog.requests = <<>>
  BY DEF Idle, IsServer, NoLog
<1>3. IsList(<<>>) /\ Queued(<<>>) = {}
  <2>1. <<>> \in Seq({}) /\ DOMAIN <<>> = {}
    OBVIOUS
  <2> QED BY <2>1, SeqIsList DEF Queued
<1>4. QueueOK(srv', log'.requests) /\ \A c, l, k : ~Listens(c, srv', l, k)
  BY <1>1, <1>2, <1>3, NoNotes
<1> QED BY <1>1, <1>4 DEF NotesInv

LEMMA StartNotes ==
  ASSUME NotesInv, Start
  PROVE  NotesInv'
<1>1. srv' = [Idle EXCEPT !.pc = "kevent"] /\ UNCHANGED <<log, clnt>>
  BY DEF Start
<1>2. /\ IsServer(srv') /\ srv'.subs = <<>> /\ srv'.todo = <<>> /\ srv'.hand = <<>>
      /\ srv'.notes = <<>>
  BY <1>1 DEF Idle, IsServer
<1>3. QueueOK(srv', log.requests) /\ \A c, l, k : ~Listens(c, srv', l, k)
  BY <1>2, NoNotes DEF NotesInv, QueueOK
<1> QED BY <1>1, <1>3 DEF NotesInv

\* Connections and the ends of connections
LEMMA EventNotes ==
  ASSUME Inv, NotesInv, NEW c \in Client, Accept(c) \/ Readable(c) \/ Eof(c)
  PROVE  NotesInv'
<1>1. CASE Accept(c)
  <2>1. link[c] = "backlog" /\ link' = [link EXCEPT ![c] = "open"] /\ UNCHANGED <<srv, log, clnt, down>>
    BY <1>1 DEF Accept
  <2>2. c \notin ToSet(srv.subs)
    BY <2>1 DEF Inv, ConnectionOK, Sub
  <2>3. \A d \in Client \ {c} : link'[d] = link[d]
    BY <2>1 DEF Inv, Shapes
  <2>4. \A d \in Client : Listens(d, srv, link'[d], clnt[d]) => Listens(d, srv, link[d], clnt[d])
    BY <2>2, <2>3 DEF Listens
  <2> QED BY <2>1, <2>4, FrameNotes DEF NotesInv
<1>2. CASE Readable(c)
  <2>1. /\ srv.pc = "kevent" /\ srv' = [srv EXCEPT !.pc = "recv", !.who = c]
        /\ UNCHANGED <<link, log, clnt, down>>
    BY <1>2 DEF Readable, queues
  <2>2. /\ srv'.pc = "recv" /\ srv'.subs = srv.subs /\ srv'.notes = srv.notes
        /\ srv'.todo = srv.todo /\ srv'.hand = srv.hand
    BY <2>1 DEF Inv, ServerOK, IsServer
  <2>3. QueueOK(srv', log.requests)
    BY <2>1, <2>2 DEF NotesInv, QueueOK
  <2>4. \A d : Due(srv', d) = Due(srv, d)
    BY <2>1, <2>2 DEF Due, Waiting
  <2>5. \A d \in Client : Listens(d, srv', link[d], clnt[d]) => Listens(d, srv, link[d], clnt[d])
    BY <2>2 DEF Listens
  <2> QED BY <2>1, <2>3, <2>4, <2>5, FrameNotes
<1>3. CASE Eof(c)
  <2> DEFINE q == Unsubscribed(c)
  <2>1. /\ srv.pc = "kevent" /\ ~Living(clnt[c]) /\ link' = [link EXCEPT ![c] = "closed"]
        /\ srv' = [srv EXCEPT !.subs = q] /\ UNCHANGED <<log, clnt, down>>
    BY <1>3 DEF Eof, Alive, Living
  <2>2. ToSet(q) \subseteq ToSet(srv.subs)
    BY Unlisted DEF Inv, ServerOK
  <2> HIDE DEF q
  <2>3. /\ srv'.pc = srv.pc /\ srv'.subs = q /\ srv'.notes = srv.notes
        /\ srv'.todo = srv.todo /\ srv'.hand = srv.hand
    BY <2>1 DEF Inv, ServerOK, IsServer
  <2>4. QueueOK(srv', log.requests)
    BY <2>1, <2>3 DEF NotesInv, QueueOK
  <2>5. \A d : Due(srv', d) = Due(srv, d)
    BY <2>1, <2>3 DEF Due, Waiting
  <2>6. \A d \in Client \ {c} : link'[d] = link[d]
    BY <2>1 DEF Inv, Shapes
  <2>7. \A d \in Client : Listens(d, srv', link'[d], clnt[d]) => Listens(d, srv, link[d], clnt[d])
    BY <2>1, <2>2, <2>3, <2>6 DEF Listens
  <2> QED BY <2>1, <2>4, <2>5, <2>7, FrameNotes
<1> QED BY <1>1, <1>2, <1>3

\* Nothing was read, and nothing is to be told.
LEMMA HandleNothingNotes ==
  ASSUME Inv, NotesInv, HandleNothing
  PROVE  NotesInv'
<1> DEFINE s == [srv EXCEPT !.who = NoClient]
<1>1. srv.pc = "recv" /\ srv' = Loop(s) /\ UNCHANGED <<link, log, clnt, down>>
  BY DEF HandleNothing, queues
<1>2. /\ IsServer(s) /\ s.subs = srv.subs /\ s.notes = srv.notes
      /\ s.todo = srv.todo /\ s.hand = srv.hand
  BY DEF Inv, ServerOK, IsServer
<1> HIDE DEF s
<1>3. srv.notes = <<>> /\ srv.todo = <<>>
  BY <1>1 DEF NotesInv, QueueOK, Inv, ServerOK
<1>4. /\ IsServer(srv') /\ srv'.subs = srv.subs /\ srv'.notes = <<>> /\ srv'.todo = <<>>
      /\ srv'.pc \in {"kevent", "notify"} /\ (srv'.hand = <<>> \/ srv'.hand = srv.hand)
  BY <1>1, <1>2, <1>3, LoopServer
<1>5. QueueOK(srv', log.requests)
  <2>1. <<>> \in Seq(Queued(log.requests))
    OBVIOUS
  <2> QED BY <1>3, <1>4, <2>1 DEF NotesInv, QueueOK
<1>6. \A d : Due(srv', d) = Due(srv, d)
  BY <1>1, <1>3, <1>4, <1>5, NobodyDue DEF NotesInv
<1>7. \A d \in Client : Listens(d, srv', link[d], clnt[d]) => Listens(d, srv, link[d], clnt[d])
  BY <1>4 DEF Listens
<1> QED BY <1>1, <1>5, <1>6, <1>7, FrameNotes

\* The next note is taken from the queue: it is due to every subscriber.
LEMMA NextNoteNotes ==
  ASSUME Inv, NotesInv, NextNote
  PROVE  NotesInv'
<1> DEFINE h == <<Head(srv.notes)>>
           s == [srv EXCEPT !.hand = h, !.notes = Tail(@), !.todo = srv.subs]
           Q == Queued(log.requests)
<1>1. /\ srv.pc = "notify" /\ srv.todo = <<>> /\ srv.notes # <<>> /\ srv' = Loop(s)
      /\ UNCHANGED <<link, log, clnt, down>>
  BY DEF NextNote, queues
<1>2. srv.notes \in Seq(Q)
  BY DEF NotesInv, QueueOK
<1>3. Head(srv.notes) \in Q /\ Tail(srv.notes) \in Seq(Q) /\ h \o Tail(srv.notes) = srv.notes
  <2> HIDE DEF Q
  <2> QED BY <1>1, <1>2, Pieces
<1>4. h \in Seq(Q)
  <2> HIDE DEF Q
  <2> QED BY <1>3
<1> HIDE DEF h, Q
<1>5. /\ IsServer(s) /\ s.subs = srv.subs /\ s.todo = srv.subs /\ s.hand = h
      /\ s.notes = Tail(srv.notes)
  BY DEF Inv, ServerOK, IsServer
<1> HIDE DEF s
<1>6. /\ srv'.subs = srv.subs /\ srv'.todo = srv.subs /\ srv'.notes = Tail(srv.notes)
      /\ \/ srv'.pc = "kevent" /\ srv'.hand = <<>> /\ srv.subs = <<>> /\ srv'.notes = <<>>
         \/ srv'.pc = "notify" /\ srv'.hand = h
  BY <1>1, <1>5, LoopServer
<1>7. QueueOK(srv', log.requests)
  <2>1. <<>> \in Seq(Q)
    OBVIOUS
  <2> QED BY <1>3, <1>4, <1>6, <2>1 DEF NotesInv, QueueOK, Inv, ServerOK, Q
<1>8. ASSUME NEW d \in Client, Listens(d, srv', link[d], clnt[d])
      PROVE  Listens(d, srv, link[d], clnt[d]) /\ Due(srv', d) = Due(srv, d)
  <2>1. d \in ToSet(srv.subs)
    BY <1>6, <1>8 DEF Listens
  <2>2. srv'.pc = "notify" /\ srv'.hand = h
    BY <1>6, <2>1, EmptyList
  <2>3. Due(srv', d) = h \o Tail(srv.notes)
    BY <1>6, <2>1, <2>2 DEF Due, Waiting
  <2>4. Due(srv, d) = srv.notes
    BY <1>1, NobodyDue DEF NotesInv
  <2>5. Listens(d, srv, link[d], clnt[d])
    BY <1>6, <1>8 DEF Listens
  <2> QED BY <1>3, <2>3, <2>4, <2>5
<1> QED BY <1>1, <1>7, <1>8, FrameNotes

\* The note is on its way to the first of those to be told.
LEMMA TellNotes ==
  ASSUME Inv, NotesInv, Tell
  PROVE  NotesInv'
<1> DEFINE c == Head(srv.todo)
           n == Notify(srv.hand[1])
           Q == Queued(log.requests)
<1>1. /\ srv.pc = "notify" /\ srv.todo # <<>> /\ Living(clnt[c])
      /\ down' = [down EXCEPT ![c] = Append(@, n)] /\ srv' = [srv EXCEPT !.pc = "reply"]
      /\ UNCHANGED <<link, log, clnt>>
  BY DEF Tell, Alive, Living
<1>2. /\ c \in Client /\ c \notin ToSet(Tail(srv.todo))
      /\ ToSet(srv.todo) = {c} \cup ToSet(Tail(srv.todo))
  BY <1>1, Todo DEF Inv, ServerOK, NotesInv, QueueOK
<1>3. srv.hand = <<srv.hand[1]>> /\ srv.hand \in Seq(Q)
  BY <1>1 DEF Inv, ServerOK, NotesInv, QueueOK
<1>4. n.kind = "notify" /\ s16db_ucl_to_note(n.note) = srv.hand[1]
  <2>1. srv.hand[1] \in Q
    <3> HIDE DEF Q
    <3> QED BY <1>3
  <2>2. IsNote(srv.hand[1])
    BY <2>1 DEF NotesInv, QueueOK
  <2> QED BY <2>2 DEF IsNote, Notify
<1>5. /\ srv'.pc = "reply" /\ srv'.subs = srv.subs /\ srv'.notes = srv.notes
      /\ srv'.todo = srv.todo /\ srv'.hand = srv.hand
  BY <1>1 DEF Inv, ServerOK, IsServer
<1>6. QueueOK(srv', log.requests)
  BY <1>1, <1>5 DEF NotesInv, QueueOK
<1>7. \A d \in Client \ {c} : down'[d] = down[d] /\ Due(srv', d) = Due(srv, d)
  <2>1. \A d \in Client \ {c} : down'[d] = down[d]
    BY <1>1 DEF Inv, Shapes
  <2>2. Waiting(srv) = srv.todo /\ Waiting(srv') = Tail(srv.todo)
    BY <1>1, <1>5 DEF Waiting
  <2> HIDE DEF c
  <2>3. \A d \in Client \ {c} : d \in ToSet(Waiting(srv')) <=> d \in ToSet(Waiting(srv))
    BY <1>2, <2>2
  <2> QED BY <1>5, <2>1, <2>3 DEF Due
<1>8. Due(srv, c) = srv.hand \o srv.notes /\ Due(srv', c) = <<>> \o srv.notes
  BY <1>1, <1>2, <1>5 DEF Due, Waiting
<1> HIDE DEF c, n
<1>9. Coming(down[c]) = <<>> /\ Coming(down'[c]) = srv.hand
  <2>1. down'[c] = Append(down[c], n)
    BY <1>1, <1>2 DEF Inv, Shapes
  <2>2. ConnectionOK(c, srv, link[c], up[c], down[c], clnt[c]) /\ Sub(srv, c) /\ ~Waits(srv, c)
    BY <1>1, <1>2 DEF Inv, Sub, Waits
  <2>3. \/ down[c] = <<>>
        \/ down[c] = <<down[c][1]>> /\ down[c][1].kind = "reply"
    BY <1>1, <2>2 DEF ConnectionOK
  <2>4. CASE down[c] = <<>>
    <3>1. down'[c] = <<n>>
      BY <2>1, <2>4, Short
    <3> QED BY <1>3, <1>4, <2>4, <3>1, ComingShort
  <2>5. CASE down[c] = <<down[c][1]>> /\ down[c][1].kind = "reply"
    <3>1. PICK a : down[c] = <<a>> /\ a.kind = "reply"
      BY <2>5
    <3>2. down'[c] = <<a, n>>
      <4>1. Append(<<a>>, n) = <<a, n>>
        BY Short
      <4> QED BY <2>1, <3>1, <4>1, Zenon
    <3>3. Coming(<<a>>) = <<>> /\ Coming(<<a, n>>) = <<s16db_ucl_to_note(n.note)>>
      BY <3>1, ComingShort
    <3> QED BY <1>3, <1>4, <3>1, <3>2, <3>3
  <2> QED BY <2>3, <2>4, <2>5
<1>10. ASSUME Listens(c, srv, link[c], clnt[c])
       PROVE  Complete(c, srv', down'[c], clnt[c], log.requests)
  <2> DEFINE a == clnt[c].got \o clnt[c].note
  <2>1. /\ clnt[c].got \in Seq(Q) /\ clnt[c].note \in Seq(Q)
        /\ clnt[c].since \in 0 .. Len(log.requests) /\ srv.notes \in Seq(Q)
        /\ a \o <<>> \o (srv.hand \o srv.notes) = Since(clnt[c], log.requests)
    BY <1>2, <1>8, <1>9, <1>10 DEF NotesInv, Complete, QueueOK
  <2>2. a \in Seq(Q)
    <3> HIDE DEF Q
    <3>1. \A x, y : x \in Seq(Q) /\ y \in Seq(Q) => x \o y \in Seq(Q)
      OBVIOUS
    <3> QED BY <2>1, <3>1, Zenon
  <2> HIDE DEF a, Q
  <2>3. a \o srv.hand \o (<<>> \o srv.notes) = Since(clnt[c], log.requests)
    <3>1. a \o <<>> = a /\ <<>> \o srv.notes = srv.notes
      BY <2>1, <2>2, Pieces
    <3>2. srv.hand \in Seq(Q) /\ srv.notes \in Seq(Q)
      BY <1>3, <2>1
    <3>3. (a \o srv.hand) \o srv.notes = a \o (srv.hand \o srv.notes)
      <4>1. \A x, y, z \in Seq(Q) : (x \o y) \o z = x \o (y \o z)
        BY Regroup
      <4> QED BY <2>2, <3>2, <4>1, Zenon
    <3> QED BY <2>1, <3>1, <3>3
  <2> QED BY <1>3, <1>8, <1>9, <2>1, <2>3 DEF Complete, a, Q
<1>11. ASSUME NEW d \in Client, Listens(d, srv', link[d], clnt[d])
       PROVE  Complete(d, srv', down'[d], clnt[d], log.requests)
  <2>1. Listens(d, srv, link[d], clnt[d])
    BY <1>5, <1>11 DEF Listens
  <2>2. CASE d # c
    BY <1>7, <2>1, <2>2, SameDue DEF NotesInv
  <2> QED BY <1>10, <2>1, <2>2
<1> QED BY <1>1, <1>6, <1>11 DEF NotesInv

\* The first of those to be told has answered.
LEMMA ToldNotes ==
  ASSUME Inv, NotesInv, Told
  PROVE  NotesInv'
<1> DEFINE s == [srv EXCEPT !.todo = Tail(@)]
<1>1. /\ srv.pc = "reply" /\ srv.todo # <<>> /\ srv' = Loop(s)
      /\ UNCHANGED <<link, log, clnt, down>>
  BY DEF Told, Inv, ServerOK
<1>2. NoDup(Tail(srv.todo))
  BY <1>1, Todo DEF Inv, ServerOK, NotesInv, QueueOK
<1>3. /\ IsServer(s) /\ s.subs = srv.subs /\ s.todo = Tail(srv.todo) /\ s.hand = srv.hand
      /\ s.notes = srv.notes
  BY DEF Inv, ServerOK, IsServer
<1> HIDE DEF s
<1>4. /\ srv'.subs = srv.subs /\ srv'.todo = Tail(srv.todo) /\ srv'.notes = srv.notes
      /\ \/ srv'.pc = "kevent" /\ srv'.hand = <<>> /\ Tail(srv.todo) = <<>> /\ srv'.notes = <<>>
         \/ srv'.pc = "notify" /\ srv'.hand = srv.hand
  BY <1>1, <1>3, LoopServer
<1>5. QueueOK(srv', log.requests)
  <2>1. <<>> \in Seq(Queued(log.requests))
    OBVIOUS
  <2> QED BY <1>2, <1>4, <2>1 DEF NotesInv, QueueOK
<1>6. ASSUME NEW d \in Client
      PROVE  Due(srv', d) = Due(srv, d)
  <2>1. Waiting(srv) = Tail(srv.todo) /\ Waiting(srv') = Tail(srv.todo)
    BY <1>1, <1>4 DEF Waiting
  <2>2. d \in ToSet(Tail(srv.todo)) => srv'.hand = srv.hand
    BY <1>4, EmptyList
  <2> QED BY <1>4, <2>1, <2>2 DEF Due
<1>7. \A d \in Client : Listens(d, srv', link[d], clnt[d]) => Listens(d, srv, link[d], clnt[d])
  BY <1>4 DEF Listens
<1> QED BY <1>1, <1>5, <1>6, <1>7, FrameNotes

\* Sequences over a larger set
LEMMA Larger ==
  ASSUME NEW A, NEW B, A \subseteq B, NEW s \in Seq(A)
  PROVE  s \in Seq(B)
OBVIOUS

\* What more requests queue is due to a subscriber that nothing was due to.
LEMMA MoreDue ==
  ASSUME NEW c, NEW s, NEW t, NEW d, NEW k, NEW r, IsList(r), NEW q, IsList(q),
         NEW w, Extends(w, r, q), Complete(c, s, d, k, r), Due(s, c) = <<>>, Due(t, c) = q
  PROVE  Complete(c, t, d, k, w)
<1> DEFINE A == Queued(r)
           B == Queued(w)
           x == k.got \o k.note \o Coming(d)
<1>1. A \subseteq B /\ Len(w) = Len(r) + Len(q) /\ Len(r) \in Nat /\ Len(q) \in Nat
  BY LongerList DEF Extends
<1>2. /\ k.got \in Seq(A) /\ k.note \in Seq(A) /\ Coming(d) \in Seq(A)
      /\ k.since \in 0 .. Len(r) /\ x \o <<>> = Since(k, r)
  BY Zenon DEF Complete
<1>3. x \o q = Since(k, w)
  <2>1. x \in Seq(A)
    <3> HIDE DEF A
    <3>1. \A a, b \in Seq(A) : a \o b \in Seq(A)
      BY Regroup
    <3> QED BY <1>2, <3>1, Zenon
  <2> HIDE DEF A, x
  <2>2. x \o <<>> = x
    BY <2>1, Pieces
  <2>3. Since(k, w) = Since(k, r) \o q
    <3>1. k.since \in 0 .. Len(r) /\ IsList(r) /\ IsList(q) /\ Extends(w, r, q)
      BY <1>2
    <3> QED BY <3>1, SinceMore
  <2> QED BY <1>2, <2>2, <2>3
<1> HIDE DEF A, B
<1>4. k.got \in Seq(B) /\ k.note \in Seq(B) /\ Coming(d) \in Seq(B) /\ k.since \in 0 .. Len(w)
  <2>1. k.got \in Seq(B) /\ k.note \in Seq(B) /\ Coming(d) \in Seq(B)
    BY <1>1, <1>2, Larger
  <2>2. k.since \in 0 .. Len(w)
    BY <1>1, <1>2
  <2> QED BY <2>1, <2>2
<1> QED BY <1>3, <1>4, Zenon DEF Complete, B

\* A client that has subscribed: nothing is due to it yet.
LEMMA NewSubscriber ==
  ASSUME NEW c, NEW s, NEW d, NEW k, NEW r, IsList(r), k.since = Len(r), k.got = <<>>, k.note = <<>>,
         Coming(d) = <<>>, Due(s, c) = <<>>
  PROVE  Complete(c, s, d, k, r)
<1>1. Len(r) \in Nat
  BY LongerList
<1>2. Since(k, r) = <<>>
  <2>1. 1 .. Len(r) - k.since = {}
    BY <1>1
  <2>2. \A f : f = [j \in {} |-> f[j]] => f = <<>>
    OBVIOUS
  <2>3. Since(k, r) = [j \in {} |-> r[k.since + j].note]
    BY <2>1, Zenon DEF Since
  <2> QED BY <2>2, <2>3
<1>3. <<>> \o <<>> \o <<>> \o <<>> = <<>> /\ <<>> \in Seq(Queued(r))
  <2>1. \A S : <<>> \in Seq(S)
    OBVIOUS
  <2>2. <<>> \o <<>> = <<>>
    BY Pieces, <2>1
  <2> QED BY <2>1, <2>2, Zenon
<1>4. k.since \in 0 .. Len(r)
  BY <1>1
<1> QED BY <1>2, <1>3, <1>4, Zenon DEF Complete

\* A request is handled: its notes are due to all that have subscribed before.
LEMMA HandleNotes ==
  ASSUME Inv, DataInv, NotesInv, Handle
  PROVE  NotesInv'
<1> DEFINE c == srv.who
           m == Head(up[c])
           r == log.requests
           w == log'.requests
<1>1. /\ c \in Client /\ clnt[c].pc = "wait" /\ m = clnt[c].call /\ down[c] = <<>>
      /\ ~Sub(srv, c)
  BY HandledCall
<1>2. /\ clnt' = IF m.method = "subscribe" THEN [clnt EXCEPT ![c].since = Len(r)] ELSE clnt
      /\ link' = link /\ srv.pc = "recv" /\ ~Unknown(m)
  BY DEF Handle
<1>3. PICK o \in Outcomes(m) :
        /\ log' = Logged(m, o.notes)
        /\ down' = [down EXCEPT ![c] = Append(@, Reply(m, o.result))]
        /\ srv' = Loop([srv EXCEPT !.who = NoClient, !.notes = @ \o o.notes,
                                   !.subs = Subscribed(c, m)])
  BY Zenon DEF Handle
<1> DEFINE rep == Reply(m, o.result)
           q   == o.notes
           s   == [srv EXCEPT !.who = NoClient, !.notes = @ \o q, !.subs = Subscribed(c, m)]
<1>4. rep.kind = "reply" /\ down' = [down EXCEPT ![c] = Append(@, rep)] /\ srv' = Loop(s)
  BY <1>3 DEF Reply
<1>5. m \in {GetAll, Subscribe} \cup Requests(c)
  BY <1>1 DEF DataInv, HoldsOK
<1>6. /\ IsList(r) /\ IsList(q) /\ \A k \in DOMAIN q : IsNote(q[k])
      /\ Extends(w, r, q)
      /\ m.method = "subscribe" => q = <<>> /\ log' = log
  <2>1. StoreOK(db, log) /\ IsList(log.requests)
    BY DEF DataInv, NotesInv, QueueOK
  <2> HIDE DEF c, m
  <2> QED BY <1>1, <1>2, <1>3, <1>5, <2>1, RequestLogged
<1>7. srv.notes = <<>> /\ srv.todo = <<>> /\ srv.hand \in Seq(Queued(r))
  BY <1>2 DEF NotesInv, QueueOK, Inv, ServerOK
<1>8. /\ IsServer(s) /\ s.subs = Subscribed(c, m) /\ s.notes = srv.notes \o q
      /\ s.todo = <<>> /\ s.hand = srv.hand
  BY <1>7 DEF Inv, ServerOK, IsServer
<1> HIDE DEF c, m, r, w, rep, q, s
<1>9. s.notes = q
  <2>1. q \in Seq(ToSet(q))
    BY <1>6 DEF IsList
  <2> QED BY <1>7, <1>8, <2>1, Pieces
<1>10. /\ srv'.subs = Subscribed(c, m) /\ srv'.notes = q /\ srv'.todo = <<>>
       /\ \/ srv'.pc = "kevent" /\ srv'.hand = <<>> /\ q = <<>>
          \/ srv'.pc = "notify" /\ srv'.hand = srv.hand
  BY <1>4, <1>8, <1>9, LoopServer
<1>11. QueueOK(srv', w)
  <2>1. ToSet(q) \subseteq Queued(w) /\ Queued(r) \subseteq Queued(w)
    BY <1>6 DEF Extends
  <2>2. IsList(w) /\ \A n \in Queued(w) : IsNote(n)
    <3>1. \A n \in ToSet(q) : IsNote(n)
      BY <1>6 DEF ToSet
    <3>2. \A n \in Queued(r) : IsNote(n)
      BY DEF NotesInv, QueueOK, r
    <3> QED BY <1>6, <3>1, <3>2 DEF Extends
  <2>3. q \in Seq(Queued(w))
    <3>1. q \in Seq(ToSet(q))
      BY <1>6 DEF IsList
    <3> QED BY <2>1, <3>1, Larger
  <2>4. srv.hand \in Seq(Queued(w)) /\ <<>> \in Seq(Queued(w))
    <3>1. \A S : <<>> \in Seq(S)
      OBVIOUS
    <3> QED BY <1>7, <2>1, <3>1, Larger
  <2> QED BY <1>10, <2>2, <2>3, <2>4, EmptyList DEF QueueOK
<1>12. \A d : Due(srv, d) = <<>> /\ Due(srv', d) = q
  <2>1. QueueOK(srv, r) /\ srv.pc # "reply" /\ srv'.pc # "reply"
    BY <1>2, <1>10 DEF NotesInv, r
  <2>2. \A d : Due(srv, d) = srv.notes
    BY <1>7, <2>1, NobodyDue
  <2>3. \A d : Due(srv', d) = srv'.notes
    BY <1>10, <1>11, <2>1, NobodyDue
  <2> QED BY <1>7, <1>10, <2>2, <2>3
<1>13. /\ down'[c] = <<rep>>
       /\ \A d \in Client \ {c} : down'[d] = down[d] /\ clnt'[d] = clnt[d]
  BY <1>1, <1>2, <1>4, Short DEF Inv, Shapes
<1>14. ASSUME NEW d \in Client \ {c}
       PROVE  /\ QuietOK(clnt'[d])
              /\ Listens(d, srv', link'[d], clnt'[d]) =>
                   Complete(d, srv', down'[d], clnt'[d], w)
  <2>1. /\ QuietOK(clnt[d])
        /\ Listens(d, srv, link[d], clnt[d]) => Complete(d, srv, down[d], clnt[d], r)
    BY DEF NotesInv, r
  <2>2. d \in ToSet(srv'.subs) => d \in ToSet(srv.subs)
    <3>1. srv.subs \in Seq(Client)
      BY DEF Inv, ServerOK
    <3>2. ToSet(Append(srv.subs, c)) = ToSet(srv.subs) \cup {c}
      BY <1>1, <3>1, Lists
    <3> QED BY <1>10, <3>2 DEF Subscribed
  <2>3. ASSUME Listens(d, srv', link'[d], clnt'[d])
        PROVE  Complete(d, srv', down'[d], clnt'[d], w)
    <3>1. Listens(d, srv, link[d], clnt[d])
      BY <1>2, <1>13, <2>2, <2>3 DEF Listens
    <3> QED BY <1>6, <1>12, <1>13, <2>1, <3>1, MoreDue
  <2> QED BY <1>13, <2>1, <2>3
<1>15. /\ QuietOK(clnt'[c])
       /\ Listens(c, srv', link'[c], clnt'[c]) => Complete(c, srv', down'[c], clnt'[c], w)
  <2>1. QuietOK(clnt[c]) /\ IsFull(clnt[c])
    BY <1>1 DEF NotesInv, DataInv, HoldsOK
  <2>2. clnt[c].got = <<>> /\ clnt[c].note = <<>>
    BY <1>1, <2>1 DEF QuietOK
  <2>3. CASE m.method # "subscribe"
    <3>1. clnt' = clnt /\ srv'.subs = srv.subs
      BY <1>2, <1>10, <2>3 DEF Subscribed
    <3>2. ~Listens(c, srv', link'[c], clnt'[c])
      BY <1>1, <3>1 DEF Listens, Sub
    <3> QED BY <2>1, <3>1, <3>2
  <2>4. CASE m.method = "subscribe"
    <3>1. clnt' = [clnt EXCEPT ![c].since = Len(r)]
      BY <1>2, <2>4
    <3>2. /\ clnt'[c].pc = clnt[c].pc /\ clnt'[c].got = <<>> /\ clnt'[c].note = <<>>
          /\ clnt'[c].since = Len(r)
      BY <1>1, <2>1, <2>2, <3>1 DEF Inv, Shapes, IsFull
    <3>3. q = <<>> /\ w = r
      BY <1>6, <2>4 DEF w, r
    <3>4. Coming(down'[c]) = <<>>
      BY <1>4, <1>13, ComingShort
    <3>5. Complete(c, srv', down'[c], clnt'[c], w)
      BY <1>6, <1>12, <3>2, <3>3, <3>4, NewSubscriber
    <3>6. QuietOK(clnt'[c])
      BY <3>2 DEF QuietOK
    <3> QED BY <3>5, <3>6
  <2> QED BY <2>3, <2>4
<1> QED BY <1>11, <1>14, <1>15 DEF NotesInv, w

\* A note moves from the connection to the hand of a subscriber, and from there
\* to those it has carried out.
LEMMA SameWhole ==
  ASSUME NEW c, NEW s, NEW d, NEW k, NEW e, NEW l, NEW r, Complete(c, s, d, k, r),
         l.since = k.since,
         \/ l.got = k.got /\ l.note = k.note /\ Coming(e) = Coming(d)
         \/ l.got = k.got /\ k.note = <<>> /\ l.note = Coming(d) /\ Coming(e) = <<>>
         \/ l.got = k.got \o k.note /\ l.note = <<>> /\ Coming(e) = Coming(d)
  PROVE  Complete(c, s, e, l, r)
<1> DEFINE Q == Queued(r)
           x == Coming(d)
<1>1. /\ k.got \in Seq(Q) /\ k.note \in Seq(Q) /\ x \in Seq(Q)
      /\ k.since \in 0 .. Len(r) /\ ((k.got \o k.note) \o x) \o Due(s, c) = Since(k, r)
  BY Zenon DEF Complete
<1> HIDE DEF Q
<1>2. /\ <<>> \in Seq(Q)
      /\ \A a, b \in Seq(Q) : a \o b \in Seq(Q)
      /\ \A a \in Seq(Q) : a \o <<>> = a
  BY Regroup
<1>3. Since(l, r) = Since(k, r)
  BY DEF Since
<1>4. /\ l.got \in Seq(Q) /\ l.note \in Seq(Q) /\ Coming(e) \in Seq(Q)
      /\ (l.got \o l.note) \o Coming(e) = (k.got \o k.note) \o x
  <2> HIDE DEF x
  <2>1. CASE l.got = k.got /\ l.note = k.note /\ Coming(e) = x
    BY <1>1, <2>1, Zenon
  <2>2. CASE l.got = k.got /\ k.note = <<>> /\ l.note = x /\ Coming(e) = <<>>
    <3>1. (k.got \o x) \o <<>> = k.got \o x /\ k.got \o <<>> = k.got
      BY <1>1, <1>2, Zenon
    <3> QED BY <1>1, <1>2, <2>2, <3>1, Zenon
  <2>3. CASE l.got = k.got \o k.note /\ l.note = <<>> /\ Coming(e) = x
    <3>1. (k.got \o k.note) \o <<>> = k.got \o k.note /\ k.got \o k.note \in Seq(Q)
      BY <1>1, <1>2, Zenon
    <3> QED BY <1>1, <1>2, <2>3, <3>1, Zenon
  <2> QED BY <2>1, <2>2, <2>3 DEF x
<1> QED BY <1>1, <1>3, <1>4, Zenon DEF Complete, Q

\* A step of a client
LEMMA ClientNotes ==
  ASSUME Inv, NotesInv, NEW c \in Client, Own(c)
  PROVE  NotesInv'
<1> DEFINE k == clnt[c]
           l == clnt'[c]
           r == log.requests
<1>1. UNCHANGED <<srv, log>> /\ Elsewhere(c) /\ QueueOK(srv, r)
  BY DEF Own, NotesInv
<1>2. /\ ProgramOK(c, k) /\ ConnectionOK(c, srv, link[c], up[c], down[c], k) /\ QuietOK(k)
      /\ Listens(c, srv, link[c], k) => Complete(c, srv, down[c], k, r)
  BY DEF Inv, NotesInv
<1>3. Listens(c, srv, link'[c], l) => Sub(srv, c)
  BY DEF Listens, Sub
<1> HIDE DEF k, l, r
<1>4. QuietOK(l) /\ (Listens(c, srv, link'[c], l) => Complete(c, srv, down'[c], l, r))
  <2>1. CASE Begins(c)
    <3>1. Kept(k, l) /\ k.pc \in {"off", "ready", "half"}
      BY <2>1 DEF Begins, k, l
    <3>2. l.pc \in {"ready", "half", "wait"}
      BY <2>1 DEF Begins, l
    <3>3. QuietOK(l)
      BY <1>2, <3>1, <3>2 DEF QuietOK, Kept
    <3>4. ~Sub(srv, c)
      BY <1>2, <3>1 DEF ConnectionOK, Living
    <3> QED BY <1>3, <3>3, <3>4
  <2>2. CASE Resumes(c)
    <3>1. /\ k.pc = "wait" /\ down[c] # <<>> /\ l.pc \in {"ready", "loop"} /\ Kept(k, l)
          /\ down'[c] = Tail(down[c]) /\ link'[c] = link[c]
      BY <2>2 DEF Resumes, k, l
    <3>2. QuietOK(l)
      BY <1>2, <3>1 DEF QuietOK, Kept
    <3>3. Coming(down'[c]) = Coming(down[c])
      <4>1. /\ down[c][1].kind = "reply"
            /\ \/ down[c] = <<down[c][1]>>
               \/ down[c] = <<down[c][1], down[c][2]>> /\ down[c][2].kind = "notify"
        BY <1>2, <3>1 DEF ConnectionOK
      <4>2. ASSUME NEW a, a.kind = "reply", down[c] = <<a>>
            PROVE  Coming(down'[c]) = Coming(down[c])
        <5>1. down'[c] = <<>>
          <6>1. Tail(<<a>>) = <<>>
            BY Short
          <6> QED BY <3>1, <4>2, <6>1, Zenon
        <5> QED BY <4>2, <5>1, ComingShort
      <4>3. ASSUME NEW a, NEW n, a.kind = "reply", n.kind = "notify", down[c] = <<a, n>>
            PROVE  Coming(down'[c]) = Coming(down[c])
        <5>1. Tail(<<a, n>>) = <<n>>
          BY Short
        <5>2. down'[c] = <<n>>
          BY <3>1, <4>3, <5>1, Zenon
        <5>3. Coming(<<n>>) = <<s16db_ucl_to_note(n.note)>>
          BY <4>3, ComingShort
        <5>4. Coming(<<a, n>>) = <<s16db_ucl_to_note(n.note)>>
          BY <4>3, ComingShort
        <5> QED BY <4>3, <5>2, <5>3, <5>4, Zenon
      <4> QED BY <4>1, <4>2, <4>3, Zenon
    <3>4. ASSUME Listens(c, srv, link'[c], l)
          PROVE  Complete(c, srv, down'[c], l, r)
      <4>1. Listens(c, srv, link[c], k)
        BY <3>1, <3>4 DEF Listens, Living
      <4> QED BY <1>2, <3>1, <3>3, <4>1, SameWhole DEF Kept
    <3> QED BY <3>2, <3>4
  <2>3. CASE Takes(c)
    <3> DEFINE n == s16db_ucl_to_note(Head(down[c]).note)
    <3>1. /\ k.pc = "loop" /\ l.pc = "process" /\ down[c] # <<>> /\ l.got = k.got
          /\ l.since = k.since /\ l.note = <<n>>
          /\ down'[c] = Tail(down[c]) /\ link'[c] = link[c]
      BY <2>3 DEF Takes, k, l
    <3> HIDE DEF n
    <3>2. QuietOK(l) /\ k.note = <<>>
      BY <1>2, <3>1 DEF QuietOK
    <3>3. Coming(down[c]) = <<n>> /\ Coming(down'[c]) = <<>>
      <4>1. down[c] = <<down[c][1]>> /\ down[c][1].kind = "notify"
        BY <1>2, <3>1 DEF ConnectionOK
      <4>2. PICK a : down[c] = <<a>> /\ a.kind = "notify"
        BY <4>1
      <4>3. Head(<<a>>) = a /\ Tail(<<a>>) = <<>>
        BY Short
      <4>4. Coming(<<a>>) = <<s16db_ucl_to_note(a.note)>> /\ Coming(<<>>) = <<>>
        BY <4>2, ComingShort
      <4> QED BY <3>1, <4>2, <4>3, <4>4, Zenon DEF n
    <3>4. ASSUME Listens(c, srv, link'[c], l)
          PROVE  Complete(c, srv, down'[c], l, r)
      <4>1. Listens(c, srv, link[c], k)
        BY <3>1, <3>4 DEF Listens, Living
      <4>2. Complete(c, srv, down[c], k, r) /\ l.note = Coming(down[c]) /\ Coming(down'[c]) = <<>>
        BY <1>2, <3>1, <3>3, <4>1, Zenon
      <4> QED BY <3>1, <3>2, <4>2, SameWhole
    <3> QED BY <3>2, <3>4
  <2>4. CASE Processes(c)
    <3>1. /\ k.pc = "process" /\ l.pc = "loop" /\ l.got = Append(k.got, k.note[1])
          /\ l.since = k.since /\ l.note = <<>> /\ down'[c] = down[c] /\ link'[c] = link[c]
      BY <2>4 DEF Processes, k, l
    <3>2. QuietOK(l) /\ k.note = <<k.note[1]>>
      BY <1>2, <3>1 DEF QuietOK, ProgramOK
    <3>3. ASSUME Listens(c, srv, link'[c], l)
          PROVE  Complete(c, srv, down'[c], l, r)
      <4>1. Listens(c, srv, link[c], k)
        BY <3>1, <3>3 DEF Listens, Living
      <4>2. Complete(c, srv, down[c], k, r)
        BY <1>2, <4>1
      <4>3. l.got = k.got \o k.note
        <5>1. PICK n : n = k.note[1]
          OBVIOUS
        <5>2. PICK g : g = k.got
          OBVIOUS
        <5>3. g \in Seq(Queued(r)) /\ k.note = <<n>> /\ l.got = Append(g, n)
          BY <3>1, <3>2, <4>2, <5>1, <5>2 DEF Complete
        <5>4. n \in Queued(r)
          <6>1. k.note \in Seq(Queued(r))
            BY <4>2 DEF Complete
          <6> QED BY <5>3, <6>1
        <5>5. Append(g, n) = g \o <<n>>
          BY <5>3, <5>4, AppendIsConcat
        <5> QED BY <5>2, <5>3, <5>5, Zenon
      <4>4. Complete(c, srv, down[c], l, r)
        BY <3>1, <4>2, <4>3, SameWhole
      <4> QED BY <3>1, <4>4
    <3> QED BY <3>2, <3>3
  <2>5. CASE Ends(c)
    <3>1. PICK end \in {"done", "gone"} : l = Fresh(end)
      BY <2>5 DEF Ends, l
    <3>2. l.pc = end /\ l.got = <<>> /\ l.note = <<>>
      BY <3>1 DEF Fresh
    <3>3. QuietOK(l) /\ ~Living(l)
      BY <3>2 DEF QuietOK, Living
    <3> QED BY <3>3 DEF Listens
  <2> QED BY <2>1, <2>2, <2>3, <2>4, <2>5 DEF Own
<1>5. ASSUME NEW d \in Client \ {c}
      PROVE  /\ QuietOK(clnt'[d])
             /\ Listens(d, srv, link'[d], clnt'[d]) => Complete(d, srv, down'[d], clnt'[d], r)
  BY <1>1 DEF NotesInv, Elsewhere, r
<1> QED BY <1>1, <1>4, <1>5 DEF NotesInv, l, r

\* Nobody has asked for anything.
LEMMA InitNotes ==
  ASSUME Init
  PROVE  NotesInv
<1>1. srv = Idle /\ log = NoLog /\ clnt = [c \in Client |-> Fresh("off")]
  BY DEF Init
<1>2. /\ IsServer(Idle) /\ Idle.subs = <<>> /\ Idle.todo = <<>> /\ Idle.hand = <<>>
      /\ Idle.notes = <<>> /\ NoLog.requests = <<>>
  BY DEF Idle, IsServer, NoLog
<1>3. IsList(<<>>) /\ Queued(<<>>) = {}
  <2>1. <<>> \in Seq({}) /\ DOMAIN <<>> = {}
    OBVIOUS
  <2> QED BY <2>1, SeqIsList DEF Queued
<1>4. QueueOK(srv, log.requests) /\ \A c, l, k : ~Listens(c, srv, l, k)
  BY <1>1, <1>2, <1>3, NoNotes
<1>5. ASSUME NEW c \in Client PROVE QuietOK(clnt[c])
  BY <1>1 DEF QuietOK, Fresh
<1> QED BY <1>4, <1>5 DEF NotesInv

(* Every step keeps the invariant. *)
LEMMA NextNotes ==
  ASSUME Inv, DataInv, NotesInv, Next
  PROVE  NotesInv'
<1>1. CASE Ended
  BY <1>1, EndedNotes
<1>2. CASE Start
  BY <1>2, StartNotes
<1>3. CASE StartFails
  <2>1. UNCHANGED <<srv, link, log, clnt, down>>
    BY <1>3 DEF StartFails, queues
  <2> QED BY <2>1 DEF NotesInv
<1>4. CASE Interrupt
  BY <1>1, <1>4 DEF Interrupt
<1>5. CASE Serve
  BY <1>1, <1>5, EventNotes, HandleNotes, HandleNothingNotes, NextNoteNotes, TellNotes, ToldNotes
     DEF Serve, Event, HandleDies, TellDies, Die
<1>6. ASSUME NEW c \in Client, Work(c) \/ Begin(c) \/ Quit(c) \/ Kill(c)
      PROVE  NotesInv'
  BY <1>6, OwnSteps, ClientNotes DEF DataInv, HoldsOK
<1> QED BY <1>2, <1>3, <1>4, <1>5, <1>6 DEF Next

\* The invariant holds of every behaviour.
LEMMA NotesHold == Spec => []NotesInv
<1>1. Init => NotesInv
  BY InitNotes
<1>2. Inv /\ DataInv /\ NotesInv /\ [Next]_vars => NotesInv'
  <2>1. ASSUME NotesInv, UNCHANGED vars PROVE NotesInv'
    BY <2>1 DEF NotesInv, vars
  <2> QED BY <2>1, NextNotes
<1> QED BY <1>1, <1>2, InvHolds, DataHolds, PTL DEF Spec

(* ToldOnceInOrder, for any number of subscribers: whoever connects, asks,
   subscribes, is killed or goes in between, the notes that a subscriber has
   carried out, the one in its hand, those on the connection and those that
   configd has still to send are, in this order, the notes of the requests
   that handle_disable has queued since the subscription, none twice. *)
THEOREM ToldAll == Spec => []ToldOnceInOrder
<1>1. NotesInv => ToldOnceInOrder
  <2> SUFFICES ASSUME NotesInv, NEW c \in Client, c \in Subscribers
               PROVE  Sent(c) \o Unsent(c) = Owed(c)
    BY DEF ToldOnceInOrder, Subscribers
  <2>1. Listens(c, srv, link[c], clnt[c])
    BY DEF Subscribers, Listens, Alive, Living
  <2>2. Complete(c, srv, down[c], clnt[c], log.requests)
    BY <2>1 DEF NotesInv
  <2>3. Owed(c) = Since(clnt[c], log.requests)
    BY DEF Owed, Since
  <2>4. Sent(c) = clnt[c].got \o clnt[c].note \o Coming(down[c])
    BY Zenon DEF Sent, Coming
  <2>5. Unsent(c) = Due(srv, c)
    BY Zenon DEF Unsent, Due, Waiting
  <2> QED BY <2>2, <2>3, <2>4, <2>5 DEF Complete
<1> QED BY <1>1, NotesHold, PTL

-----------------------------------------------------------------------------
(* What the repository says of an instance, and what graphd makes of it. *)

\* Instance j of service s is the one that the look-up of v:n finds.
Finds(svcs, v, n, s, j) ==
  /\ s \in DOMAIN svcs /\ svcs[s].path.svc = v
  /\ \A k \in DOMAIN svcs : svcs[k].path.svc = v => k <= s
  /\ j \in DOMAIN svcs[s].insts /\ svcs[s].insts[j].path.inst = n
  /\ \A k \in DOMAIN svcs[s].insts : svcs[s].insts[k].path.inst = n => k <= j

HasFlag(svcs, v, n, b) ==
  \E s \in DOMAIN svcs : \E j \in DOMAIN svcs[s].insts :
    Finds(svcs, v, n, s, j) /\ svcs[s].insts[j].enabled = b

\* Nothing has happened to the instance of the note of request n since, and the
\* request was one for the instance or to disable its service.
Settled(n, l) ==
  LET r == l.requests[n] IN
  /\ \A h \in DOMAIN l.requests : h > n => Key(l.requests[h].note.path) # Key(r.note.path)
  /\ \A k \in DOMAIN l.imports : ~(l.imports[k].path.svc = r.note.path.svc /\ l.imports[k].at >= n)
  /\ r.path.inst # NULL \/ r.note.type = "A_DISABLE"

\* Then the flag is what was asked for.
FlagsOK(d, l) ==
  \A n \in DOMAIN l.requests : Settled(n, l) =>
    LET note == l.requests[n].note
    IN  HasFlag(d.manifest, note.path.svc, note.path.inst, Wants(note))

\* graphd goes by the last note that it has carried out for an instance.
ViewOK(k) ==
  /\ IsList(k.got)
  /\ \A j \in DOMAIN k.got :
       LET i == Key(k.got[j].path) IN
       /\ \A h \in DOMAIN k.got : h > j => Key(k.got[h].path) # i
       /\ i \in DOMAIN k.view
       => k.view[i] = Wants(k.got[j])

AgreeInv ==
  /\ FlagsOK(db, log)
  /\ \A c \in Client : ViewOK(clnt[c])

\* The flags that db_set_enabled changes, and all that it leaves alone, where lu
\* is the look-up of the path
Flagged(old, new, lu, enabled) ==
  /\ DOMAIN new = DOMAIN old
  /\ \A s \in DOMAIN old :
       /\ new[s].path = old[s].path /\ DOMAIN new[s].insts = DOMAIN old[s].insts
       /\ \A j \in DOMAIN old[s].insts :
            /\ new[s].insts[j].path = old[s].insts[j].path
            /\ s # lu.s \/ (lu.type # "SVC" /\ j # lu.i) =>
                 new[s].insts[j].enabled = old[s].insts[j].enabled
            /\ s = lu.s /\ lu.type = "SVC" => new[s].insts[j].enabled = FALSE
            /\ s = lu.s /\ lu.type # "SVC" /\ j = lu.i => new[s].insts[j].enabled = enabled

LEMMA FlagsSet ==
  ASSUME NEW d, NEW l, StoreOK(d, l), NEW p, NEW enabled
  PROVE  Flagged(d.manifest, SetFlags(d, p, enabled).manifest, db_lookup_path_merged(d, p), enabled)
<1> DEFINE lu == db_lookup_path_merged(d, p)
           insts == d.manifest[lu.s].insts
           Flag(k) == IF lu.type = "SVC" THEN FALSE
                      ELSE IF k = lu.i THEN enabled ELSE insts[k].enabled
           set == [k \in DOMAIN insts |-> [insts[k] EXCEPT !.enabled = Flag(k)]]
           new == SetFlags(d, p, enabled).manifest
           old == d.manifest
<1>1. SetFlags(d, p, enabled) = [d EXCEPT !.manifest[lu.s].insts = set]
  BY DEF SetFlags
<1>2. PICK n : n = lu.s
  OBVIOUS
<1>3. /\ DOMAIN set = DOMAIN insts
      /\ \A k \in DOMAIN insts : set[k] = [insts[k] EXCEPT !.enabled = Flag(k)]
  OBVIOUS
<1>4. insts = old[n].insts /\ SetFlags(d, p, enabled) = [d EXCEPT !.manifest[n].insts = set]
  BY <1>1, <1>2
<1>5. \A k : /\ lu.type = "SVC" => Flag(k) = FALSE
             /\ lu.type # "SVC" /\ k = lu.i => Flag(k) = enabled
             /\ lu.type # "SVC" /\ k # lu.i => Flag(k) = insts[k].enabled
  BY Zenon
<1> HIDE DEF set, insts, Flag, lu
<1>6. /\ DOMAIN new = DOMAIN old
      /\ \A s \in DOMAIN old : s # n => new[s] = old[s]
      /\ n \in DOMAIN old => new[n] = [old[n] EXCEPT !.insts = set]
  BY <1>4 DEF StoreOK
<1>7. \A s \in DOMAIN old : SvcOK(old[s])
  BY DEF StoreOK, Serves
<1> HIDE DEF new, old
<1>8. ASSUME n \in DOMAIN old
      PROVE  /\ new[n].path = old[n].path /\ DOMAIN new[n].insts = DOMAIN old[n].insts
             /\ \A j \in DOMAIN old[n].insts :
                  new[n].insts[j].path = old[n].insts[j].path /\ new[n].insts[j].enabled = Flag(j)
  <2>1. new[n].path = old[n].path /\ new[n].insts = set
    BY <1>6, <1>7, <1>8 DEF SvcOK
  <2>2. \A j \in DOMAIN insts : {"path", "enabled"} \subseteq DOMAIN insts[j]
    BY <1>4, <1>7, <1>8 DEF SvcOK, InstOK
  <2>3. \A j \in DOMAIN insts : set[j].path = insts[j].path /\ set[j].enabled = Flag(j)
    BY <1>3, <2>2
  <2> QED BY <1>3, <1>4, <2>1, <2>3
<1>9. ASSUME NEW s \in DOMAIN old
      PROVE  /\ new[s].path = old[s].path /\ DOMAIN new[s].insts = DOMAIN old[s].insts
             /\ \A j \in DOMAIN old[s].insts :
                  /\ new[s].insts[j].path = old[s].insts[j].path
                  /\ s # n \/ (lu.type # "SVC" /\ j # lu.i) =>
                       new[s].insts[j].enabled = old[s].insts[j].enabled
                  /\ s = n /\ lu.type = "SVC" => new[s].insts[j].enabled = FALSE
                  /\ s = n /\ lu.type # "SVC" /\ j = lu.i => new[s].insts[j].enabled = enabled
  <2>1. CASE s # n
    BY <1>6, <2>1
  <2>2. ASSUME s = n, NEW j \in DOMAIN old[s].insts
        PROVE  /\ lu.type # "SVC" /\ j # lu.i => new[s].insts[j].enabled = old[s].insts[j].enabled
               /\ lu.type = "SVC" => new[s].insts[j].enabled = FALSE
               /\ lu.type # "SVC" /\ j = lu.i => new[s].insts[j].enabled = enabled
    <3>1. new[s].insts[j].enabled = Flag(j) /\ insts = old[s].insts
      BY <1>4, <1>8, <2>2
    <3> QED BY <1>5, <3>1, Zenon
  <2>3. CASE s = n
    BY <1>8, <2>2, <2>3
  <2> QED BY <2>1, <2>3
<1>10. Flagged(old, new, lu, enabled)
  BY <1>2, <1>6, <1>9, Zenon DEF Flagged
<1> QED BY <1>10 DEF lu, old, new

\* The notes that db_set_enabled makes, where svcs are the services
Announced(q, svcs, lu, p, enabled) ==
  /\ \A k \in DOMAIN q : Wants(q[k]) = enabled /\ (q[k].type = "A_DISABLE" => enabled = FALSE)
  /\ lu.type = "SVC" =>
       /\ DOMAIN q = DOMAIN svcs[lu.s].insts
       /\ \A k \in DOMAIN q : Key(q[k].path) = Key(svcs[lu.s].insts[k].path)
  /\ lu.type # "SVC" => DOMAIN q = {1} /\ Key(q[1].path) = Key(p)

LEMMA NotesAbout ==
  ASSUME NEW d, NEW p, NEW enabled \in BOOLEAN
  PROVE  Announced(NotesOf(d, p, enabled), d.manifest, db_lookup_path_merged(d, p), p, enabled)
<1> DEFINE lu == db_lookup_path_merged(d, p)
           is == d.manifest[lu.s].insts
           word == IF enabled THEN "A_ENABLE" ELSE "A_DISABLE"
           Request(x) == s16note_new("N_ADMIN_REQ", word, x, 0)
           q == NotesOf(d, p, enabled)
<1>1. \A x : Request(x).type = word /\ Request(x).path = S16PathCopy(x)
  BY DEF s16note_new
<1>2. \A x : Key(S16PathCopy(x)) = Key(x)
  BY DEF Key, S16PathCopy, S16PathNew
<1>3. (word = "A_ENABLE") = enabled /\ (word = "A_DISABLE" => enabled = FALSE)
  BY Zenon
<1>4. \A n : n.type = word => Wants(n) = enabled /\ (n.type = "A_DISABLE" => enabled = FALSE)
  BY <1>3, Zenon DEF Wants
<1>5. CASE lu.type = "SVC"
  <2>1. q = [k \in DOMAIN is |-> Request(is[k].path)]
    BY <1>5 DEF NotesOf
  <2> HIDE DEF is, q, Request, word, lu
  <2>2. DOMAIN q = DOMAIN is /\ \A k \in DOMAIN is : q[k] = Request(is[k].path)
    BY <2>1
  <2>3. \A k \in DOMAIN is : q[k].type = word /\ Key(q[k].path) = Key(is[k].path)
    BY <1>1, <1>2, <2>2
  <2>4. \A k \in DOMAIN q : Wants(q[k]) = enabled /\ (q[k].type = "A_DISABLE" => enabled = FALSE)
    BY <1>4, <2>2, <2>3, Zenon
  <2>5. DOMAIN q = DOMAIN d.manifest[lu.s].insts
    BY <2>2 DEF is
  <2>6. \A k \in DOMAIN q : Key(q[k].path) = Key(d.manifest[lu.s].insts[k].path)
    BY <2>2, <2>3 DEF is
  <2>7. Announced(q, d.manifest, lu, p, enabled)
    BY <1>5, <2>4, <2>5, <2>6 DEF Announced
  <2> QED BY <2>7 DEF q, lu
<1>6. CASE lu.type # "SVC"
  <2>1. q = <<Request(p)>>
    BY <1>6 DEF NotesOf
  <2> HIDE DEF is, q, Request, word, lu
  <2>2. DOMAIN q = {1} /\ q[1] = Request(p)
    BY <2>1
  <2>3. q[1].type = word /\ Key(q[1].path) = Key(p)
    BY <1>1, <1>2, <2>2
  <2>4. \A k \in DOMAIN q : q[k].type = word
    BY <2>2, <2>3
  <2>5. \A k \in DOMAIN q : Wants(q[k]) = enabled /\ (q[k].type = "A_DISABLE" => enabled = FALSE)
    BY <1>4, <2>4, Zenon
  <2>6. Announced(q, d.manifest, lu, p, enabled)
    BY <1>6, <2>2, <2>3, <2>5 DEF Announced
  <2> QED BY <2>6 DEF q, lu
<1> QED BY <1>5, <1>6

\* Two lists with the same names
LEMMA SameFinds ==
  ASSUME NEW a, NEW b, DOMAIN b = DOMAIN a,
         \A s \in DOMAIN a :
           /\ b[s].path = a[s].path /\ DOMAIN b[s].insts = DOMAIN a[s].insts
           /\ \A j \in DOMAIN a[s].insts : b[s].insts[j].path = a[s].insts[j].path,
         NEW v, NEW n, NEW s, NEW j, Finds(a, v, n, s, j)
  PROVE  Finds(b, v, n, s, j)
BY DEF Finds

\* The look-up of an instance, and what it finds
LEMMA LookUpFinds ==
  ASSUME NEW d, NEW l, StoreOK(d, l), NEW p,
         db_lookup_path_merged(d, p).type # "SVC", db_lookup_path_merged(d, p).i # 0
  PROVE  LET lu == db_lookup_path_merged(d, p) IN Finds(d.manifest, p.svc, p.inst, lu.s, lu.i)
<1> DEFINE svcs == d.manifest
           lu == s16db_lookup_path_in_scope(svcs, p)
<1>1. lu = db_lookup_path_merged(d, p)
  BY DEF db_lookup_path_merged
<1>2. IsList(svcs) /\ \A k \in DOMAIN svcs : SvcOK(svcs[k])
  BY DEF StoreOK, Serves
<1> HIDE DEF svcs
<1>3. /\ lu.s # 0 => lu.s \in DOMAIN svcs /\ svcs[lu.s].path.svc = p.svc
      /\ \A k \in DOMAIN svcs : svcs[k].path.svc = p.svc => lu.s # 0 /\ k <= lu.s
      /\ lu.type \in {"SVC", "INSTANCE"} /\ (lu.type = "INSTANCE" <=> lu.s # 0 /\ p.inst # NULL)
      /\ lu.type = "INSTANCE" =>
           /\ lu.i # 0 => /\ lu.i \in DOMAIN svcs[lu.s].insts
                          /\ svcs[lu.s].insts[lu.i].path.inst = p.inst
           /\ \A k \in DOMAIN svcs[lu.s].insts :
                svcs[lu.s].insts[k].path.inst = p.inst => lu.i # 0 /\ k <= lu.i
  BY <1>2, LookedUp
<1> HIDE DEF lu
<1>4. lu.type # "SVC" /\ lu.i # 0
  BY <1>1
<1>5. Finds(svcs, p.svc, p.inst, lu.s, lu.i)
  BY <1>3, <1>4 DEF Finds
<1> QED BY <1>1, <1>5 DEF svcs

LEMMA FoundAt ==
  ASSUME NEW d, NEW l, StoreOK(d, l), NEW v, NEW n, NEW s, NEW j, Finds(d.manifest, v, n, s, j)
  PROVE  LET lu == db_lookup_path_merged(d, S16PathNew(v, n))
         IN  lu.type = "INSTANCE" /\ lu.s = s /\ lu.i = j
<1> DEFINE svcs == d.manifest
           p == S16PathNew(v, n)
           lu == s16db_lookup_path_in_scope(svcs, p)
<1>1. lu = db_lookup_path_merged(d, p)
  BY DEF db_lookup_path_merged
<1>2. IsList(svcs) /\ \A k \in DOMAIN svcs : SvcOK(svcs[k])
  BY DEF StoreOK, Serves
<1>3. p.svc = v /\ p.inst = n
  BY DEF S16PathNew
<1> HIDE DEF svcs, p
<1>4. Finds(svcs, v, n, s, j)
  BY DEF svcs
<1>5. /\ s \in DOMAIN svcs /\ svcs[s].path.svc = v
      /\ \A k \in DOMAIN svcs : svcs[k].path.svc = v => k <= s
      /\ j \in DOMAIN svcs[s].insts /\ svcs[s].insts[j].path.inst = n
      /\ \A k \in DOMAIN svcs[s].insts : svcs[s].insts[k].path.inst = n => k <= j
  BY <1>4 DEF Finds
<1>6. /\ lu.s # 0 => lu.s \in DOMAIN svcs /\ svcs[lu.s].path.svc = v
      /\ \A k \in DOMAIN svcs : svcs[k].path.svc = v => lu.s # 0 /\ k <= lu.s
      /\ lu.type = "INSTANCE" <=> lu.s # 0 /\ n # NULL
      /\ lu.type = "INSTANCE" =>
           /\ lu.i # 0 => /\ lu.i \in DOMAIN svcs[lu.s].insts
                          /\ svcs[lu.s].insts[lu.i].path.inst = n
           /\ \A k \in DOMAIN svcs[lu.s].insts :
                svcs[lu.s].insts[k].path.inst = n => lu.i # 0 /\ k <= lu.i
  BY <1>2, <1>3, LookedUp
<1> HIDE DEF lu
<1>7. /\ DOMAIN svcs = 1 .. Len(svcs) /\ Len(svcs) \in Nat /\ n # NULL
      /\ DOMAIN svcs[s].insts = 1 .. Len(svcs[s].insts) /\ Len(svcs[s].insts) \in Nat
  BY <1>2, <1>5, LongerList DEF SvcOK, InstOK
<1>8. lu.s = s
  <2>1. lu.s # 0 /\ s <= lu.s
    BY <1>5, <1>6
  <2>2. lu.s \in DOMAIN svcs /\ lu.s <= s
    BY <1>5, <1>6, <2>1
  <2> QED BY <1>5, <1>7, <2>1, <2>2
<1>9. lu.type = "INSTANCE"
  BY <1>5, <1>6, <1>7
<1>10. lu.i = j
  <2>1. lu.i # 0 /\ j <= lu.i
    BY <1>5, <1>6, <1>8, <1>9
  <2>2. lu.i \in DOMAIN svcs[s].insts /\ lu.i <= j
    BY <1>5, <1>6, <1>8, <1>9, <2>1
  <2> QED BY <1>5, <1>7, <2>1, <2>2
<1> QED BY <1>1, <1>8, <1>9, <1>10 DEF p

\* A request leaves the flags of other instances alone ...
LEMMA FlagKept ==
  ASSUME NEW d, NEW l, StoreOK(d, l), NEW p, Found(db_lookup_path_merged(d, p)),
         NEW enabled \in BOOLEAN, NEW v, NEW n, NEW b, HasFlag(d.manifest, v, n, b),
         \A k \in DOMAIN NotesOf(d, p, enabled) : Key(NotesOf(d, p, enabled)[k].path) # <<v, n>>
  PROVE  HasFlag(SetFlags(d, p, enabled).manifest, v, n, b)
<1> DEFINE lu  == db_lookup_path_merged(d, p)
           q   == NotesOf(d, p, enabled)
           old == d.manifest
           new == SetFlags(d, p, enabled).manifest
<1>1. Flagged(old, new, lu, enabled)
  BY FlagsSet
<1>2. Announced(q, old, lu, p, enabled)
  BY NotesAbout
<1>3. lu.type # "SVC" => Finds(old, p.svc, p.inst, lu.s, lu.i)
  BY LookUpFinds DEF Found
<1>4. \A s \in DOMAIN old : SvcOK(old[s])
  BY DEF StoreOK, Serves
<1>5. \A k \in DOMAIN q : Key(q[k].path) # <<v, n>>
  OBVIOUS
<1>6. PICK s \in DOMAIN old : \E j \in DOMAIN old[s].insts :
        Finds(old, v, n, s, j) /\ old[s].insts[j].enabled = b
  BY DEF HasFlag
<1>7. PICK j \in DOMAIN old[s].insts : Finds(old, v, n, s, j) /\ old[s].insts[j].enabled = b
  BY <1>6
<1> HIDE DEF lu, q, old, new
<1>8. Finds(new, v, n, s, j)
  BY <1>1, <1>7, SameFinds DEF Flagged
<1>9. old[s].insts[j].path.svc = v /\ old[s].insts[j].path.inst = n /\ old[s].path.svc = v
  BY <1>4, <1>7 DEF Finds, SvcOK
<1>10. s # lu.s \/ (lu.type # "SVC" /\ j # lu.i)
  <2>1. ASSUME s = lu.s, lu.type = "SVC" PROVE FALSE
    <3>1. Key(q[j].path) = Key(old[s].insts[j].path) /\ j \in DOMAIN q
      BY <1>2, <1>7, <2>1 DEF Announced
    <3>2. Key(old[s].insts[j].path) = <<v, n>>
      BY <1>9 DEF Key
    <3> QED BY <1>5, <3>1, <3>2
  <2>2. ASSUME s = lu.s, lu.type # "SVC", j = lu.i PROVE FALSE
    <3>1. p.svc = v /\ p.inst = n
      BY <1>3, <1>9, <2>2 DEF Finds
    <3>2. 1 \in DOMAIN q /\ Key(q[1].path) = <<v, n>>
      BY <1>2, <2>2, <3>1 DEF Key, Announced
    <3> QED BY <1>5, <3>2
  <2> QED BY <2>1, <2>2
<1>11. new[s].insts[j].enabled = b
  BY <1>1, <1>7, <1>10 DEF Flagged
<1>12. HasFlag(new, v, n, b)
  BY <1>1, <1>8, <1>11 DEF HasFlag, Flagged
<1> QED BY <1>12 DEF new

\* ... and sets those of the instances that it queues notes for, to what the notes
\* say unless it is one to enable a service.
LEMMA FlagSet ==
  ASSUME NEW d, NEW l, StoreOK(d, l), NEW p, Found(db_lookup_path_merged(d, p)),
         NEW enabled \in BOOLEAN, NEW k \in DOMAIN NotesOf(d, p, enabled),
         p.inst # NULL \/ NotesOf(d, p, enabled)[k].type = "A_DISABLE"
  PROVE  LET n == NotesOf(d, p, enabled)[k]
         IN  HasFlag(SetFlags(d, p, enabled).manifest, n.path.svc, n.path.inst, Wants(n))
<1> DEFINE lu  == db_lookup_path_merged(d, p)
           q   == NotesOf(d, p, enabled)
           old == d.manifest
           new == SetFlags(d, p, enabled).manifest
           v   == q[k].path.svc
           n   == q[k].path.inst
<1>1. Flagged(old, new, lu, enabled)
  BY FlagsSet
<1>2. Announced(q, old, lu, p, enabled)
  BY NotesAbout
<1>3. lu.type # "SVC" => Finds(old, p.svc, p.inst, lu.s, lu.i)
  BY LookUpFinds DEF Found
<1>4. IsList(old) /\ \A s \in DOMAIN old : SvcOK(old[s])
  BY DEF StoreOK, Serves
<1>5. k \in DOMAIN q /\ (p.inst # NULL \/ q[k].type = "A_DISABLE")
  OBVIOUS
<1>6. lu.type = "SVC" => lu.s # 0
  BY DEF Found
<1>7. /\ lu.s # 0 => lu.s \in DOMAIN old /\ old[lu.s].path.svc = p.svc
      /\ lu.type = "INSTANCE" <=> lu.s # 0 /\ p.inst # NULL
  BY <1>4, LookedUp DEF db_lookup_path_merged
<1>8. Key(q[k].path) = <<v, n>>
  BY DEF Key
<1>9. \A a, b, e, f : <<a, b>> = <<e, f>> => a = e /\ b = f
  OBVIOUS
<1> HIDE DEF lu, q, old, new, v, n
<1>10. CASE lu.type # "SVC"
  <2>1. Key(q[k].path) = <<p.svc, p.inst>>
    BY <1>2, <1>5, <1>10 DEF Announced, Key
  <2>2. v = p.svc /\ n = p.inst
    BY <1>8, <1>9, <2>1
  <2>3. Finds(old, v, n, lu.s, lu.i)
    BY <1>3, <1>10, <2>2
  <2>4. Finds(new, v, n, lu.s, lu.i)
    BY <1>1, <2>3, SameFinds DEF Flagged
  <2>5. new[lu.s].insts[lu.i].enabled = enabled
    BY <1>1, <1>10, <2>3 DEF Flagged, Finds
  <2>6. Wants(q[k]) = enabled
    BY <1>2, <1>5 DEF Announced
  <2>7. HasFlag(new, v, n, Wants(q[k]))
    BY <2>4, <2>5, <2>6 DEF HasFlag, Finds
  <2> QED BY <2>7 DEF new, v, n, q
<1>11. CASE lu.type = "SVC"
  <2> DEFINE is == old[lu.s].insts
  <2>1. lu.s \in DOMAIN old /\ old[lu.s].path.svc = p.svc /\ p.inst = NULL
    BY <1>6, <1>7, <1>11
  <2>2. enabled = FALSE /\ Wants(q[k]) = FALSE
    <3>1. q[k].type = "A_DISABLE"
      BY <1>5, <2>1
    <3>2. enabled = FALSE
      BY <1>2, <1>5, <3>1 DEF Announced
    <3>3. Wants(q[k]) = enabled
      BY <1>2, <1>5 DEF Announced
    <3> QED BY <3>2, <3>3, Zenon
  <2>3. k \in DOMAIN is /\ Key(q[k].path) = <<is[k].path.svc, is[k].path.inst>>
    BY <1>2, <1>5, <1>11 DEF Announced, Key
  <2>4. v = is[k].path.svc /\ n = is[k].path.inst
    BY <1>8, <1>9, <2>3
  <2>5. v = old[lu.s].path.svc /\ v = p.svc /\ n # NULL /\ is[k].path.inst = n
    BY <1>4, <2>1, <2>3, <2>4 DEF SvcOK, InstOK
  <2>6. PICK j : Finds(old, v, n, lu.s, j)
    <3> DEFINE r == S16PathNew(v, n)
               lv == db_lookup_path_merged(d, r)
    <3>1. r.svc = v /\ r.inst = n
      BY DEF S16PathNew
    <3>2. /\ lv.s # 0 => lv.s \in DOMAIN old /\ old[lv.s].path.svc = v
          /\ \A s \in DOMAIN old : old[s].path.svc = v => lv.s # 0 /\ s <= lv.s
          /\ lv.type = "INSTANCE" <=> lv.s # 0 /\ n # NULL
          /\ lv.type = "INSTANCE" =>
               \A i \in DOMAIN old[lv.s].insts :
                 old[lv.s].insts[i].path.inst = n => lv.i # 0 /\ i <= lv.i
      <4> HIDE DEF r
      <4> QED BY <1>4, <3>1, LookedUp DEF db_lookup_path_merged, old
    <3>3. \A s \in DOMAIN old : old[s].path.svc = v => s <= lu.s
      BY <1>4, <2>5, LookedUp DEF db_lookup_path_merged, old, lu
    <3>4. lv.s = lu.s
      <4>1. DOMAIN old = 1 .. Len(old) /\ Len(old) \in Nat
        BY <1>4, LongerList
      <4>2. lv.s # 0 /\ lu.s <= lv.s
        BY <2>1, <2>5, <3>2
      <4>3. lv.s \in DOMAIN old /\ lv.s <= lu.s
        BY <3>2, <3>3, <4>2
      <4> HIDE DEF lv
      <4> QED BY <2>1, <4>1, <4>2, <4>3
    <3>5. lv.type = "INSTANCE" /\ lv.i # 0
      BY <1>6, <1>11, <2>3, <2>5, <3>2, <3>4
    <3>6. Finds(old, v, n, lv.s, lv.i)
      <4> HIDE DEF r
      <4> QED BY <3>1, <3>5, LookUpFinds DEF old
    <3> HIDE DEF lv
    <3> QED BY <3>4, <3>6
  <2>7. Finds(new, v, n, lu.s, j)
    BY <1>1, <2>6, SameFinds DEF Flagged
  <2>8. new[lu.s].insts[j].enabled = FALSE
    BY <1>1, <1>11, <2>6 DEF Flagged, Finds
  <2>9. new[lu.s].insts[j].enabled = Wants(q[k])
    BY <2>2, <2>8, Zenon
  <2>10. HasFlag(new, v, n, Wants(q[k]))
    BY <2>7, <2>9 DEF HasFlag, Finds
  <2> QED BY <2>10 DEF new, v, n, q
<1> QED BY <1>10, <1>11

\* The import of another service does nothing to a flag.
LEMMA FlagHidden ==
  ASSUME NEW d, NEW l, StoreOK(d, l), NEW v, NEW n, NEW b, HasFlag(d.manifest, v, n, b),
         NEW svc, svc.path.svc # v, NEW junk
  PROVE  HasFlag(db_import(d, svc, junk).manifest, v, n, b)
<1> DEFINE old == d.manifest
           new == Append(old, svc)
<1>1. db_import(d, svc, junk).manifest = new
  BY DEF db_import
<1>2. IsList(old)
  BY DEF StoreOK, Serves
<1>3. /\ Len(old) \in Nat /\ DOMAIN old = 1 .. Len(old) /\ DOMAIN new = 1 .. Len(old) + 1
      /\ \A k \in 1 .. Len(old) : new[k] = old[k]
      /\ new[Len(old) + 1] = svc
  BY <1>2, LongerList
<1>4. PICK s \in DOMAIN old : \E j \in DOMAIN old[s].insts :
        Finds(old, v, n, s, j) /\ old[s].insts[j].enabled = b
  BY DEF HasFlag
<1>5. PICK j \in DOMAIN old[s].insts : Finds(old, v, n, s, j) /\ old[s].insts[j].enabled = b
  BY <1>4
<1> HIDE DEF old, new
<1>6. new[s] = old[s] /\ s \in DOMAIN new
  BY <1>3
<1>7. \A k \in DOMAIN new : new[k].path.svc = v => k <= s
  <2> SUFFICES ASSUME NEW k \in DOMAIN new, new[k].path.svc = v PROVE k <= s
    OBVIOUS
  <2>1. k # Len(old) + 1
    BY <1>3
  <2>2. k \in DOMAIN old /\ new[k] = old[k]
    BY <1>3, <2>1
  <2> QED BY <1>5, <2>2 DEF Finds
<1>8. Finds(new, v, n, s, j)
  BY <1>5, <1>6, <1>7 DEF Finds
<1>9. HasFlag(new, v, n, b)
  BY <1>5, <1>6, <1>8 DEF HasFlag
<1> QED BY <1>1, <1>9

\* A request: the flags of the instances it is about are set, and what was
\* settled about the others is so still.
LEMMA RequestFlags ==
  ASSUME NEW d, NEW l, StoreOK(d, l), IsList(l.requests), FlagsOK(d, l),
         NEW p, Found(db_lookup_path_merged(d, p)), NEW enabled \in BOOLEAN,
         NEW q, q = NotesOf(d, p, enabled), NEW x, x = [k \in DOMAIN q |-> x[k]],
         \A k \in DOMAIN q : x[k].note = q[k] /\ x[k].path = p
  PROVE  FlagsOK(SetFlags(d, p, enabled), [l EXCEPT !.requests = @ \o x])
<1> DEFINE r == l.requests
           w == r \o x
           new == SetFlags(d, p, enabled)
           t == [l EXCEPT !.requests = r \o x]
<1>1. IsList(q)
  BY NotesMade
<1>2. t.requests = w /\ t.imports = l.imports
  BY DEF StoreOK
<1>3. ASSUME NEW k \in DOMAIN q, p.inst # NULL \/ q[k].type = "A_DISABLE"
      PROVE  HasFlag(new.manifest, q[k].path.svc, q[k].path.inst, Wants(q[k]))
  BY <1>3, FlagSet
<1>4. ASSUME NEW v, NEW n, NEW b, HasFlag(d.manifest, v, n, b),
             \A k \in DOMAIN q : Key(q[k].path) # <<v, n>>
      PROVE  HasFlag(new.manifest, v, n, b)
  BY <1>4, FlagKept
<1> HIDE DEF new
<1>5. x = [k \in DOMAIN q |-> x[k]] /\ \A k \in DOMAIN q : x[k].note = q[k] /\ x[k].path = p
  OBVIOUS
<1>6. /\ IsList(x) /\ Len(x) = Len(q) /\ DOMAIN q = 1 .. Len(q) /\ Len(q) \in Nat
      /\ Len(r) \in Nat /\ DOMAIN r = 1 .. Len(r)
  BY <1>1, <1>5, ListShape, LongerList
<1>7. /\ DOMAIN w = 1 .. Len(r) + Len(q)
      /\ \A i \in 1 .. Len(r) + Len(q) : w[i] = IF i <= Len(r) THEN r[i] ELSE x[i - Len(r)]
  <2>1. DOMAIN w = 1 .. Len(r) + Len(x) /\ Joins(w, r, x)
    BY <1>6, JoinedLists
  <2> HIDE DEF w
  <2> QED BY <1>6, <2>1 DEF Joins
<1> HIDE DEF w, t
<1>8. \A i \in DOMAIN r : i \in DOMAIN w /\ w[i] = r[i]
  BY <1>6, <1>7
<1>9. \A k \in DOMAIN q : Len(r) + k \in DOMAIN w /\ w[Len(r) + k] = x[k]
  <2> SUFFICES ASSUME NEW k \in DOMAIN q
               PROVE  Len(r) + k \in DOMAIN w /\ w[Len(r) + k] = x[k]
    OBVIOUS
  <2>1. Len(r) + k \in 1 .. Len(r) + Len(q) /\ ~(Len(r) + k <= Len(r)) /\ (Len(r) + k) - Len(r) = k
    BY <1>6
  <2> QED BY <1>7, <2>1
<1>10. ASSUME NEW n \in DOMAIN w, Settled(n, t)
       PROVE  HasFlag(new.manifest, w[n].note.path.svc, w[n].note.path.inst, Wants(w[n].note))
  <2>1. /\ \A h \in DOMAIN w : h > n => Key(w[h].note.path) # Key(w[n].note.path)
        /\ \A k \in DOMAIN l.imports :
             ~(l.imports[k].path.svc = w[n].note.path.svc /\ l.imports[k].at >= n)
        /\ w[n].path.inst # NULL \/ w[n].note.type = "A_DISABLE"
    BY <1>2, <1>10 DEF Settled
  <2>2. CASE n \in DOMAIN r
    <3> DEFINE v == r[n].note.path.svc
               i == r[n].note.path.inst
    <3>1. w[n] = r[n]
      BY <1>8, <2>2
    <3>2. Settled(n, l)
      BY <1>8, <2>1, <3>1 DEF Settled
    <3>3. HasFlag(d.manifest, v, i, Wants(r[n].note))
      BY <2>2, <3>2 DEF FlagsOK
    <3>4. Key(r[n].note.path) = <<v, i>>
      BY DEF Key
    <3>5. ASSUME NEW k \in DOMAIN q
          PROVE  Key(q[k].path) # <<v, i>>
      <4>1. Len(r) + k > n /\ Len(r) + k \in DOMAIN w /\ w[Len(r) + k].note = q[k]
        BY <1>5, <1>6, <1>9, <2>2
      <4> QED BY <2>1, <3>1, <3>4, <4>1
    <3> HIDE DEF v, i
    <3>6. HasFlag(new.manifest, v, i, Wants(r[n].note))
      BY <1>4, <3>3, <3>5
    <3> QED BY <3>1, <3>6 DEF v, i
  <2>3. CASE n \notin DOMAIN r
    <3>1. PICK k \in DOMAIN q : n = Len(r) + k
      <4>1. n - Len(r) \in DOMAIN q /\ n = Len(r) + (n - Len(r))
        BY <1>6, <1>7, <2>3
      <4> QED BY <4>1
    <3>2. w[n].note = q[k] /\ w[n].path = p
      BY <1>5, <1>9, <3>1
    <3> QED BY <1>3, <2>1, <3>2
  <2> QED BY <2>2, <2>3
<1>11. FlagsOK(new, t)
  BY <1>2, <1>10 DEF FlagsOK
<1> QED BY <1>11 DEF new, t

\* An import settles nothing, and unsettles what was asked for its own service.
LEMMA ImportFlags ==
  ASSUME NEW d, NEW l, StoreOK(d, l), IsList(l.requests), FlagsOK(d, l), NEW svc, NEW junk,
         NEW e, e.path.svc = svc.path.svc, e.at = Len(l.requests)
  PROVE  FlagsOK(db_import(d, svc, junk), [l EXCEPT !.imports = Append(@, e)])
<1> DEFINE new == db_import(d, svc, junk)
           imports == Append(l.imports, e)
           t == [l EXCEPT !.imports = imports]
           r == l.requests
<1>1. t.requests = r /\ t.imports = imports /\ IsList(l.imports)
  BY DEF StoreOK
<1>2. /\ Len(l.imports) \in Nat /\ DOMAIN l.imports = 1 .. Len(l.imports)
      /\ DOMAIN imports = 1 .. Len(l.imports) + 1
      /\ \A k \in 1 .. Len(l.imports) : imports[k] = l.imports[k]
      /\ imports[Len(l.imports) + 1] = e
  BY <1>1, LongerList
<1>3. Len(r) \in Nat /\ DOMAIN r = 1 .. Len(r)
  BY LongerList
<1> HIDE DEF t, imports
<1>4. ASSUME NEW n \in DOMAIN r, Settled(n, t)
      PROVE  HasFlag(new.manifest, r[n].note.path.svc, r[n].note.path.inst, Wants(r[n].note))
  <2>1. /\ \A h \in DOMAIN r : h > n => Key(r[h].note.path) # Key(r[n].note.path)
        /\ \A k \in DOMAIN imports :
             ~(imports[k].path.svc = r[n].note.path.svc /\ imports[k].at >= n)
        /\ r[n].path.inst # NULL \/ r[n].note.type = "A_DISABLE"
    BY <1>1, <1>4 DEF Settled
  <2>2. svc.path.svc # r[n].note.path.svc
    <3>1. Len(l.imports) + 1 \in DOMAIN imports /\ e.at >= n
      BY <1>2, <1>3
    <3> QED BY <1>2, <2>1, <3>1
  <2>3. \A k \in DOMAIN l.imports : k \in DOMAIN imports /\ imports[k] = l.imports[k]
    BY <1>2
  <2>4. Settled(n, l)
    BY <2>1, <2>3 DEF Settled
  <2>5. HasFlag(d.manifest, r[n].note.path.svc, r[n].note.path.inst, Wants(r[n].note))
    BY <2>4 DEF FlagsOK
  <2> QED BY <2>2, <2>5, FlagHidden
<1>5. FlagsOK(new, t)
  <2> HIDE DEF new
  <2> QED BY <1>1, <1>4 DEF FlagsOK
<1> QED BY <1>5 DEF new, t, imports

\* What a request does to the flags
LEMMA HandledFlags ==
  ASSUME StoreOK(db, log), IsList(log.requests), FlagsOK(db, log), NEW c \in Client,
         NEW m \in {GetAll, Subscribe} \cup Requests(c), NEW o \in Outcomes(m), ~Unknown(m)
  PROVE  FlagsOK(o.db, Logged(m, o.notes))
<1>1. CASE m = GetAll
  <2>1. o.db = db /\ Logged(m, o.notes) = log
    BY <1>1 DEF GetAll, Logged, Outcomes, handle_get_all_services_merged, Outcome
  <2> QED BY <2>1
<1>2. CASE m = Subscribe
  <2>1. o.db = db /\ Logged(m, o.notes) = log
    BY <1>2 DEF Subscribe, Logged, Outcomes, Outcome
  <2> QED BY <2>1
<1>3. ASSUME NEW en \in BOOLEAN, NEW txt \in Paths, m = SetEnabled(en, txt)
      PROVE  FlagsOK(o.db, Logged(m, o.notes))
  <2> DEFINE p == s16db_string_to_path(m.param)
             b == (m.method = "enable")
             q == NotesOf(db, p, b)
             x == [k \in DOMAIN q |-> [path |-> p, note |-> q[k]]]
  <2>1. m.method \in {"enable", "disable"} /\ b \in BOOLEAN
    BY <1>3 DEF SetEnabled
  <2>2. o = handle_disable(db, m.param, b)
    BY <2>1 DEF Outcomes
  <2>3. o.notes = q /\ o.db = SetFlags(db, p, b)
    BY <2>2 DEF handle_disable, Outcome
  <2>4. Found(db_lookup_path_merged(db, p))
    BY <2>1 DEF Unknown
  <2>5. Logged(m, q) = [log EXCEPT !.requests = @ \o x]
    BY <2>1, Zenon DEF Logged
  <2>6. /\ q = NotesOf(db, p, b) /\ x = [k \in DOMAIN q |-> x[k]]
        /\ \A k \in DOMAIN q : x[k].note = q[k] /\ x[k].path = p
    <3> HIDE DEF p, b
    <3> QED OBVIOUS
  <2> HIDE DEF p, b, q, x
  <2>7. FlagsOK(SetFlags(db, p, b), [log EXCEPT !.requests = @ \o x])
    BY <2>1, <2>4, <2>6, RequestFlags
  <2> QED BY <2>3, <2>5, <2>7, Zenon
<1>4. ASSUME NEW f \in Manifests, m = Import(f)
      PROVE  FlagsOK(o.db, Logged(m, o.notes))
  <2>1. m.method = "import-service"
    BY <1>4 DEF Import
  <2>2. o \in handle_import_service(db, m.param)
    BY <2>1 DEF Outcomes
  <2>3. CASE ~svc_converts(m.param)
    <3>1. o.db = db /\ Logged(m, o.notes) = log
      BY <2>1, <2>2, <2>3 DEF handle_import_service, Logged, Outcome
    <3> QED BY <3>1
  <2>4. CASE svc_converts(m.param)
    <3> DEFINE svc == s16db_ucl_to_svc(m.param)
               e == [path |-> s16db_string_to_path(m.param["path"]), file |-> m.file,
                     at |-> Len(log.requests)]
    <3>1. PICK junk : o = Outcome(db_import(db, svc, junk), <<>>, 0)
      BY <2>2, <2>4, Zenon DEF handle_import_service
    <3>2. Logged(m, o.notes) = [log EXCEPT !.imports = Append(@, e)]
      BY <2>1, <2>4 DEF Logged
    <3>3. e.path.svc = svc.path.svc /\ e.at = Len(log.requests)
      BY DEF s16db_ucl_to_svc
    <3>4. o.db = db_import(db, svc, junk)
      BY <3>1 DEF Outcome
    <3> HIDE DEF svc, e
    <3>5. FlagsOK(db_import(db, svc, junk), [log EXCEPT !.imports = Append(@, e)])
      BY <3>3, ImportFlags
    <3> QED BY <3>2, <3>4, <3>5
  <2> QED BY <2>3, <2>4
<1>5. ASSUME NEW txt \in Paths, m = GetPath(txt)
      PROVE  FlagsOK(o.db, Logged(m, o.notes))
  <2>1. m.method = "get-path-merged" /\ Logged(m, o.notes) = log
    BY <1>5 DEF GetPath, Logged
  <2>2. o = handle_get_path_merged(db, m.param)
    BY <2>1 DEF Outcomes
  <2>3. o.db = db
    BY <2>2 DEF handle_get_path_merged, Outcome
  <2> QED BY <2>1, <2>3
<1> QED BY <1>1, <1>2, <1>3, <1>4, <1>5, WhatIsAsked

\* A client that has carried out nothing, and one that carries out a note
LEMMA NoView ==
  ASSUME NEW k, k.got = <<>>
  PROVE  ViewOK(k)
<1>1. <<>> \in Seq({}) /\ DOMAIN <<>> = {}
  OBVIOUS
<1>2. IsList(<<>>)
  BY <1>1, SeqIsList
<1> QED BY <1>1, <1>2 DEF ViewOK

LEMMA ViewMore ==
  ASSUME NEW k, ViewOK(k), NEW n, NEW l, l.got = Append(k.got, n),
         l.view = [k.view EXCEPT ![Key(n.path)] = Wants(n)]
  PROVE  ViewOK(l)
<1> DEFINE a == k.got
           b == Append(a, n)
<1>1. IsList(a)
  BY DEF ViewOK
<1>2. /\ IsList(b) /\ Len(a) \in Nat /\ DOMAIN a = 1 .. Len(a) /\ DOMAIN b = 1 .. Len(a) + 1
      /\ \A j \in 1 .. Len(a) : b[j] = a[j]
      /\ b[Len(a) + 1] = n
  BY <1>1, LongerList
<1>3. l.got = b
  OBVIOUS
<1>4. DOMAIN l.view = DOMAIN k.view
  OBVIOUS
<1> HIDE DEF a, b
<1>5. ASSUME NEW j \in DOMAIN b, \A h \in DOMAIN b : h > j => Key(b[h].path) # Key(b[j].path),
             Key(b[j].path) \in DOMAIN l.view
      PROVE  l.view[Key(b[j].path)] = Wants(b[j])
  <2>1. CASE j = Len(a) + 1
    <3>1. b[j] = n
      BY <1>2, <2>1
    <3> QED BY <1>4, <1>5, <3>1
  <2>2. CASE j # Len(a) + 1
    <3>1. j \in DOMAIN a /\ b[j] = a[j] /\ Len(a) + 1 > j /\ Len(a) + 1 \in DOMAIN b
      BY <1>2, <2>2
    <3>2. Key(n.path) # Key(a[j].path)
      BY <1>2, <1>5, <3>1
    <3>3. \A h \in DOMAIN a : h > j => Key(a[h].path) # Key(a[j].path)
      BY <1>2, <1>5, <3>1
    <3>4. k.view[Key(a[j].path)] = Wants(a[j])
      BY <1>4, <1>5, <3>1, <3>3 DEF ViewOK, a
    <3>5. l.view[Key(a[j].path)] = k.view[Key(a[j].path)]
      BY <1>4, <1>5, <3>1, <3>2
    <3> QED BY <3>1, <3>4, <3>5
  <2> QED BY <2>1, <2>2
<1> QED BY <1>2, <1>3, <1>5 DEF ViewOK

\* A step of a client
LEMMA ClientAgree ==
  ASSUME NotesInv, AgreeInv, NEW c \in Client, Own(c)
  PROVE  AgreeInv'
<1> DEFINE k == clnt[c]
           l == clnt'[c]
<1>1. UNCHANGED <<db, log>> /\ Elsewhere(c) /\ QuietOK(k) /\ ViewOK(k)
  BY DEF Own, NotesInv, AgreeInv
<1>2. ViewOK(l)
  <2>1. CASE Begins(c) \/ Takes(c)
    <3>1. l.got = k.got /\ l.view = k.view
      BY <2>1 DEF Begins, Takes, Kept
    <3> QED BY <1>1, <3>1 DEF ViewOK
  <2>2. CASE Resumes(c)
    <3>1. k.pc = "wait" /\ l.got = k.got
      BY <2>2 DEF Resumes, Kept
    <3> HIDE DEF k, l
    <3>2. l.got = <<>>
      BY <1>1, <3>1 DEF QuietOK
    <3> QED BY <3>2, NoView
  <2>3. CASE Processes(c)
    <3> DEFINE n == k.note[1]
    <3>1. l.got = Append(k.got, n) /\ l.view = [k.view EXCEPT ![Key(n.path)] = Wants(n)]
      BY <2>3 DEF Processes
    <3> HIDE DEF k, l, n
    <3> QED BY <1>1, <3>1, ViewMore
  <2>4. CASE Ends(c)
    <3>1. PICK end \in {"done", "gone"} : l = Fresh(end)
      BY <2>4 DEF Ends
    <3>2. l.got = <<>>
      BY <3>1 DEF Fresh
    <3> HIDE DEF l
    <3> QED BY <3>2, NoView
  <2> QED BY <2>1, <2>2, <2>3, <2>4 DEF Own
<1>3. \A d \in Client \ {c} : ViewOK(clnt'[d])
  BY <1>1 DEF AgreeInv, Elsewhere
<1> QED BY <1>1, <1>2, <1>3 DEF AgreeInv

\* A request is handled.
LEMMA HandleAgree ==
  ASSUME Inv, DataInv, NotesInv, AgreeInv, Handle
  PROVE  AgreeInv'
<1> DEFINE c == srv.who
           m == Head(up[c])
<1>1. c \in Client /\ clnt[c].pc = "wait" /\ m = clnt[c].call
  BY HandledCall
<1>2. /\ clnt' = IF m.method = "subscribe" THEN [clnt EXCEPT ![c].since = Len(log.requests)] ELSE clnt
      /\ ~Unknown(m)
  BY DEF Handle
<1>3. PICK o \in Outcomes(m) : db' = o.db /\ log' = Logged(m, o.notes)
  BY Zenon DEF Handle
<1>4. HoldsOK(c, link[c], down[c], clnt[c], log.imports)
  BY <1>1 DEF DataInv
<1>5. m \in {GetAll, Subscribe} \cup Requests(c)
  BY <1>1, <1>4 DEF HoldsOK
<1>6. StoreOK(db, log) /\ IsList(log.requests) /\ FlagsOK(db, log)
  BY DEF DataInv, NotesInv, QueueOK, AgreeInv
<1> HIDE DEF c, m
<1>7. FlagsOK(db', log')
  <2>1. FlagsOK(o.db, Logged(m, o.notes))
    BY <1>1, <1>2, <1>3, <1>5, <1>6, HandledFlags
  <2> QED BY <1>3, <2>1
<1>8. ASSUME NEW d \in Client
      PROVE  ViewOK(clnt'[d])
  <2>1. ViewOK(clnt[d])
    BY DEF AgreeInv
  <2>2. CASE clnt' = clnt
    BY <2>1, <2>2
  <2>3. CASE clnt' = [clnt EXCEPT ![c].since = Len(log.requests)]
    <3>1. clnt'[d].got = clnt[d].got /\ clnt'[d].view = clnt[d].view
      BY <1>1, <1>4, <2>3 DEF Inv, Shapes, HoldsOK, IsFull
    <3> QED BY <2>1, <3>1 DEF ViewOK
  <2> QED BY <1>2, <2>2, <2>3
<1> QED BY <1>7, <1>8 DEF AgreeInv

\* Nothing has been asked for.
LEMMA NoFlags ==
  ASSUME NEW d
  PROVE  FlagsOK(d, NoLog)
<1>1. NoLog.requests = <<>> /\ DOMAIN <<>> = {}
  BY DEF NoLog
<1> QED BY <1>1 DEF FlagsOK

\* The steps
LEMMA NextAgree ==
  ASSUME Inv, DataInv, NotesInv, AgreeInv, Next
  PROVE  AgreeInv'
<1>1. CASE Ended
  <2>1. log' = NoLog /\ clnt' = clnt
    BY <1>1 DEF Ended
  <2>2. FlagsOK(db', log')
    BY <2>1, NoFlags
  <2> QED BY <2>1, <2>2 DEF AgreeInv
<1>2. CASE UNCHANGED <<db, log, clnt>>
  BY <1>2 DEF AgreeInv
<1>3. CASE Start \/ StartFails
  BY <1>2, <1>3 DEF Start, StartFails
<1>4. CASE Interrupt
  BY <1>1, <1>4 DEF Interrupt
<1>5. CASE Event \/ HandleNothing \/ NextNote \/ Tell \/ Told
  BY <1>2, <1>5 DEF Event, Accept, Readable, Eof, HandleNothing, NextNote, Tell, Told
<1>6. CASE Handle
  BY <1>6, HandleAgree
<1>7. CASE HandleDies \/ TellDies
  BY <1>1, <1>7 DEF HandleDies, TellDies, Die
<1>8. CASE Serve
  BY <1>5, <1>6, <1>7, <1>8 DEF Serve
<1>9. ASSUME NEW c \in Client, Work(c) \/ Begin(c) \/ Quit(c) \/ Kill(c)
      PROVE  AgreeInv'
  BY <1>9, OwnSteps, ClientAgree DEF DataInv, HoldsOK
<1> QED BY <1>3, <1>4, <1>8, <1>9 DEF Next

\* The invariant holds of every behaviour.
LEMMA AgreeHolds == Spec => []AgreeInv
<1>1. Init => AgreeInv
  <2> SUFFICES ASSUME Init PROVE AgreeInv
    OBVIOUS
  <2>1. log = NoLog /\ clnt = [c \in Client |-> Fresh("off")]
    BY DEF Init
  <2>2. \A c \in Client : clnt[c].got = <<>>
    BY <2>1 DEF Fresh
  <2> QED BY <2>1, <2>2, NoFlags, NoView DEF AgreeInv
<1>2. Inv /\ DataInv /\ NotesInv /\ AgreeInv /\ [Next]_vars => AgreeInv'
  <2>1. ASSUME AgreeInv, UNCHANGED vars PROVE AgreeInv'
    BY <2>1 DEF AgreeInv, vars
  <2> QED BY <2>1, NextAgree
<1> QED BY <1>1, <1>2, InvHolds, DataHolds, NotesHold, PTL DEF Spec

\* graphd has nothing left to carry out when configd waits for an event.
LEMMA AllCarriedOut ==
  ASSUME Inv, NotesInv, srv.pc = "kevent", NEW c \in Subscribers, clnt[c].pc = "loop"
  PROVE  /\ clnt[c].got = Since(clnt[c], log.requests)
         /\ clnt[c].since \in 0 .. Len(log.requests)
<1> DEFINE k == clnt[c]
           r == log.requests
<1>1. c \in Client /\ link[c] = "open" /\ Listens(c, srv, link[c], k)
  BY DEF Subscribers, Listens, Alive, Living
<1>2. Complete(c, srv, down[c], k, r) /\ QuietOK(k) /\ QueueOK(srv, r)
  BY <1>1 DEF NotesInv
<1>3. ConnectionOK(c, srv, link[c], up[c], down[c], k) /\ ServerOK(srv)
  BY <1>1 DEF Inv
<1> HIDE DEF k, r
<1>4. down[c] = <<>>
  BY <1>1, <1>3 DEF ConnectionOK, Waits, k
<1>5. k.note = <<>> /\ Coming(down[c]) = <<>>
  BY <1>2, <1>4, ComingShort DEF QuietOK, k
<1>6. Due(srv, c) = <<>>
  <2>1. srv.todo = <<>> /\ srv.notes = <<>>
    BY <1>3 DEF ServerOK
  <2> QED BY <1>2, <2>1, NobodyDue
<1>7. /\ k.got \in Seq(Queued(r)) /\ k.since \in 0 .. Len(r)
      /\ k.got \o <<>> \o <<>> \o <<>> = Since(k, r)
  BY <1>2, <1>5, <1>6, Zenon DEF Complete
<1>8. k.got \o <<>> = k.got
  BY <1>7, Pieces
<1> QED BY <1>7, <1>8, Zenon DEF k, r

(* Agree, for any number of clients, services and instances: when configd waits
   for an event and graphd has carried out what it was told, the flag that
   db_set_enabled has left in the repository and the flag that graph_process_note
   has left in the graph are the same, for every instance whose last request
   was one for itself or to disable its service and whose service has not been
   imported since. *)
THEOREM FlagsAgree == Spec => []Agree
<1>1. Inv /\ DataInv /\ NotesInv /\ AgreeInv => Agree
  <2> SUFFICES ASSUME Inv, DataInv, NotesInv, AgreeInv, srv.pc = "kevent",
                      NEW c \in Subscribers, clnt[c].pc = "loop", NEW i \in DOMAIN clnt[c].view,
                      LastRequest(c, i) # 0,
                      \/ log.requests[LastRequest(c, i)].path.inst # NULL
                      \/ log.requests[LastRequest(c, i)].note.type = "A_DISABLE"
               PROVE  LET lu == db_lookup_path_merged(db, S16PathNew(i[1], i[2]))
                      IN  clnt[c].view[i] = db.manifest[lu.s].insts[lu.i].enabled
    BY Zenon DEF Agree
  <2> DEFINE k == clnt[c]
             r == log.requests
             about == {h \in k.since + 1 .. Len(r) : Key(r[h].note.path) = i}
             last == Max(about \cup {0})
             note == r[last].note
             v == note.path.svc
             n == note.path.inst
  <2>1. /\ c \in Client /\ IsList(r) /\ StoreOK(db, log) /\ FlagsOK(db, log) /\ ViewOK(k)
        /\ k.got = Since(k, r) /\ k.since \in 0 .. Len(r)
    BY AllCarriedOut DEF Subscribers, NotesInv, QueueOK, DataInv, AgreeInv
  <2>2. LastRequest(c, i) =
          IF \E e \in ToSet(log.imports) : e.path.svc = i[1] /\ e.at >= last THEN 0 ELSE last
    BY Zenon DEF LastRequest
  <2>3. /\ last # 0 /\ LastRequest(c, i) = last
        /\ \A e \in ToSet(log.imports) : ~(e.path.svc = i[1] /\ e.at >= last)
    BY <2>2, Zenon
  <2>4. r[last].path.inst # NULL \/ note.type = "A_DISABLE"
    BY <2>3, Zenon
  <2>5. Len(r) \in Nat /\ DOMAIN r = 1 .. Len(r)
    BY <2>1, LongerList
  <2>6. last \in about /\ \A h \in about : h <= last
    <3> DEFINE T == about \cup {0}
    <3>1. T \subseteq 0 .. Len(r) /\ T # {}
      BY <2>1, <2>5
    <3>2. Max(T) \in T /\ \A h \in T : h <= Max(T)
      <4> HIDE DEF T
      <4> QED BY <2>5, <3>1, Greatest
    <3> HIDE DEF about
    <3> QED BY <2>3, <3>2
  <2> HIDE DEF k, r
  <2>7. /\ last \in k.since + 1 .. Len(r) /\ Key(note.path) = i
        /\ \A h \in k.since + 1 .. Len(r) : Key(r[h].note.path) = i => h <= last
    <3> HIDE DEF last
    <3> QED BY <2>6
  <2> HIDE DEF last, about
  <2>8. last \in DOMAIN r /\ \A h \in DOMAIN r : h > last => Key(r[h].note.path) # i
    BY <2>1, <2>5, <2>7
  <2>9. i[1] = v /\ i[2] = n /\ i = <<v, n>>
    BY <2>7 DEF Key
  <2>10. k.view[i] = Wants(note)
    <3> DEFINE j == last - k.since
    <3>1. /\ DOMAIN k.got = 1 .. Len(r) - k.since
          /\ \A h \in DOMAIN k.got : k.got[h] = r[k.since + h].note
      BY <2>1 DEF Since
    <3>2. j \in DOMAIN k.got /\ k.since + j = last
      BY <2>1, <2>5, <2>7, <3>1
    <3>3. k.got[j] = note
      BY <3>1, <3>2
    <3>4. ASSUME NEW h \in DOMAIN k.got, h > j
          PROVE  Key(k.got[h].path) # i
      <4>1. k.since + h \in DOMAIN r /\ k.since + h > last
        BY <2>1, <2>5, <2>7, <3>1, <3>4
      <4> QED BY <2>8, <3>1, <4>1
    <3>5. i \in DOMAIN k.view /\ Key(k.got[j].path) = i
      BY <2>7, <3>3 DEF k
    <3> HIDE DEF j
    <3> QED BY <2>1, <3>2, <3>3, <3>4, <3>5 DEF ViewOK
  <2>11. HasFlag(db.manifest, v, n, Wants(note))
    <3>1. ASSUME NEW h \in DOMAIN log.imports
          PROVE  ~(log.imports[h].path.svc = v /\ log.imports[h].at >= last)
      BY <2>3, <2>9 DEF ToSet
    <3>2. Settled(last, log)
      BY <2>4, <2>7, <2>8, <3>1 DEF Settled, r
    <3> QED BY <2>1, <2>8, <3>2 DEF FlagsOK, r
  <2>12. PICK s \in DOMAIN db.manifest : \E j \in DOMAIN db.manifest[s].insts :
           Finds(db.manifest, v, n, s, j) /\ db.manifest[s].insts[j].enabled = Wants(note)
    BY <2>11 DEF HasFlag
  <2>13. PICK j \in DOMAIN db.manifest[s].insts :
           Finds(db.manifest, v, n, s, j) /\ db.manifest[s].insts[j].enabled = Wants(note)
    BY <2>12
  <2> DEFINE lu == db_lookup_path_merged(db, S16PathNew(i[1], i[2]))
  <2>14. lu.s = s /\ lu.i = j
    BY <2>1, <2>9, <2>13, FoundAt
  <2> HIDE DEF lu, note
  <2>15. k.view[i] = db.manifest[lu.s].insts[lu.i].enabled
    BY <2>10, <2>13, <2>14
  <2> QED BY <2>15 DEF k, lu
<1> QED BY <1>1, InvHolds, DataHolds, NotesHold, AgreeHolds, PTL

=============================================================================
