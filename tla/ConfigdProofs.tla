---------------------------- MODULE ConfigdProofs ----------------------------
(***************************************************************************)
(* Proofs about module Configd, for any number of clients, whatever they   *)
(* import and ask for.                                                     *)
(***************************************************************************)
EXTENDS Configd, SequenceTheorems, TLAPS

-----------------------------------------------------------------------------
(* The invariant. *)

\* configd has c on a list of subscribers, or waits for its answer.
Sub(s, c)   == c \in ToSet(s.subs) \cup ToSet(s.todo)
Waits(s, c) == s.pc = "reply" /\ Head(s.todo) = c

\* Nobody is on the list twice.
NoDup(list) == \A i, j \in 1 .. Len(list) : list[i] = list[j] => i = j

\* A record has the fields it should have, whatever is in them.
IsServer(s) == {"pc", "who", "subs", "notes", "hand", "todo"} \subseteq DOMAIN s
IsClient(k) == {"pc", "call", "count", "note"} \subseteq DOMAIN k

(* configd itself. *)
ServerOK(s) ==
  /\ IsServer(s)
  /\ s.pc \in {"down", "kevent", "recv", "notify", "reply"}
  /\ s.who \in Client \cup {NoClient}
  /\ s.pc = "recv" => s.who \in Client
  /\ s.subs \in Seq(Client) /\ s.todo \in Seq(Client) /\ NoDup(s.subs)
  /\ s.hand = <<>> \/ s.hand = <<s.hand[1]>>
  /\ s.todo # <<>> => s.hand # <<>> /\ s.pc \in {"notify", "reply"}
  /\ s.pc = "reply" => s.todo # <<>>
  /\ s.pc = "kevent" => s.notes = <<>>

(* A client k that is a run c of its program: where it is in the sequence of
   calls its program makes. *)
ProgramOK(c, k) ==
  /\ IsClient(k)
  /\ k.pc \in {"off", "ready", "half", "wait", "loop", "process", "done", "gone"}
  /\ k.count \in 0 .. MaxCalls[c] + 2
  /\ k.pc = "off" => k.count = 0
  /\ k.pc = "process" => k.note = <<k.note[1]>>
  /\ k.pc = "done" => Program[c] # "graphd"
  /\ k.pc = "ready" => k.count <= MaxCalls[c] + 1 /\ (Program[c] = "graphd" => k.count <= 1)
  /\ k.pc \in {"half", "wait"} =>
       \/ k.count = 0 /\ k.call = GetAll
       \/ k.count = 1 /\ k.call = Subscribe /\ Program[c] = "graphd"
       \/ k.count <= MaxCalls[c] /\ k.call.method # "subscribe" /\ Program[c] # "graphd"

Living(k) == k.pc \notin {"off", "done", "gone"}

(* A connection in state l that carries u up and d down, between configd s and
   the client k: what may be on it for the positions of its two ends. *)
ConnectionOK(c, s, l, u, d, k) ==
  /\ u = <<>> \/ u = <<u[1]>>
  /\ l \in {"none", "closed"} => u = <<>>
  /\ ~Living(k) => d = <<>>
  /\ k.pc = "off" => l = "none"
  /\ l = "none" => ~Living(k)
  /\ k.pc = "done" => u = <<>>
  /\ s.pc = "recv" /\ s.who = c => l = "open"
  \* A subscriber has called subscribe, and will see the reply before any note.
  /\ Sub(s, c) =>
       /\ l = "open" /\ Program[c] = "graphd"
       /\ Living(k) => \/ k.pc \in {"loop", "process"}
                       \/ k.pc = "wait" /\ k.call = Subscribe /\ d # <<>> /\ u = <<>>
  \* Upwards there is the one call, or the answer configd waits for.
  /\ Living(k) /\ u # <<>> =>
       \/ k.pc = "wait" /\ u = <<k.call>> /\ d = <<>>
       \/ k.pc \in {"loop", "process"} /\ u = <<Noted>> /\ d = <<>> /\ Waits(s, c)
  /\ Waits(s, c) => u \in {<<>>, <<Noted>>}
  \* Downwards there is the one reply, and after it at most the note that
  \* configd waits for an answer to, or did when it ended.
  /\ k.pc \in {"ready", "half"} => d = <<>>
  /\ k.pc = "wait" /\ d # <<>> =>
       /\ u = <<>>
       /\ d[1].kind = "reply" /\ d[1].re = k.call
       /\ \/ d = <<d[1]>>
          \/ /\ d = <<d[1], d[2]>> /\ d[2].kind = "notify" /\ k.call = Subscribe
             /\ l = "closed" \/ Waits(s, c)
  /\ k.pc \in {"loop", "process"} /\ d # <<>> =>
       /\ u = <<>>
       /\ d = <<d[1]>> /\ d[1].kind = "notify"
       /\ l = "closed" \/ Waits(s, c)

Shapes ==
  /\ link \in [Client -> {"none", "backlog", "open", "closed"}]
  /\ DOMAIN up = Client /\ DOMAIN down = Client /\ DOMAIN clnt = Client

(* The inductive invariant. *)
Inv ==
  /\ ServerOK(srv)
  /\ path \in BOOLEAN /\ starts \in 0 .. MaxStarts
  /\ Shapes
  /\ \A c \in Client :
       ProgramOK(c, clnt[c]) /\ ConnectionOK(c, srv, link[c], up[c], down[c], clnt[c])

-----------------------------------------------------------------------------
(* Sequences. *)

\* Queues of at most two messages
LEMMA Short ==
  ASSUME NEW a, NEW b
  PROVE  /\ Append(<<>>, a) = <<a>> /\ Append(<<a>>, b) = <<a, b>>
         /\ Head(<<a>>) = a /\ Head(<<a, b>>) = a
         /\ Tail(<<a>>) = <<>> /\ Tail(<<a, b>>) = <<b>>
         /\ <<a>> # <<>> /\ <<a, b>> # <<>> /\ <<a>>[1] = a /\ <<a, b>>[1] = a /\ <<a, b>>[2] = b
<1>1. Append(<<>>, a) = <<a>> /\ Append(<<a>>, b) = <<a, b>>
  <2>1. <<>> \in Seq({a, b}) /\ <<a>> \in Seq({a, b}) /\ <<a, b>> \in Seq({a, b})
    OBVIOUS
  <2>2. Append(<<>>, a) \in Seq({a, b}) /\ Append(<<a>>, b) \in Seq({a, b})
    BY <2>1
  <2>3. Len(Append(<<>>, a)) = 1 /\ Append(<<>>, a)[1] = a
    BY <2>1
  <2>4. Len(Append(<<a>>, b)) = 2 /\ Append(<<a>>, b)[1] = a /\ Append(<<a>>, b)[2] = b
    BY <2>1
  <2>5. Append(<<>>, a) = <<a>>
    BY <2>1, <2>2, <2>3
  <2>6. Append(<<a>>, b) = <<a, b>>
    <3> DEFINE r == Append(<<a>>, b)
    <3>1. /\ r \in Seq({a, b}) /\ Len(r) = 2 /\ r[1] = a /\ r[2] = b
      BY <2>2, <2>4
    <3> HIDE DEF r
    <3>2. r \in [1 .. 2 -> {a, b}]
      BY <3>1, LenProperties
    <3>3. \A i \in 1 .. 2 : r[i] = <<a, b>>[i]
      BY <3>1
    <3>4. <<a, b>> \in [1 .. 2 -> {a, b}]
      OBVIOUS
    <3>5. r = <<a, b>>
      BY <3>2, <3>3, <3>4
    <3> QED BY <3>5 DEF r
  <2> QED BY <2>5, <2>6
<1>2. Head(<<a>>) = a /\ Head(<<a, b>>) = a
  OBVIOUS
<1>3. Tail(<<a>>) = <<>> /\ Tail(<<a, b>>) = <<b>>
  OBVIOUS
<1>4. <<a>> # <<>> /\ <<a, b>> # <<>> /\ <<a>>[1] = a /\ <<a, b>>[1] = a /\ <<a, b>>[2] = b
  OBVIOUS
<1> QED BY <1>1, <1>2, <1>3, <1>4

\* Nobody is subscribed.
LEMMA EmptyList == <<>> \in Seq(Client) /\ NoDup(<<>>) /\ ToSet(<<>>) = {}
<1>1. <<>> \in Seq(Client) /\ Len(<<>>) = 0
  OBVIOUS
<1>2. 1 .. 0 = {}
  OBVIOUS
<1>3. ToSet(<<>>) = {}
  BY DEF ToSet
<1> QED BY <1>1, <1>2, <1>3 DEF NoDup

\* Lists of subscribers
LEMMA Lists ==
  ASSUME NEW q \in Seq(Client), NEW c \in Client
  PROVE  /\ ToSet(<<>>) = {} /\ ToSet(q) \subseteq Client
         /\ Append(q, c) \in Seq(Client) /\ ToSet(Append(q, c)) = ToSet(q) \cup {c}
         /\ NoDup(q) /\ c \notin ToSet(q) => NoDup(Append(q, c))
         /\ q # <<>> => /\ Head(q) \in ToSet(q) /\ Tail(q) \in Seq(Client)
                        /\ ToSet(Tail(q)) \subseteq ToSet(q)
<1>1. ToSet(<<>>) = {} /\ ToSet(q) \subseteq Client
  BY DEF ToSet
<1>2. Append(q, c) \in Seq(Client) /\ ToSet(Append(q, c)) = ToSet(q) \cup {c}
  <2>1. /\ Append(q, c) \in Seq(Client) /\ DOMAIN Append(q, c) = 1 .. Len(q) + 1
        /\ DOMAIN q = 1 .. Len(q) /\ Len(q) \in Nat
        /\ \A i \in 1 .. Len(q) : Append(q, c)[i] = q[i]
        /\ Append(q, c)[Len(q) + 1] = c
    OBVIOUS
  <2>2. ASSUME NEW x \in ToSet(Append(q, c))
        PROVE  x \in ToSet(q) \cup {c}
    <3>1. PICK i \in 1 .. Len(q) + 1 : x = Append(q, c)[i]
      BY <2>1 DEF ToSet
    <3>2. CASE i = Len(q) + 1
      BY <2>1, <3>1, <3>2
    <3>3. CASE i \in 1 .. Len(q)
      BY <2>1, <3>1, <3>3 DEF ToSet
    <3> QED BY <2>1, <3>2, <3>3
  <2>3. ASSUME NEW x \in ToSet(q) \cup {c}
        PROVE  x \in ToSet(Append(q, c))
    <3>1. CASE x = c
      <4>1. Len(q) + 1 \in DOMAIN Append(q, c)
        BY <2>1
      <4> QED BY <2>1, <3>1, <4>1 DEF ToSet
    <3>2. CASE x \in ToSet(q)
      <4>1. PICK i \in 1 .. Len(q) : x = q[i]
        BY <2>1, <3>2 DEF ToSet
      <4>2. i \in DOMAIN Append(q, c)
        BY <2>1
      <4> QED BY <2>1, <4>1, <4>2 DEF ToSet
    <3> QED BY <3>1, <3>2
  <2> QED BY <2>1, <2>2, <2>3
<1>3. NoDup(q) /\ c \notin ToSet(q) => NoDup(Append(q, c))
  BY DEF ToSet, NoDup
<1>4. q # <<>> => /\ Head(q) \in ToSet(q) /\ Tail(q) \in Seq(Client)
                  /\ ToSet(Tail(q)) \subseteq ToSet(q)
  BY DEF ToSet
<1> QED BY <1>1, <1>2, <1>3, <1>4

\* A subscriber that is on the list once is not on it any more.
LEMMA Unlisted ==
  ASSUME NEW c \in Client, srv.subs \in Seq(Client), NoDup(srv.subs)
  PROVE  /\ Unsubscribed(c) \in Seq(Client) /\ NoDup(Unsubscribed(c))
         /\ ToSet(Unsubscribed(c)) \subseteq ToSet(srv.subs) \ {c}
<1> DEFINE q == srv.subs
           I == {i \in 1 .. Len(q) : q[i] = c}
           k == SelectLastInSeq(q, LAMBDA x : x = c)
<1>1. k = IF I # {} THEN Max(I) ELSE 0
  BY DEF SelectLastInSeq
<1>2. CASE I = {}
  <2>1. Unsubscribed(c) = q
    BY <1>1, <1>2 DEF Unsubscribed
  <2>2. c \notin ToSet(q)
    BY <1>2 DEF ToSet
  <2> QED BY <2>1, <2>2
<1>3. CASE I # {}
  <2>1. PICK n \in 1 .. Len(q) : q[n] = c
    BY <1>3
  <2>2. I = {n}
    BY <2>1 DEF NoDup
  <2>3. Max(I) = n
    BY <2>1, <2>2 DEF Max
  <2>4. Unsubscribed(c) = SubSeq(q, 1, n - 1) \o SubSeq(q, n + 1, Len(q))
    <3>1. Unsubscribed(c) = IF k = 0 THEN q ELSE RemoveAt(q, k)
      BY Zenon DEF Unsubscribed
    <3>2. k = n /\ n # 0
      BY <1>1, <1>3, <2>1, <2>3
    <3> HIDE DEF k, q
    <3> QED BY <3>1, <3>2 DEF RemoveAt
  <2> DEFINE r == SubSeq(q, 1, n - 1) \o SubSeq(q, n + 1, Len(q))
             a == SubSeq(q, 1, n - 1)
             b == SubSeq(q, n + 1, Len(q))
  <2>5. /\ a \in Seq(Client) /\ Len(a) = n - 1 /\ \A i \in 1 .. n - 1 : a[i] = q[i]
        /\ b \in Seq(Client) /\ Len(b) = Len(q) - n
        /\ \A i \in 1 .. Len(q) - n : b[i] = q[n + i]
    <3>1. \A i \in 1 .. n - 1 : q[i] \in Client
      BY <2>1
    <3>2. \A i \in n + 1 .. Len(q) : q[i] \in Client
      BY <2>1
    <3>3. /\ a \in Seq(Client) /\ Len(a) = n - 1 /\ \A i \in 1 .. n - 1 : a[i] = q[i]
      BY <2>1, <3>1, SubSeqProperties
    <3>4. /\ b \in Seq(Client) /\ Len(b) = Len(q) - n
          /\ \A i \in 1 .. Len(q) - n : b[i] = q[n + i]
      BY <2>1, <3>2, SubSeqProperties
    <3> QED BY <3>3, <3>4
  <2>6. /\ r \in Seq(Client) /\ Len(r) = Len(q) - 1
        /\ \A i \in 1 .. Len(r) : r[i] = IF i < n THEN q[i] ELSE q[i + 1]
    <3>1. r = a \o b
      OBVIOUS
    <3> HIDE DEF a, b, r
    <3>2. /\ r \in Seq(Client) /\ Len(r) = Len(a) + Len(b)
          /\ \A i \in 1 .. Len(a) + Len(b) : r[i] = IF i <= Len(a) THEN a[i] ELSE b[i - Len(a)]
      BY <2>5, <3>1, ConcatProperties
    <3> QED BY <2>1, <2>5, <3>2
  <2> HIDE DEF r
  <2>7. NoDup(r)
    BY <2>1, <2>6 DEF NoDup
  <2>8. ToSet(r) \subseteq ToSet(q) \ {c}
    <3>1. ASSUME NEW i \in 1 .. Len(r)
          PROVE  r[i] \in ToSet(q) /\ r[i] # c
      BY <2>1, <2>6 DEF NoDup, ToSet
    <3> QED BY <2>6, <3>1 DEF ToSet
  <2> QED BY <2>4, <2>6, <2>7, <2>8 DEF r
<1> QED BY <1>2, <1>3

-----------------------------------------------------------------------------
(* The steps of a client. *)

\* configd waits for nobody but a subscriber.
LEMMA WaitsForSubscriber ==
  ASSUME NEW s, ServerOK(s), NEW c \in Client, Waits(s, c)
  PROVE  Sub(s, c)
BY Lists DEF ServerOK, Waits, Sub

\* What belongs to the other clients is as it was.
Elsewhere(c) ==
  \A d \in Client \ {c} :
    link'[d] = link[d] /\ up'[d] = up[d] /\ down'[d] = down[d] /\ clnt'[d] = clnt[d]

\* A step of one client is fine if its own connection is.
LEMMA ClientStep ==
  ASSUME Inv, NEW c \in Client, Elsewhere(c), Shapes',
         srv' = srv, path' = path, starts' = starts,
         ProgramOK(c, clnt'[c]),
         ConnectionOK(c, srv, link'[c], up'[c], down'[c], clnt'[c])
  PROVE  Inv'
<1>1. ASSUME NEW d \in Client
      PROVE  ProgramOK(d, clnt'[d]) /\ ConnectionOK(d, srv', link'[d], up'[d], down'[d], clnt'[d])
  BY DEF Inv, Elsewhere
<1> QED BY <1>1 DEF Inv

\* The end of a client leaves what it has written to configd.
LEMMA LeaveStep ==
  ASSUME Inv, NEW c \in Client, NEW end \in {"done", "gone"}, Leave(c, end),
         end = "done" => Program[c] # "graphd" /\ up[c] = <<>>
  PROVE  Inv'
<1> DEFINE k == Fresh(end)
<1>1. k.pc = end /\ k.count = 0 /\ IsClient(k)
  BY DEF Fresh, IsClient
<1>2. clnt' = [clnt EXCEPT ![c] = k] /\ down' = [down EXCEPT ![c] = <<>>]
  BY DEF Leave
<1>3. UNCHANGED <<srv, path, starts, link, up>>
  BY DEF Leave
<1> HIDE DEF k
<1>4. clnt'[c] = k /\ down'[c] = <<>> /\ Elsewhere(c) /\ Shapes'
  BY <1>2, <1>3 DEF Inv, Shapes, Elsewhere
<1>5. ProgramOK(c, k)
  BY <1>1, ConfigdAssumption DEF ProgramOK
<1>6. ConnectionOK(c, srv, link[c], up[c], <<>>, k)
  BY <1>1 DEF Inv, ConnectionOK, Living
<1> QED BY <1>3, <1>4, <1>5, <1>6, ClientStep

\* A new connection carries nothing.
LEMMA ConnectStep ==
  ASSUME Inv, NEW c \in Client, Connect(c)
  PROVE  Inv'
<1>1. /\ clnt[c].pc = "off" /\ ProgramOK(c, clnt[c])
      /\ ConnectionOK(c, srv, link[c], up[c], down[c], clnt[c])
  BY DEF Inv, Connect
<1>2. clnt' = [clnt EXCEPT ![c].pc = "ready"] /\ link' = [link EXCEPT ![c] = "backlog"]
  BY DEF Connect
<1>3. UNCHANGED <<srv, path, starts, up, down>>
  BY DEF Connect
<1> DEFINE k == clnt'[c]
<1>4. k.pc = "ready" /\ k.count = clnt[c].count /\ IsClient(k)
  BY <1>1, <1>2 DEF Inv, Shapes, ProgramOK, IsClient
<1>5. link'[c] = "backlog" /\ Elsewhere(c) /\ Shapes'
  BY <1>2, <1>3 DEF Inv, Shapes, Elsewhere
<1> HIDE DEF k
<1>6. ProgramOK(c, k)
  BY <1>1, <1>4, ConfigdAssumption DEF ProgramOK
<1>7. ConnectionOK(c, srv, "backlog", up[c], down[c], k)
  BY <1>1, <1>4 DEF ConnectionOK, Living
<1> QED BY <1>3, <1>5, <1>6, <1>7, ClientStep DEF k

\* A call is one that the program makes at this point.
LEMMA CallStep ==
  ASSUME Inv, NEW c \in Client, NEW m \in NextCalls(c), Call(c, m)
  PROVE  Inv'
<1>1. /\ clnt[c].pc = "ready" /\ ProgramOK(c, clnt[c])
      /\ ConnectionOK(c, srv, link[c], up[c], down[c], clnt[c])
  BY DEF Inv, Call
<1>2. clnt' = [clnt EXCEPT ![c].pc = "half", ![c].call = m]
  BY DEF Call
<1>3. UNCHANGED <<srv, path, starts, link, up, down>>
  BY DEF Call, queues
<1> DEFINE k == clnt'[c]
<1>4. k.pc = "half" /\ k.call = m /\ k.count = clnt[c].count /\ IsClient(k)
  BY <1>1, <1>2 DEF Inv, Shapes, ProgramOK, IsClient
<1>5. Elsewhere(c) /\ Shapes'
  BY <1>2, <1>3 DEF Inv, Shapes, Elsewhere
<1>6. \/ k.count = 0 /\ m = GetAll
      \/ k.count = 1 /\ m = Subscribe /\ Program[c] = "graphd"
      \/ k.count <= MaxCalls[c] /\ m.method # "subscribe" /\ Program[c] # "graphd"
  <2> HIDE DEF k
  <2>1. CASE clnt[c].count = 0
    BY <1>4, <2>1 DEF NextCalls
  <2>2. CASE clnt[c].count # 0 /\ Program[c] = "graphd"
    <3>1. m = Subscribe
      BY <2>2 DEF NextCalls
    <3>2. clnt[c].count = 1
      BY <1>1, <2>2, ConfigdAssumption DEF ProgramOK
    <3> QED BY <1>4, <2>2, <3>1, <3>2
  <2>3. CASE clnt[c].count # 0 /\ Program[c] # "graphd"
    <3>1. ~(clnt[c].count > MaxCalls[c]) /\ m \in Requests(c)
      BY <2>3 DEF NextCalls
    <3>2. clnt[c].count <= MaxCalls[c]
      BY <1>1, <3>1, ConfigdAssumption DEF ProgramOK
    <3>3. m.method # "subscribe"
      BY <3>1 DEF Requests, SetEnabled, Import, GetPath
    <3> QED BY <1>4, <2>3, <3>2, <3>3
  <2> QED BY <2>1, <2>2, <2>3
<1> HIDE DEF k
<1>7. ProgramOK(c, k)
  BY <1>1, <1>4, <1>6, ConfigdAssumption DEF ProgramOK
<1>8. ConnectionOK(c, srv, link[c], up[c], down[c], k)
  BY <1>1, <1>4 DEF ConnectionOK, Living
<1> QED BY <1>3, <1>5, <1>7, <1>8, ClientStep DEF k

\* The call is the only thing on the way to configd.
LEMMA WriteStep ==
  ASSUME Inv, NEW c \in Client, Write(c)
  PROVE  Inv'
<1>1. /\ clnt[c].pc = "half" /\ link[c] # "closed" /\ ProgramOK(c, clnt[c])
      /\ ConnectionOK(c, srv, link[c], up[c], down[c], clnt[c])
  BY DEF Inv, Write
<1>2. clnt' = [clnt EXCEPT ![c].pc = "wait"] /\ up' = [up EXCEPT ![c] = Append(@, clnt[c].call)]
  BY DEF Write
<1>3. UNCHANGED <<srv, path, starts, link, down>>
  BY DEF Write
<1> DEFINE k == clnt'[c]
<1>4. k.pc = "wait" /\ k.call = clnt[c].call /\ k.count = clnt[c].count /\ IsClient(k)
  BY <1>1, <1>2 DEF Inv, Shapes, ProgramOK, IsClient
<1>5. Elsewhere(c) /\ Shapes'
  BY <1>2, <1>3 DEF Inv, Shapes, Elsewhere
<1> HIDE DEF k
<1>6. up[c] = <<>> /\ down[c] = <<>>
  BY <1>1 DEF ConnectionOK, Living
<1>7. up'[c] = <<k.call>>
  BY <1>2, <1>4, <1>6, Short DEF Inv, Shapes
<1>8. ProgramOK(c, k)
  BY <1>1, <1>4 DEF ProgramOK
<1>9. link[c] # "none" /\ ~Sub(srv, c) /\ ~Waits(srv, c)
  BY <1>1, WaitsForSubscriber DEF ConnectionOK, Living, Inv
<1>10. ConnectionOK(c, srv, link[c], <<k.call>>, <<>>, k)
  BY <1>1, <1>4, <1>9, Short DEF ConnectionOK, Living
<1> QED BY <1>3, <1>5, <1>6, <1>7, <1>8, <1>10, ClientStep DEF k

\* recv_reply: the reply is taken, and what is left is a note to a subscriber.
LEMMA ResumeStep ==
  ASSUME Inv, NEW c \in Client, clnt[c].pc = "wait", down[c] # <<>>,
         NEW p, IsClient(p), p.count = clnt[c].count, p.pc \in {"ready", "loop"},
         p.pc = "loop" <=> clnt[c].call = Subscribe,
         Resume(c, p)
  PROVE  Inv'
<1>1. ProgramOK(c, clnt[c]) /\ ConnectionOK(c, srv, link[c], up[c], down[c], clnt[c])
  BY DEF Inv
<1>2. /\ clnt' = [clnt EXCEPT ![c] = [p EXCEPT !.count = @ + 1, !.call = NoCall]]
      /\ down' = [down EXCEPT ![c] = Tail(@)]
  BY DEF Resume
<1>3. UNCHANGED <<srv, path, starts, link, up>>
  BY DEF Resume
<1> DEFINE k == [p EXCEPT !.count = @ + 1, !.call = NoCall]
<1>4. k.pc = p.pc /\ k.count = clnt[c].count + 1 /\ IsClient(k)
  BY DEF IsClient
<1> HIDE DEF k
<1>5. clnt'[c] = k /\ down'[c] = Tail(down[c]) /\ Elsewhere(c) /\ Shapes'
  BY <1>2, <1>3 DEF Inv, Shapes, Elsewhere, k
<1>6. GetAll # Subscribe /\ Subscribe.method = "subscribe"
  BY DEF GetAll, Subscribe
<1>7. ProgramOK(c, k)
  <2>1. MaxCalls[c] \in Nat /\ clnt[c].count \in Nat
    BY <1>1, ConfigdAssumption DEF ProgramOK
  <2>2. CASE p.pc = "loop"
    <3>1. clnt[c].count = 1
      BY <1>1, <1>6, <2>2 DEF ProgramOK
    <3> QED BY <1>4, <2>1, <2>2, <3>1 DEF ProgramOK
  <2>3. CASE p.pc = "ready"
    <3>1. clnt[c].count <= MaxCalls[c] /\ (Program[c] = "graphd" => clnt[c].count = 0)
      BY <1>1, <1>6, <2>1, <2>3 DEF ProgramOK
    <3> QED BY <1>4, <2>1, <2>3, <3>1 DEF ProgramOK
  <2> QED BY <2>2, <2>3
<1>8. /\ up[c] = <<>>
      /\ \/ down[c] = <<down[c][1]>>
         \/ /\ down[c] = <<down[c][1], down[c][2]>> /\ down[c][2].kind = "notify"
            /\ clnt[c].call = Subscribe /\ (link[c] = "closed" \/ Waits(srv, c))
  BY <1>1 DEF ConnectionOK
<1>9. ConnectionOK(c, srv, link[c], up[c], Tail(down[c]), k)
  <2>1. CASE down[c] = <<down[c][1]>>
    <3>1. \A x : Tail(<<x>>) = <<>>
      BY Short
    <3>2. Tail(down[c]) = <<>>
      BY <2>1, <3>1, Zenon
    <3> QED BY <1>1, <1>4, <1>8, <3>2 DEF ConnectionOK, Living
  <2>2. CASE /\ down[c] = <<down[c][1], down[c][2]>> /\ down[c][2].kind = "notify"
             /\ clnt[c].call = Subscribe /\ (link[c] = "closed" \/ Waits(srv, c))
    <3> DEFINE n == down[c][2]
    <3>1. \A x, y : Tail(<<x, y>>) = <<y>>
      <4>1. ASSUME NEW x, NEW y PROVE Tail(<<x, y>>) = <<y>>
        OBVIOUS
      <4> QED BY <4>1, Zenon
    <3>2. Tail(down[c]) = <<n>>
      BY <2>2, <3>1, Zenon
    <3>3. n.kind = "notify"
      BY <2>2
    <3> HIDE DEF n
    <3>4. <<n>>[1] = n
      BY Short
    <3> QED BY <1>1, <1>4, <1>8, <2>2, <3>2, <3>3, <3>4 DEF ConnectionOK, Living
  <2> QED BY <1>8, <2>1, <2>2
<1> QED BY <1>3, <1>5, <1>7, <1>9, ClientStep

\* A waiting client that finds a message finds the reply to its own call.
LEMMA ReplyIsOwn ==
  ASSUME Inv, NEW c \in Client, clnt[c].pc = "wait", down[c] # <<>>
  PROVE  /\ Head(down[c]) = down[c][1]
         /\ down[c][1].kind = "reply" /\ down[c][1].re = clnt[c].call
<1>1. ConnectionOK(c, srv, link[c], up[c], down[c], clnt[c])
  BY DEF Inv
<1>2. down[c] = <<down[c][1]>> \/ down[c] = <<down[c][1], down[c][2]>>
  BY <1>1 DEF ConnectionOK
<1>3. Head(down[c]) = down[c][1]
  BY <1>2, Short
<1> QED BY <1>1, <1>3 DEF ConnectionOK

\* The services of s16db_repo_get_all_services_merged have come.
LEMMA GotAllStep ==
  ASSUME Inv, NEW c \in Client, GotAll(c)
  PROVE  Inv'
<1> DEFINE svcs == s16db_ucl_to_svcs(Head(down[c]).result)
           sc   == IF Program[c] \in {"graphd", "svcs"} THEN svcs ELSE <<>>
           vw   == IF Program[c] = "graphd" THEN graph_setup_all(svcs) ELSE <<>>
           p    == [clnt[c] EXCEPT !.pc = "ready", !.scope = sc, !.view = vw]
<1>1. /\ clnt[c].pc = "wait" /\ down[c] # <<>>
      /\ Head(down[c]).re.method = "get-all-services-merged"
  BY DEF GotAll, Receives
<1>2. Resume(c, p)
  BY DEF GotAll
<1>3. clnt[c].call # Subscribe
  BY <1>1, ReplyIsOwn DEF Subscribe
<1> HIDE DEF sc, vw
<1>4. IsClient(p) /\ p.pc = "ready" /\ p.count = clnt[c].count
  BY DEF Inv, ProgramOK, IsClient
<1> HIDE DEF p
<1> QED BY <1>1, <1>2, <1>3, <1>4, ResumeStep

\* The answer of s16db_repo_get_path_merged has come.
LEMMA GotPathStep ==
  ASSUME Inv, NEW c \in Client, GotPath(c)
  PROVE  Inv'
<1> DEFINE an == <<Answer(Head(down[c]).result)>>
           p  == [clnt[c] EXCEPT !.pc = "ready", !.answer = an]
<1>1. /\ clnt[c].pc = "wait" /\ down[c] # <<>>
      /\ Head(down[c]).re.method = "get-path-merged"
  BY DEF GotPath, Receives
<1>2. Resume(c, p)
  BY DEF GotPath
<1>3. clnt[c].call # Subscribe
  BY <1>1, ReplyIsOwn DEF Subscribe
<1> HIDE DEF an
<1>4. IsClient(p) /\ p.pc = "ready" /\ p.count = clnt[c].count
  BY DEF Inv, ProgramOK, IsClient
<1> HIDE DEF p
<1> QED BY <1>1, <1>2, <1>3, <1>4, ResumeStep

\* graphd goes on to its loop exactly when it has subscribed.
LEMMA GotResultStep ==
  ASSUME Inv, NEW c \in Client, GotResult(c)
  PROVE  Inv'
<1> DEFINE pc == IF Program[c] = "graphd" /\ clnt[c].count = 1 THEN "loop" ELSE "ready"
           p  == [clnt[c] EXCEPT !.pc = pc]
<1>1. clnt[c].pc = "wait" /\ down[c] # <<>> /\ Head(down[c]).re.method # "get-all-services-merged"
  BY DEF GotResult, Receives
<1>2. Resume(c, p)
  BY DEF GotResult
<1>3. clnt[c].call # GetAll
  BY <1>1, ReplyIsOwn DEF GetAll
<1>4. pc = "loop" <=> clnt[c].call = Subscribe
  BY <1>1, <1>3 DEF Inv, ProgramOK, Subscribe
<1>5. pc \in {"ready", "loop"}
  OBVIOUS
<1> HIDE DEF pc
<1>6. IsClient(p) /\ p.pc = pc /\ p.count = clnt[c].count
  BY DEF Inv, ProgramOK, IsClient
<1> HIDE DEF p
<1> QED BY <1>1, <1>2, <1>4, <1>5, <1>6, ResumeStep

\* graphd answers the note that configd waits for.
LEMMA NotifiedStep ==
  ASSUME Inv, NEW c \in Client, Notified(c)
  PROVE  Inv'
<1> DEFINE note == <<s16db_ucl_to_note(Head(down[c]).note)>>
<1>1. /\ clnt[c].pc = "loop" /\ down[c] # <<>> /\ link[c] # "closed"
      /\ ProgramOK(c, clnt[c]) /\ ConnectionOK(c, srv, link[c], up[c], down[c], clnt[c])
  BY DEF Inv, Notified
<1>2. /\ clnt' = [clnt EXCEPT ![c].pc = "process", ![c].note = note]
      /\ up' = [up EXCEPT ![c] = Append(@, Noted)]
      /\ down' = [down EXCEPT ![c] = Tail(@)]
  BY DEF Notified
<1>3. UNCHANGED <<srv, path, starts, link>>
  BY DEF Notified
<1>4. note = <<note[1]>>
  BY Short
<1> HIDE DEF note
<1> DEFINE k == clnt'[c]
<1>5. k.pc = "process" /\ k.note = note /\ k.count = clnt[c].count /\ IsClient(k)
  BY <1>1, <1>2 DEF Inv, Shapes, ProgramOK, IsClient
<1>6. Elsewhere(c) /\ Shapes'
  BY <1>2, <1>3 DEF Inv, Shapes, Elsewhere
<1> HIDE DEF k
<1>7. up[c] = <<>> /\ down[c] = <<down[c][1]>> /\ Waits(srv, c)
  BY <1>1 DEF ConnectionOK
<1>8. up'[c] = <<Noted>> /\ down'[c] = <<>>
  BY <1>2, <1>7, Short DEF Inv, Shapes
<1>9. ProgramOK(c, k)
  BY <1>1, <1>4, <1>5 DEF ProgramOK
<1>10. Sub(srv, c) /\ link[c] = "open"
  BY <1>1, <1>7, WaitsForSubscriber DEF Inv, ConnectionOK
<1>11. ConnectionOK(c, srv, link[c], <<Noted>>, <<>>, k)
  <2> DEFINE u == <<Noted>>
  <2>1. u = <<u[1]>> /\ u # <<>>
    BY Short
  <2> QED BY <1>1, <1>5, <1>7, <1>10, <2>1 DEF ConnectionOK, Living
<1> QED BY <1>3, <1>6, <1>8, <1>9, <1>11, ClientStep DEF k

\* graph_process_note does not touch the connection.
LEMMA ProcessStep ==
  ASSUME Inv, NEW c \in Client, Process(c)
  PROVE  Inv'
<1>1. /\ clnt[c].pc = "process"
      /\ ProgramOK(c, clnt[c]) /\ ConnectionOK(c, srv, link[c], up[c], down[c], clnt[c])
  BY DEF Inv, Process
<1> DEFINE note == clnt[c].note[1]
           key  == Key(note.path)
           en   == (note.type = "A_ENABLE")
<1>2. clnt' = [clnt EXCEPT ![c].pc = "loop", ![c].note = <<>>, ![c].view[key] = en,
                           ![c].got = Append(@, note)]
  BY DEF Process
<1>3. UNCHANGED <<srv, path, starts, link, up, down>>
  BY DEF Process, queues
<1> HIDE DEF note, key, en
<1> DEFINE k == clnt'[c]
<1>4. k.pc = "loop" /\ k.count = clnt[c].count /\ IsClient(k)
  BY <1>1, <1>2 DEF Inv, Shapes, ProgramOK, IsClient
<1>5. Elsewhere(c) /\ Shapes'
  BY <1>2, <1>3 DEF Inv, Shapes, Elsewhere
<1> HIDE DEF k
<1>6. ProgramOK(c, k)
  BY <1>1, <1>4 DEF ProgramOK
<1>7. ConnectionOK(c, srv, link[c], up[c], down[c], k)
  BY <1>1, <1>4 DEF ConnectionOK, Living
<1> QED BY <1>3, <1>5, <1>6, <1>7, ClientStep DEF k

\* The ways in which a client ends
LEMMA EndStep ==
  ASSUME Inv, NEW c \in Client,
         \/ ConnectFails(c) \/ CallFails(c) \/ PeerGone(c) \/ GotAllFails(c)
         \/ ProcessFails(c) \/ Quit(c) \/ Kill(c)
  PROVE  Inv'
<1>1. CASE Quit(c)
  <2>1. Leave(c, "done") /\ Program[c] # "graphd" /\ clnt[c].pc = "ready"
    BY <1>1 DEF Quit
  <2>2. up[c] = <<>>
    BY <2>1 DEF Inv, ConnectionOK, Living
  <2> QED BY <2>1, <2>2, LeaveStep
<1>2. CASE Leave(c, "gone")
  BY <1>2, LeaveStep
<1> QED BY <1>1, <1>2 DEF ConnectFails, CallFails, PeerGone, GotAllFails, ProcessFails, Kill

-----------------------------------------------------------------------------
(* The steps of configd. *)

\* A connection is fine as long as configd neither begins nor ends to wait for
\* its client, nor takes it for a subscriber.
LEMMA ServerFrame ==
  ASSUME NEW c, NEW s, NEW t, NEW l, NEW u, NEW d, NEW k, ConnectionOK(c, s, l, u, d, k),
         Sub(t, c) => Sub(s, c), Waits(t, c) <=> Waits(s, c),
         t.pc = "recv" /\ t.who = c => l = "open"
  PROVE  ConnectionOK(c, t, l, u, d, k)
BY DEF ConnectionOK

\* main goes back to waiting or on with the notes.
LEMMA LoopServer ==
  ASSUME NEW s, IsServer(s)
  PROVE  /\ IsServer(Loop(s)) /\ Loop(s).who = s.who /\ Loop(s).subs = s.subs
         /\ Loop(s).notes = s.notes /\ Loop(s).todo = s.todo
         /\ \/ /\ Loop(s).pc = "kevent" /\ Loop(s).hand = <<>> /\ s.todo = <<>> /\ s.notes = <<>>
            \/ Loop(s).pc = "notify" /\ Loop(s).hand = s.hand
BY DEF IsServer, Loop

\* The end of configd closes every connection; notes and replies under way can
\* still be read.
LEMMA EndedStep ==
  ASSUME Inv, Ended, path' \in BOOLEAN
  PROVE  Inv'
<1>1. /\ srv' = Idle /\ UNCHANGED <<starts, down, clnt>>
      /\ link' = [c \in Client |-> IF link[c] = "none" THEN "none" ELSE "closed"]
      /\ up' = [c \in Client |-> <<>>]
  BY DEF Ended
<1>2. /\ IsServer(Idle) /\ Idle.pc = "down" /\ Idle.who = NoClient /\ Idle.subs = <<>>
      /\ Idle.todo = <<>> /\ Idle.hand = <<>>
  BY DEF Idle, IsServer
<1>3. ServerOK(srv')
  <2>1. <<>> \in Seq(Client) /\ NoDup(<<>>)
    BY EmptyList
  <2> QED BY <1>1, <1>2, <2>1 DEF ServerOK
<1>4. Shapes'
  BY <1>1 DEF Inv, Shapes
<1>5. ASSUME NEW c \in Client
      PROVE  ConnectionOK(c, srv', link'[c], up'[c], down[c], clnt[c])
  <2>1. ~Sub(srv', c) /\ ~Waits(srv', c) /\ srv'.pc = "down"
    BY <1>1, <1>2, EmptyList DEF Sub, Waits
  <2>2. ConnectionOK(c, srv, link[c], up[c], down[c], clnt[c])
    BY DEF Inv
  <2>3. up'[c] = <<>> /\ link'[c] = IF link[c] = "none" THEN "none" ELSE "closed"
    BY <1>1
  <2> QED BY <2>1, <2>2, <2>3 DEF ConnectionOK, Living
<1> QED BY <1>1, <1>3, <1>4, <1>5 DEF Inv

\* A new configd knows nobody; the connections to the last one are closed.
LEMMA StartStep ==
  ASSUME Inv, Start
  PROVE  Inv'
<1>1. /\ srv.pc = "down" /\ starts < MaxStarts
      /\ srv' = [Idle EXCEPT !.pc = "kevent"] /\ path' = TRUE /\ starts' = starts + 1
      /\ UNCHANGED <<link, up, down, clnt>>
  BY DEF Start, queues
<1>2. /\ IsServer(srv') /\ srv'.pc = "kevent" /\ srv'.who = NoClient /\ srv'.subs = <<>>
      /\ srv'.todo = <<>> /\ srv'.hand = <<>> /\ srv'.notes = <<>>
  BY <1>1 DEF Idle, IsServer
<1>3. ServerOK(srv')
  <2>1. <<>> \in Seq(Client) /\ NoDup(<<>>)
    BY EmptyList
  <2> QED BY <1>2, <2>1 DEF ServerOK
<1>4. ASSUME NEW c \in Client
      PROVE  ConnectionOK(c, srv', link[c], up[c], down[c], clnt[c])
  <2>1. ~Sub(srv', c) /\ ~Waits(srv', c) /\ ~Waits(srv, c) /\ srv'.pc # "recv"
    BY <1>1, <1>2, EmptyList DEF Sub, Waits
  <2> QED BY <2>1, ServerFrame DEF Inv
<1>5. path' \in BOOLEAN /\ starts' \in 0 .. MaxStarts
  <2>1. path' \in BOOLEAN
    BY <1>1, Zenon
  <2>2. starts' \in 0 .. MaxStarts
    BY <1>1, ConfigdAssumption DEF Inv
  <2> QED BY <2>1, <2>2
<1> QED BY <1>1, <1>3, <1>4, <1>5 DEF Inv, Shapes

\* An accepted client is not yet a subscriber.
LEMMA AcceptStep ==
  ASSUME Inv, NEW c \in Client, Accept(c)
  PROVE  Inv'
<1>1. /\ srv.pc = "kevent" /\ link[c] = "backlog" /\ link' = [link EXCEPT ![c] = "open"]
      /\ UNCHANGED <<srv, path, starts, up, down, clnt>>
  BY DEF Accept
<1>2. link'[c] = "open" /\ Elsewhere(c) /\ Shapes'
  BY <1>1 DEF Inv, Shapes, Elsewhere
<1>3. ConnectionOK(c, srv, link[c], up[c], down[c], clnt[c]) /\ ~Waits(srv, c)
  BY <1>1 DEF Inv, Waits
<1>4. ConnectionOK(c, srv, "open", up[c], down[c], clnt[c])
  BY <1>1, <1>3 DEF ConnectionOK
<1> QED BY <1>1, <1>2, <1>4, ClientStep DEF Inv

\* configd begins to read from a client whose connection is open.
LEMMA ReadableStep ==
  ASSUME Inv, NEW c \in Client, Readable(c)
  PROVE  Inv'
<1>1. /\ srv.pc = "kevent" /\ link[c] = "open" /\ srv' = [srv EXCEPT !.pc = "recv", !.who = c]
      /\ UNCHANGED <<path, starts, link, up, down, clnt>>
  BY DEF Readable, queues
<1>2. /\ IsServer(srv') /\ srv'.pc = "recv" /\ srv'.who = c /\ srv'.subs = srv.subs
      /\ srv'.todo = srv.todo /\ srv'.hand = srv.hand
  BY <1>1 DEF Inv, ServerOK, IsServer
<1>3. ServerOK(srv')
  BY <1>1, <1>2 DEF Inv, ServerOK
<1>4. ASSUME NEW d \in Client
      PROVE  ConnectionOK(d, srv', link[d], up[d], down[d], clnt[d])
  <2>1. (Sub(srv', d) => Sub(srv, d)) /\ ~Waits(srv', d) /\ ~Waits(srv, d)
    BY <1>1, <1>2 DEF Sub, Waits
  <2> QED BY <1>1, <1>2, <2>1, ServerFrame DEF Inv
<1> QED BY <1>1, <1>3, <1>4 DEF Inv, Shapes

\* A subscriber that has gone is on no list when its connection is closed.
LEMMA EofStep ==
  ASSUME Inv, NEW c \in Client, Eof(c)
  PROVE  Inv'
<1> DEFINE q == Unsubscribed(c)
<1>1. /\ srv.pc = "kevent" /\ link[c] = "open" /\ ~Living(clnt[c])
      /\ link' = [link EXCEPT ![c] = "closed"] /\ up' = [up EXCEPT ![c] = <<>>]
      /\ srv' = [srv EXCEPT !.subs = q]
      /\ UNCHANGED <<path, starts, down, clnt>>
  BY DEF Eof, Alive, Living
<1>2. q \in Seq(Client) /\ NoDup(q) /\ ToSet(q) \subseteq ToSet(srv.subs) \ {c}
  BY Unlisted DEF Inv, ServerOK
<1> HIDE DEF q
<1>3. /\ IsServer(srv') /\ srv'.pc = srv.pc /\ srv'.who = srv.who /\ srv'.subs = q
      /\ srv'.todo = srv.todo /\ srv'.hand = srv.hand /\ srv'.notes = srv.notes
  BY <1>1 DEF Inv, ServerOK, IsServer
<1>4. ServerOK(srv')
  BY <1>2, <1>3 DEF Inv, ServerOK
<1>5. srv.todo = <<>> /\ ToSet(srv.todo) = {}
  BY <1>1, Lists DEF Inv, ServerOK
<1>6. Elsewhere(c) /\ Shapes' /\ link'[c] = "closed" /\ up'[c] = <<>>
  BY <1>1 DEF Inv, Shapes, Elsewhere
<1>7. ASSUME NEW d \in Client
      PROVE  ConnectionOK(d, srv', link'[d], up'[d], down[d], clnt[d])
  <2>1. ~Waits(srv', d) /\ ~Waits(srv, d) /\ srv'.pc # "recv"
    BY <1>1, <1>3 DEF Waits
  <2>2. CASE d = c
    <3>1. ~Sub(srv', c)
      BY <1>2, <1>3, <1>5 DEF Sub
    <3>2. ConnectionOK(c, srv, link[c], up[c], down[c], clnt[c])
      BY DEF Inv
    <3> QED BY <1>1, <1>6, <2>1, <2>2, <3>1, <3>2 DEF ConnectionOK, Living
  <2>3. CASE d # c
    <3>1. Sub(srv', d) => Sub(srv, d)
      BY <1>2, <1>3 DEF Sub
    <3> QED BY <1>6, <2>1, <2>3, <3>1, ServerFrame DEF Inv, Elsewhere
  <2> QED BY <2>2, <2>3
<1> QED BY <1>1, <1>4, <1>6, <1>7 DEF Inv

\* The message is the call of a client that waits for its reply.
LEMMA HandleStep ==
  ASSUME Inv, Handle
  PROVE  Inv'
<1> DEFINE c == srv.who
           m == Head(up[c])
<1>1. /\ srv.pc = "recv" /\ up[c] # <<>> /\ Living(clnt[c])
      /\ up' = [up EXCEPT ![c] = Tail(@)]
      /\ clnt' = IF m.method = "subscribe" THEN [clnt EXCEPT ![c].since = Len(log.requests)] ELSE clnt
      /\ UNCHANGED <<path, starts, link>>
  BY DEF Handle, Alive, Living
<1>2. PICK o \in Outcomes(m) :
        /\ srv' = Loop([srv EXCEPT !.who = NoClient, !.notes = @ \o o.notes,
                                   !.subs = Subscribed(c, m)])
        /\ down' = [down EXCEPT ![c] = Append(@, Reply(m, o.result))]
  BY Zenon DEF Handle
<1>3. /\ c \in Client /\ ProgramOK(c, clnt[c])
      /\ ConnectionOK(c, srv, link[c], up[c], down[c], clnt[c])
  BY <1>1 DEF Inv, ServerOK
<1> DEFINE rep == Reply(m, o.result)
           s == [srv EXCEPT !.who = NoClient, !.notes = @ \o o.notes, !.subs = Subscribed(c, m)]
<1>4. rep.kind = "reply" /\ rep.re = m
  BY DEF Reply
<1>5. /\ IsServer(s) /\ s.who = NoClient /\ s.subs = Subscribed(c, m)
      /\ s.todo = srv.todo /\ s.hand = srv.hand
  BY DEF Inv, ServerOK, IsServer
<1>6. /\ srv' = Loop(s) /\ down' = [down EXCEPT ![c] = Append(@, rep)]
  BY <1>2
<1>7. link[c] = "open" /\ ~Waits(srv, c)
  BY <1>1, <1>3 DEF ConnectionOK, Waits
<1> HIDE DEF c, m, rep, s
<1>8. /\ clnt[c].pc = "wait" /\ up[c] = <<clnt[c].call>> /\ down[c] = <<>> /\ ~Sub(srv, c)
  BY <1>1, <1>3, <1>7 DEF ConnectionOK
<1>9. m = clnt[c].call /\ Tail(up[c]) = <<>>
  BY <1>8, Short DEF m
<1>10. srv.todo = <<>>
  BY <1>1 DEF Inv, ServerOK
<1>11. m.method = "subscribe" => m = Subscribe /\ Program[c] = "graphd"
  BY <1>3, <1>8, <1>9 DEF ProgramOK, GetAll
<1>12. /\ Subscribed(c, m) \in Seq(Client) /\ NoDup(Subscribed(c, m))
       /\ ToSet(Subscribed(c, m)) \subseteq ToSet(srv.subs) \cup {c}
       /\ m.method # "subscribe" => Subscribed(c, m) = srv.subs
  BY <1>3, <1>8, Lists DEF Subscribed, Inv, ServerOK, Sub
<1>13. /\ IsServer(srv') /\ srv'.who = NoClient /\ srv'.subs = Subscribed(c, m)
       /\ srv'.todo = <<>> /\ srv'.pc \in {"kevent", "notify"}
       /\ srv'.hand = <<>> \/ srv'.hand = srv.hand
       /\ srv'.pc = "kevent" => srv'.notes = <<>>
  BY <1>5, <1>6, <1>10, LoopServer
<1>14. ServerOK(srv')
  <2>1. <<>> \in Seq(Client)
    BY EmptyList
  <2> QED BY <1>12, <1>13, <2>1 DEF ServerOK, Inv
<1>15. up'[c] = <<>> /\ down'[c] = <<rep>> /\ Shapes'
  BY <1>1, <1>3, <1>6, <1>8, <1>9, Short DEF Inv, Shapes
<1>16. /\ clnt'[c].pc = "wait" /\ clnt'[c].call = m /\ ProgramOK(c, clnt'[c])
  <2>1. /\ clnt'[c].pc = clnt[c].pc /\ clnt'[c].call = clnt[c].call
        /\ clnt'[c].count = clnt[c].count /\ IsClient(clnt'[c])
    <3>1. CASE clnt' = clnt
      BY <1>3, <3>1 DEF ProgramOK
    <3>2. CASE clnt' = [clnt EXCEPT ![c].since = Len(log.requests)]
      BY <1>3, <3>2 DEF Inv, Shapes, ProgramOK, IsClient
    <3> QED BY <1>1, <3>1, <3>2
  <2> QED BY <1>3, <1>8, <1>9, <2>1 DEF ProgramOK
<1>17. \A d \in Client \ {c} : up'[d] = up[d] /\ down'[d] = down[d] /\ clnt'[d] = clnt[d]
  BY <1>1, <1>3, <1>6 DEF Inv, Shapes
<1>18. \A d \in Client : ~Waits(srv, d) /\ ~Waits(srv', d) /\ srv'.pc # "recv"
  BY <1>1, <1>13 DEF Waits
<1>19. ConnectionOK(c, srv', link[c], <<>>, <<rep>>, clnt'[c])
  <2>1. Sub(srv', c) => m = Subscribe /\ Program[c] = "graphd"
    BY <1>8, <1>10, <1>11, <1>12, <1>13 DEF Sub
  <2>2. <<rep>>[1] = rep /\ <<rep>> # <<>>
    BY Short
  <2> QED BY <1>3, <1>4, <1>7, <1>16, <1>18, <2>1, <2>2 DEF ConnectionOK, Living
<1>20. ASSUME NEW d \in Client \ {c}
       PROVE  ConnectionOK(d, srv', link[d], up'[d], down'[d], clnt'[d])
  <2>1. Sub(srv', d) => Sub(srv, d)
    BY <1>10, <1>12, <1>13 DEF Sub
  <2> QED BY <1>17, <1>18, <2>1, ServerFrame DEF Inv
<1> QED BY <1>1, <1>14, <1>15, <1>16, <1>17, <1>19, <1>20 DEF Inv

\* configd goes on with nobody in between.
LEMMA HandleNothingStep ==
  ASSUME Inv, HandleNothing
  PROVE  Inv'
<1> DEFINE s == [srv EXCEPT !.who = NoClient]
<1>1. srv.pc = "recv" /\ srv' = Loop(s) /\ UNCHANGED <<path, starts, link, up, down, clnt>>
  BY DEF HandleNothing, queues
<1>2. /\ IsServer(s) /\ s.who = NoClient /\ s.subs = srv.subs /\ s.notes = srv.notes
      /\ s.todo = srv.todo /\ s.hand = srv.hand
  BY DEF Inv, ServerOK, IsServer
<1> HIDE DEF s
<1>3. /\ IsServer(srv') /\ srv'.who = NoClient /\ srv'.subs = srv.subs
      /\ srv'.todo = srv.todo /\ srv'.pc \in {"kevent", "notify"}
      /\ srv'.hand = <<>> \/ srv'.hand = srv.hand
      /\ srv'.pc = "kevent" => srv'.notes = <<>>
  BY <1>1, <1>2, LoopServer
<1>4. ServerOK(srv')
  BY <1>1, <1>3 DEF Inv, ServerOK
<1>5. ASSUME NEW d \in Client
      PROVE  ConnectionOK(d, srv', link[d], up[d], down[d], clnt[d])
  <2>1. /\ Sub(srv', d) => Sub(srv, d)
        /\ ~Waits(srv', d) /\ ~Waits(srv, d) /\ srv'.pc # "recv"
    BY <1>1, <1>3 DEF Sub, Waits
  <2> QED BY <2>1, ServerFrame DEF Inv
<1> QED BY <1>1, <1>4, <1>5 DEF Inv, Shapes

\* Those to be told are the subscribers.
LEMMA NextNoteStep ==
  ASSUME Inv, NextNote
  PROVE  Inv'
<1> DEFINE h == <<Head(srv.notes)>>
           s == [srv EXCEPT !.hand = h, !.notes = Tail(@), !.todo = srv.subs]
<1>1. srv.pc = "notify" /\ srv' = Loop(s) /\ UNCHANGED <<path, starts, link, up, down, clnt>>
  BY DEF NextNote, queues
<1>2. h = <<h[1]>> /\ h # <<>>
  BY Short
<1> HIDE DEF h
<1>3. /\ IsServer(s) /\ s.who = srv.who /\ s.subs = srv.subs
      /\ s.todo = srv.subs /\ s.hand = h
  BY DEF Inv, ServerOK, IsServer
<1> HIDE DEF s
<1>4. /\ IsServer(srv') /\ srv'.who = srv.who /\ srv'.subs = srv.subs /\ srv'.todo = srv.subs
      /\ \/ srv'.pc = "kevent" /\ srv'.hand = <<>> /\ srv'.todo = <<>> /\ srv'.notes = <<>>
         \/ srv'.pc = "notify" /\ srv'.hand = h
  BY <1>1, <1>3, LoopServer
<1>5. ServerOK(srv')
  BY <1>2, <1>4 DEF Inv, ServerOK
<1>6. ASSUME NEW d \in Client
      PROVE  ConnectionOK(d, srv', link[d], up[d], down[d], clnt[d])
  <2>1. /\ Sub(srv', d) => Sub(srv, d)
        /\ ~Waits(srv', d) /\ ~Waits(srv, d) /\ srv'.pc # "recv"
    BY <1>1, <1>4 DEF Sub, Waits
  <2> QED BY <2>1, ServerFrame DEF Inv
<1> QED BY <1>1, <1>5, <1>6 DEF Inv, Shapes

\* A note is sent to a subscriber with no other note under way.
LEMMA TellStep ==
  ASSUME Inv, Tell
  PROVE  Inv'
<1> DEFINE c == Head(srv.todo)
           n == Notify(srv.hand[1])
<1>1. /\ srv.pc = "notify" /\ srv.todo # <<>> /\ Living(clnt[c])
      /\ down' = [down EXCEPT ![c] = Append(@, n)]
      /\ srv' = [srv EXCEPT !.pc = "reply"]
      /\ UNCHANGED <<path, starts, link, up, clnt>>
  BY DEF Tell, Alive, Living
<1>2. n.kind = "notify"
  BY DEF Notify
<1>3. c \in Client /\ Sub(srv, c)
  BY <1>1, Lists DEF Inv, ServerOK, Sub
<1>4. /\ IsServer(srv') /\ srv'.pc = "reply" /\ srv'.who = srv.who /\ srv'.subs = srv.subs
      /\ srv'.todo = srv.todo /\ srv'.hand = srv.hand
  BY <1>1 DEF Inv, ServerOK, IsServer
<1>5. Waits(srv', c)
  BY <1>4 DEF Waits
<1>6. \A d \in Client \ {c} : ~Waits(srv', d)
  BY <1>4 DEF Waits
<1> HIDE DEF c, n
<1>7. ServerOK(srv')
  BY <1>1, <1>4 DEF Inv, ServerOK
<1>8. ConnectionOK(c, srv, link[c], up[c], down[c], clnt[c])
  BY <1>3 DEF Inv
<1>9. \A d \in Client : ~Waits(srv, d)
  BY <1>1 DEF Waits
<1>10. /\ link[c] = "open" /\ Program[c] = "graphd" /\ up[c] = <<>>
       /\ \/ clnt[c].pc \in {"loop", "process"} /\ down[c] = <<>>
          \/ /\ clnt[c].pc = "wait" /\ clnt[c].call = Subscribe /\ down[c] = <<down[c][1]>>
             /\ down[c][1].kind = "reply" /\ down[c][1].re = clnt[c].call
  BY <1>1, <1>3, <1>8, <1>9 DEF ConnectionOK
<1>11. Elsewhere(c) /\ Shapes' /\ down'[c] = Append(down[c], n)
  BY <1>1, <1>3 DEF Inv, Shapes, Elsewhere
<1>12. ConnectionOK(c, srv', link[c], up[c], down'[c], clnt[c])
  <2>1. CASE clnt[c].pc \in {"loop", "process"} /\ down[c] = <<>>
    <3>1. down'[c] = <<n>> /\ <<n>>[1] = n
      BY <1>11, <2>1, Short
    <3> QED BY <1>2, <1>4, <1>5, <1>8, <1>10, <2>1, <3>1 DEF ConnectionOK, Living
  <2>2. CASE /\ clnt[c].pc = "wait" /\ clnt[c].call = Subscribe /\ down[c] = <<down[c][1]>>
             /\ down[c][1].kind = "reply" /\ down[c][1].re = clnt[c].call
    <3> DEFINE a == down[c][1]
    <3>1. down[c] = <<a>> /\ a.kind = "reply" /\ a.re = clnt[c].call
      BY <2>2
    <3> HIDE DEF a
    <3>2. Append(<<a>>, n) = <<a, n>> /\ <<a, n>>[1] = a /\ <<a, n>>[2] = n /\ <<a, n>> # <<>>
      BY Short
    <3>3. down'[c] = <<a, n>>
      BY <1>11, <3>1, <3>2
    <3> QED BY <1>2, <1>4, <1>5, <1>8, <1>10, <2>2, <3>1, <3>2, <3>3 DEF ConnectionOK, Living
  <2> QED BY <1>10, <2>1, <2>2
<1>13. ASSUME NEW d \in Client \ {c}
       PROVE  ConnectionOK(d, srv', link[d], up[d], down'[d], clnt[d])
  <2>1. (Sub(srv', d) => Sub(srv, d)) /\ srv'.pc # "recv"
    BY <1>4 DEF Sub
  <2> QED BY <1>6, <1>9, <1>11, <2>1, ServerFrame DEF Inv, Elsewhere
<1> QED BY <1>1, <1>7, <1>11, <1>12, <1>13 DEF Inv

\* What configd finds from the subscriber is the answer to its note.
LEMMA ToldStep ==
  ASSUME Inv, Told
  PROVE  Inv'
<1> DEFINE c == Head(srv.todo)
           s == [srv EXCEPT !.todo = Tail(@)]
<1>1. /\ srv.pc = "reply" /\ up[c] # <<>>
      /\ up' = [up EXCEPT ![c] = Tail(@)]
      /\ srv' = Loop(s)
      /\ UNCHANGED <<path, starts, link, down, clnt>>
  BY DEF Told
<1>2. /\ c \in Client /\ Sub(srv, c) /\ Tail(srv.todo) \in Seq(Client)
      /\ ToSet(Tail(srv.todo)) \subseteq ToSet(srv.todo)
  BY <1>1, Lists DEF Inv, ServerOK, Sub
<1>3. /\ IsServer(s) /\ s.who = srv.who /\ s.subs = srv.subs
      /\ s.todo = Tail(srv.todo) /\ s.hand = srv.hand /\ s.notes = srv.notes
  BY DEF Inv, ServerOK, IsServer
<1>4. Waits(srv, c) /\ \A d \in Client \ {c} : ~Waits(srv, d)
  BY <1>1 DEF Waits
<1> HIDE DEF c, s
<1>5. /\ IsServer(srv') /\ srv'.who = srv.who /\ srv'.subs = srv.subs
      /\ srv'.todo = Tail(srv.todo)
      /\ \/ srv'.pc = "kevent" /\ srv'.hand = <<>> /\ srv'.todo = <<>> /\ srv'.notes = <<>>
         \/ srv'.pc = "notify" /\ srv'.hand = srv.hand
  BY <1>1, <1>3, LoopServer
<1>6. ServerOK(srv')
  <2>1. srv.hand # <<>>
    BY <1>1 DEF Inv, ServerOK
  <2> QED BY <1>2, <1>5, <2>1 DEF Inv, ServerOK
<1>7. ConnectionOK(c, srv, link[c], up[c], down[c], clnt[c])
  BY <1>2 DEF Inv
<1>8. up[c] = <<Noted>>
  BY <1>1, <1>4, <1>7 DEF ConnectionOK
<1>9. /\ down[c] = <<>> /\ link[c] = "open" /\ Program[c] = "graphd"
      /\ Living(clnt[c]) => clnt[c].pc \in {"loop", "process"}
  BY <1>1, <1>2, <1>7 DEF ConnectionOK
<1>10. Elsewhere(c) /\ Shapes' /\ up'[c] = <<>>
  BY <1>1, <1>2, <1>8, Short DEF Inv, Shapes, Elsewhere
<1>11. \A d \in Client : ~Waits(srv', d) /\ srv'.pc # "recv"
  BY <1>5 DEF Waits
<1>12. ConnectionOK(c, srv', link[c], <<>>, down[c], clnt[c])
  BY <1>2, <1>7, <1>9, <1>11 DEF ConnectionOK, Living
<1>13. ASSUME NEW d \in Client \ {c}
       PROVE  ConnectionOK(d, srv', link[d], up'[d], down[d], clnt[d])
  <2>1. Sub(srv', d) => Sub(srv, d)
    BY <1>2, <1>5 DEF Sub
  <2> QED BY <1>4, <1>10, <1>11, <2>1, ServerFrame DEF Inv, Elsewhere
<1> QED BY <1>1, <1>6, <1>10, <1>12, <1>13 DEF Inv

-----------------------------------------------------------------------------
(* The invariant holds. *)

\* No client has been run and configd is down.
LEMMA InitInv ==
  ASSUME Init
  PROVE  Inv
<1>1. /\ srv = Idle /\ path = FALSE /\ starts = 0
      /\ link = [c \in Client |-> "none"] /\ up = [c \in Client |-> <<>>]
      /\ down = [c \in Client |-> <<>>] /\ clnt = [c \in Client |-> Fresh("off")]
  BY DEF Init
<1>2. /\ IsServer(Idle) /\ Idle.pc = "down" /\ Idle.who = NoClient /\ Idle.subs = <<>>
      /\ Idle.todo = <<>> /\ Idle.hand = <<>>
  BY DEF Idle, IsServer
<1>3. ServerOK(srv)
  BY <1>1, <1>2, EmptyList DEF ServerOK
<1>4. Shapes
  BY <1>1 DEF Shapes
<1> DEFINE k == Fresh("off")
<1>5. k.pc = "off" /\ k.count = 0 /\ IsClient(k)
  BY DEF Fresh, IsClient
<1> HIDE DEF k
<1>6. ASSUME NEW c \in Client
      PROVE  ProgramOK(c, clnt[c]) /\ ConnectionOK(c, srv, link[c], up[c], down[c], clnt[c])
  <2>1. clnt[c] = k /\ link[c] = "none" /\ up[c] = <<>> /\ down[c] = <<>>
    BY <1>1 DEF k
  <2>2. ProgramOK(c, k)
    BY <1>5, ConfigdAssumption DEF ProgramOK
  <2>3. ~Sub(srv, c) /\ ~Waits(srv, c) /\ srv.pc = "down"
    BY <1>1, <1>2, EmptyList DEF Sub, Waits
  <2>4. ConnectionOK(c, srv, "none", <<>>, <<>>, k)
    BY <1>5, <2>3 DEF ConnectionOK, Living
  <2> QED BY <2>1, <2>2, <2>4
<1>7. path \in BOOLEAN
  BY <1>1, Zenon
<1>8. starts \in 0 .. MaxStarts
  BY <1>1, ConfigdAssumption
<1> QED BY <1>3, <1>4, <1>6, <1>7, <1>8 DEF Inv

(* Every step keeps the invariant. *)
LEMMA NextInv ==
  ASSUME Inv, Next
  PROVE  Inv'
<1>1. CASE Start
  BY <1>1, StartStep
<1>2. CASE StartFails
  <2>1. path' = FALSE /\ UNCHANGED <<srv, starts, link, up, down, clnt>>
    BY <1>2 DEF StartFails, queues
  <2>2. path' \in BOOLEAN
    BY <2>1, Zenon
  <2> QED BY <2>1, <2>2 DEF Inv, Shapes
<1>3. CASE Interrupt
  <2>1. Ended /\ path' = FALSE
    BY <1>3 DEF Interrupt
  <2>2. path' \in BOOLEAN
    BY <2>1, Zenon
  <2> QED BY <2>1, <2>2, EndedStep
<1>4. CASE Die
  BY <1>4, EndedStep DEF Die, Inv
<1>5. CASE Serve
  BY <1>4, <1>5, AcceptStep, ReadableStep, EofStep, HandleStep, HandleNothingStep,
     NextNoteStep, TellStep, ToldStep DEF Serve, Event, HandleDies, TellDies
<1>6. ASSUME NEW c \in Client, Work(c) \/ Begin(c) \/ Quit(c) \/ Kill(c)
      PROVE  Inv'
  <2>1. CASE Work(c)
    BY <2>1, WriteStep, GotAllStep, GotPathStep, GotResultStep, NotifiedStep, ProcessStep, EndStep
       DEF Work
  <2>2. CASE Begin(c)
    BY <2>2, ConnectStep, CallStep, EndStep DEF Begin
  <2>3. CASE Quit(c) \/ Kill(c)
    BY <2>3, EndStep
  <2> QED BY <1>6, <2>1, <2>2, <2>3
<1> QED BY <1>1, <1>2, <1>3, <1>5, <1>6 DEF Next

\* The invariant holds of every behaviour.
LEMMA InvHolds == Spec => []Inv
<1>1. Init => Inv
  BY InitInv
<1>2. Inv /\ [Next]_vars => Inv'
  <2>1. ASSUME Inv, UNCHANGED vars PROVE Inv'
    BY <2>1 DEF Inv, Shapes, vars
  <2> QED BY <2>1, NextInv
<1> QED BY <1>1, <1>2, PTL DEF Spec

-----------------------------------------------------------------------------
(* The theorems. *)

(* configd waits for an event only with nothing left to tell anybody, waits for
   an answer only with a note in its hand, and a program never makes more calls
   than it has to, whoever comes, goes and dies when. *)
THEOREM ConfigdTypes == Spec => []TypeOK
<1>1. Inv => TypeOK
  <2> SUFFICES ASSUME Inv PROVE TypeOK
    OBVIOUS
  <2>1. ToSet(srv.subs) \cup ToSet(srv.todo) \subseteq Client
    BY DEF Inv, ServerOK, ToSet
  <2>2. Len(srv.hand) <= 1
    <3>1. Len(<<>>) <= 1 /\ \A x : Len(<<x>>) <= 1
      OBVIOUS
    <3> QED BY <3>1, Zenon DEF Inv, ServerOK
  <2>3. /\ srv.pc = "reply" => srv.hand # <<>> /\ srv.todo # <<>>
        /\ srv.pc = "kevent" => srv.notes = <<>> /\ srv.todo = <<>>
    BY DEF Inv, ServerOK
  <2>4. ASSUME NEW c \in Client, clnt[c].pc = "process"
        PROVE  Len(clnt[c].note) = 1
    <3>1. \A x : Len(<<x>>) = 1
      OBVIOUS
    <3>2. clnt[c].note = <<clnt[c].note[1]>>
      BY <2>4 DEF Inv, ProgramOK
    <3> QED BY <3>1, <3>2, Zenon
  <2> QED BY <2>1, <2>2, <2>3, <2>4 DEF TypeOK, Inv, ServerOK, ProgramOK, Shapes
<1> QED BY <1>1, InvHolds, PTL

(* recv_reply takes the next message for the reply, and it is: a client that
   waits never finds a note or the reply to another call, and configd never
   finds a call where it waits for the answer to a note. *)
THEOREM RepliesAreOwn == Spec => []OwnReply
<1>1. Inv => OwnReply
  <2> SUFFICES ASSUME Inv PROVE OwnReply
    OBVIOUS
  <2>1. ASSUME srv.pc = "reply", up[Head(srv.todo)] # <<>>
        PROVE  up[Head(srv.todo)] = <<Noted>>
    <3>1. Head(srv.todo) \in Client /\ Waits(srv, Head(srv.todo))
      BY <2>1, Lists DEF Inv, ServerOK, Waits
    <3> QED BY <2>1, <3>1 DEF Inv, ConnectionOK
  <2> QED BY <2>1, ReplyIsOwn DEF OwnReply
<1> QED BY <1>1, InvHolds, PTL

(* configd dies only of a client that was killed or crashed and whose end it
   has not seen, or of a request for a path it does not have: a subscriber that
   it has seen off is on no list, and a command that ends by itself has got
   all the replies to its calls. *)
THEOREM ConfigdDiesOf == Spec => DiesOf
<1>1. ASSUME Inv, [Next]_vars, srv.pc # "down", srv'.pc = "down", path'
      PROVE  \/ \E c \in Client : clnt[c].pc = "gone" /\ link[c] = "open"
             \/ srv.pc = "recv" /\ up[srv.who] # <<>> /\ Unknown(Head(up[srv.who]))
  <2>1. HandleDies \/ TellDies
    <3>1. IsServer(srv) /\ srv' # srv
      BY <1>1 DEF Inv, ServerOK
    <3>2. ASSUME NEW s, IsServer(s), srv' = Loop(s) PROVE FALSE
      BY <1>1, <3>2, LoopServer
    <3>3. ~Handle /\ ~HandleNothing /\ ~NextNote /\ ~Told
      <4>1. ASSUME NEW x, NEW y, NEW z
            PROVE  /\ IsServer([srv EXCEPT !.who = x, !.notes = y, !.subs = z])
                   /\ IsServer([srv EXCEPT !.who = x])
                   /\ IsServer([srv EXCEPT !.hand = x, !.notes = y, !.todo = z])
                   /\ IsServer([srv EXCEPT !.todo = x])
        BY <3>1 DEF IsServer
      <4>2. ASSUME Handle PROVE FALSE
        <5>1. PICK o \in Outcomes(Head(up[srv.who])) :
                srv' = Loop([srv EXCEPT !.who = NoClient, !.notes = @ \o o.notes,
                                        !.subs = Subscribed(srv.who, Head(up[srv.who]))])
          BY <4>2, Zenon DEF Handle
        <5> DEFINE y == srv.notes \o o.notes
                   z == Subscribed(srv.who, Head(up[srv.who]))
                   t == [srv EXCEPT !.who = NoClient, !.notes = y, !.subs = z]
        <5>2. srv' = Loop(t)
          BY <5>1
        <5> HIDE DEF y, z
        <5>3. IsServer(t)
          BY <4>1
        <5> HIDE DEF t
        <5> QED BY <3>2, <5>2, <5>3
      <4>3. ASSUME HandleNothing PROVE FALSE
        BY <3>2, <4>1, <4>3 DEF HandleNothing
      <4>4. ASSUME NextNote PROVE FALSE
        <5>1. PICK x, y, z : srv' = Loop([srv EXCEPT !.hand = x, !.notes = y, !.todo = z])
          BY <4>4, Zenon DEF NextNote
        <5> QED BY <3>2, <4>1, <5>1
      <4>5. ASSUME Told PROVE FALSE
        <5>1. PICK x : srv' = Loop([srv EXCEPT !.todo = x])
          BY <4>5, Zenon DEF Told
        <5> QED BY <3>2, <4>1, <5>1
      <4> QED BY <4>2, <4>3, <4>4, <4>5
    <3>4. ~Start /\ ~StartFails /\ ~Interrupt /\ ~UNCHANGED vars
      BY <1>1, <3>1 DEF Start, StartFails, Interrupt, vars
    <3>5. ~Event /\ ~Tell
      <4>1. ASSUME NEW c \in Client, Readable(c) PROVE FALSE
        <5>1. srv' = [srv EXCEPT !.pc = "recv", !.who = c]
          BY <4>1 DEF Readable
        <5> QED BY <1>1, <3>1, <5>1 DEF IsServer
      <4>2. ASSUME NEW c \in Client, Eof(c) PROVE FALSE
        <5>1. PICK x : srv' = [srv EXCEPT !.subs = x]
          BY <4>2, Zenon DEF Eof
        <5> QED BY <1>1, <3>1, <5>1 DEF IsServer
      <4>3. ASSUME NEW c \in Client, Accept(c) PROVE FALSE
        BY <3>1, <4>3 DEF Accept
      <4>4. ASSUME Tell PROVE FALSE
        <5>1. srv' = [srv EXCEPT !.pc = "reply"]
          BY <4>4 DEF Tell
        <5> QED BY <1>1, <3>1, <5>1 DEF IsServer
      <4> QED BY <4>1, <4>2, <4>3, <4>4 DEF Event
    <3>6. ~\E c \in Client : Work(c) \/ Begin(c) \/ Quit(c) \/ Kill(c)
      BY <3>1 DEF Work, Begin, Quit, Kill, Write, PeerGone, GotAll, GotAllFails, GotPath, GotResult,
                  Notified, Process, ProcessFails, Connect, ConnectFails, CallFails, Call, Leave,
                  Resume
    <3> QED BY <1>1, <3>3, <3>4, <3>5, <3>6 DEF Next, Serve
  <2>2. CASE HandleDies
    <3> DEFINE c == srv.who
    <3>1. srv.pc = "recv" /\ up[c] # <<>> /\ (Unknown(Head(up[c])) \/ ~Living(clnt[c]))
      BY <2>2 DEF HandleDies, Alive, Living
    <3>2. /\ c \in Client /\ ConnectionOK(c, srv, link[c], up[c], down[c], clnt[c])
      BY <1>1, <3>1 DEF Inv, ServerOK
    <3> HIDE DEF c
    <3>3. CASE ~Living(clnt[c])
      <4>1. clnt[c].pc = "gone" /\ link[c] = "open"
        BY <3>1, <3>2, <3>3 DEF ConnectionOK, Living, c
      <4> QED BY <3>2, <4>1
    <3> QED BY <3>1, <3>3 DEF c
  <2>3. CASE TellDies
    <3> DEFINE c == Head(srv.todo)
    <3>1. srv.todo # <<>> /\ ~Living(clnt[c])
      BY <2>3 DEF TellDies, Alive, Living
    <3>2. c \in Client
      BY <1>1, <3>1 DEF Inv, ServerOK
    <3>3. c \in ToSet(srv.todo)
      BY <1>1, <3>1, <3>2, Lists DEF Inv, ServerOK
    <3>4. /\ Sub(srv, c) /\ ProgramOK(c, clnt[c])
          /\ ConnectionOK(c, srv, link[c], up[c], down[c], clnt[c])
      BY <1>1, <3>2, <3>3 DEF Inv, Sub
    <3> HIDE DEF c
    <3>5. clnt[c].pc = "gone" /\ link[c] = "open"
      BY <3>1, <3>4 DEF ConnectionOK, ProgramOK, Living
    <3> QED BY <3>2, <3>5
  <2> QED BY <2>1, <2>2, <2>3
<1>2. Inv /\ [Next]_vars =>
        [(srv.pc # "down" /\ srv'.pc = "down" /\ path')
           => \/ \E c \in Client : clnt[c].pc = "gone" /\ link[c] = "open"
              \/ srv.pc = "recv" /\ up[srv.who] # <<>> /\ Unknown(Head(up[srv.who]))]_vars
  BY <1>1
<1> QED BY <1>2, InvHolds, PTL DEF Spec, DiesOf

=============================================================================
