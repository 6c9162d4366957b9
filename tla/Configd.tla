------------------------------- MODULE Configd -------------------------------
(***************************************************************************)
(* configd and the programs that use it: graphd, svcadm, svccfg, svcs and  *)
(* callers of the look-up in the library.  They talk over Unix stream      *)
(* sockets in the JSON-RPC of usr/src/lib/s16/rpc/rpc.c, with the client   *)
(* handle of lib/s16/db (local.c, rpc.c).                                  *)
(*                                                                         *)
(* configd (agent/configd/configd.c) handles one kernel event at a time.   *)
(* Handling it may block: in recv, until a request whose length has been   *)
(* announced is complete, and again in recv until a subscriber has         *)
(* answered the note it was sent.  A process that writes to a connection   *)
(* whose other end is gone dies of SIGPIPE, and a process whose peer goes  *)
(* while it waits for a message fails an assertion.  Messages arrive in    *)
(* one piece once they are written, and replies fit into MAX_LEN_MSG.      *)
(***************************************************************************)
EXTENDS Repository

CONSTANTS
  Client,       \* runs of programs
  NoClient,     \* none of them
  Program,      \* client -> the program it runs
  Manifests,    \* the manifests svccfg may import, as UCL objects
  Paths,        \* the texts of paths that svcadm and others may name
  TrialPath,    \* the instance graph_setup_all is hard-coded to try
  Killable,     \* the clients that may be killed
  MaxCalls,     \* bound: client -> how many requests a command sends
  MaxStarts,    \* bound: successful starts of configd
  Twice         \* bound: is configd also started while it runs?

ASSUME ConfigdAssumption ==
  /\ NoClient \notin Client
  /\ Program \in [Client -> {"graphd", "svcadm", "svccfg", "svcs", "lookup"}]
  /\ Killable \subseteq Client
  /\ MaxCalls \in [Client -> Nat] /\ MaxStarts \in Nat /\ Twice \in BOOLEAN

IsName(x)    == x \notin {"svc:/", ":", NULL}
IsList(list) == list \in Seq(ToSet(list))

\* The text of a path: a service or an instance, qualified or not.
IsText(txt) ==
  \/ Len(txt) = 1 /\ txt = <<txt[1]>> /\ IsName(txt[1])
  \/ Len(txt) = 2 /\ txt = <<"svc:/", txt[2]>> /\ IsName(txt[2])
  \/ Len(txt) = 3 /\ txt = <<txt[1], ":", txt[3]>> /\ IsName(txt[1]) /\ IsName(txt[3])
  \/ Len(txt) = 4 /\ txt = <<"svc:/", txt[2], ":", txt[4]>> /\ IsName(txt[2]) /\ IsName(txt[4])

NamesPaths(u) ==
  Has(u, "dependencies") =>
    \A k \in DOMAIN u["dependencies"] : \A l \in DOMAIN u["dependencies"][k]["paths"] :
      IsText(u["dependencies"][k]["paths"][l])

ListsMethods(u) ==
  Has(u, "methods") =>
    /\ IsList(u["methods"])
    /\ \A m \in ToSet(u["methods"]) : Has(m, "properties") => IsList(m["properties"])

\* Manifests have names and texts of paths where they should, and arrays for
\* instances, methods and properties.
ASSUME ManifestAssumption ==
  \A m \in Manifests :
    /\ ~Has(m, "path")
    /\ Has(m, "name") => IsText(m["name"]) /\ Len(m["name"]) <= 2
    /\ NamesPaths(m)
    /\ Has(m, "instances") =>
         /\ IsList(m["instances"])
         /\ \A k \in DOMAIN m["instances"] :
              /\ Has(m["instances"][k], "name") => IsName(m["instances"][k]["name"])
              /\ NamesPaths(m["instances"][k]) /\ ListsMethods(m["instances"][k])

VARIABLES
  srv,     \* configd: a record of the state of its loop
  db,      \* configd: the repository
  path,    \* does the name of configd's socket exist in the file system?
  starts,  \* how often configd has come up
  link,    \* client -> "none", "backlog", "open" or "closed"
  up,      \* client -> messages on their way to configd
  down,    \* client -> messages on their way to the client
  clnt,    \* client -> a record of its state
  log      \* history: the requests and imports that configd has handled

queues == <<link, up, down>>
vars == <<srv, db, path, starts, link, up, down, clnt, log>>

(***************************************************************************)
(* configd: pc is "down", "kevent" (waiting for an event), "recv" (for a   *)
(* request from the client "who"), "notify" (sending notes) or "reply"     *)
(* (waiting for a subscriber); subs are the subscribers in the order they  *)
(* subscribed, all of them to every kind of note; notes is the queue, hand *)
(* the note that is being sent, and todo the subscribers still to be told. *)
(***************************************************************************)
Idle == [pc |-> "down", who |-> NoClient, subs |-> <<>>, notes |-> <<>>,
         hand |-> <<>>, todo |-> <<>>]

(***************************************************************************)
(* A client: pc is "off", "ready" (between calls), "half" (the length of a *)
(* request is written), "wait" (for the reply), "loop" (graphd, for an     *)
(* event), "process" (graphd, a note), "done" or "gone" (killed or         *)
(* crashed).  call is its request,                                         *)
(* count the replies it has got, scope its copy of the services (left out  *)
(* for the programs that never look at it), answer what a look-up told it; *)
(* of graphd, view says which instances it considers enabled, and note is  *)
(* the note it is processing.  History: since is how many of the requests  *)
(* in log it had missed when it subscribed, got the notes it has processed.*)
(***************************************************************************)
NoCall == [method |-> "none"]

Fresh(p) ==
  [pc |-> p, call |-> NoCall, count |-> 0, scope |-> <<>>, answer |-> <<>>,
   view |-> <<>>, note |-> <<>>, since |-> 0, got |-> <<>>]

Alive(c) == clnt[c].pc \notin {"off", "done", "gone"}

(***************************************************************************)
(* The history: requests has, in the order they were queued, the notes     *)
(* that requests led to, each with the path that was requested; imports    *)
(* has the imports, each with the length that requests had at the time.    *)
(***************************************************************************)
NoLog == [requests |-> <<>>, imports |-> <<>>]

TypeOK ==
  /\ srv.pc \in {"down", "kevent", "recv", "notify", "reply"}
  /\ srv.who \in Client \cup {NoClient}
  /\ ToSet(srv.subs) \cup ToSet(srv.todo) \subseteq Client
  /\ Len(srv.hand) <= 1 /\ (srv.pc = "reply" => srv.hand # <<>> /\ srv.todo # <<>>)
  /\ srv.pc = "kevent" => srv.notes = <<>> /\ srv.todo = <<>>
  /\ path \in BOOLEAN /\ starts \in 0 .. MaxStarts
  /\ link \in [Client -> {"none", "backlog", "open", "closed"}]
  /\ \A c \in Client :
       /\ clnt[c].pc \in {"off", "ready", "half", "wait", "loop", "process", "done", "gone"}
       /\ clnt[c].count \in 0 .. MaxCalls[c] + 2
       /\ clnt[c].pc = "process" => Len(clnt[c].note) = 1

-----------------------------------------------------------------------------
(* Messages.  The fields "re" of a reply and "file" of an import are history:
   the wire does not say to which request a reply belongs. *)

Reply(re, result) == [kind |-> "reply", re |-> re, result |-> result]
Notify(note)      == [kind |-> "notify", note |-> s16db_note_to_ucl(note)]
Noted             == Reply([method |-> "notify"], 0)

\* The calls of lib/s16/db/rpc.c.
GetAll    == [method |-> "get-all-services-merged"]
Subscribe == [method |-> "subscribe"]
SetEnabled(en, txt) ==
  [method |-> IF en THEN "enable" ELSE "disable",
   param |-> S16PathToString(s16db_string_to_path(txt))]
Import(m) ==
  [method |-> "import-service", param |-> canonicalise_svc(m), file |-> m]
GetPath(txt) ==
  [method |-> "get-path-merged", param |-> S16PathToString(s16db_string_to_path(txt))]

\* The requests that a command goes on with.
Requests(c) ==
  CASE Program[c] = "svcadm" -> {SetEnabled(en, txt) : en \in BOOLEAN, txt \in Paths}
    [] Program[c] = "svccfg" -> {Import(m) : m \in Manifests}
    [] Program[c] = "lookup" -> {GetPath(txt) : txt \in Paths}
    [] OTHER                 -> {}

\* Mutant: graphd subscribes before it gets the services.
subscribe_first(c) ==
  IF Program[c] = "graphd"
  THEN IF clnt[c].count = 0 THEN {Subscribe} ELSE IF clnt[c].count = 1 THEN {GetAll} ELSE {}
  ELSE IF clnt[c].count = 0 THEN {GetAll}
  ELSE IF clnt[c].count > MaxCalls[c] THEN {} ELSE Requests(c)

\* What a program may call next.  All of them begin with s16db_hdl_new.
NextCalls(c) ==
  IF clnt[c].count = 0 THEN {GetAll}
  ELSE IF Program[c] = "graphd" THEN {Subscribe}
  ELSE IF clnt[c].count > MaxCalls[c] THEN {} ELSE Requests(c)

-----------------------------------------------------------------------------
(* Clients *)

\* The client is no more, and with it its memory and what it has not read.
Leave(c, end) ==
  /\ clnt' = [clnt EXCEPT ![c] = Fresh(end)]
  /\ down' = [down EXCEPT ![c] = <<>>]
  /\ UNCHANGED <<srv, db, path, starts, link, up, log>>

\* s16db_hdl_new: connect.
Connect(c) ==
  /\ clnt[c].pc = "off"
  /\ srv.pc # "down" /\ path
  /\ clnt' = [clnt EXCEPT ![c].pc = "ready"]
  /\ link' = [link EXCEPT ![c] = "backlog"]
  /\ UNCHANGED <<srv, db, path, starts, up, down, log>>

\* Without a connection the programs go on with a handle that is all zero, and
\* end at their first use of it.
ConnectFails(c) ==
  /\ clnt[c].pc = "off"
  /\ srv.pc = "down" \/ ~path
  /\ Leave(c, "gone")

\* s16rpc_i_clnt_call_arr, write_object: the length is written ...
Call(c, m) ==
  /\ clnt[c].pc = "ready" /\ link[c] # "closed"
  /\ clnt' = [clnt EXCEPT ![c].pc = "half", ![c].call = m]
  /\ UNCHANGED <<srv, db, path, starts, queues, log>>

\* ... and then the message.
Write(c) ==
  /\ clnt[c].pc = "half" /\ link[c] # "closed"
  /\ clnt' = [clnt EXCEPT ![c].pc = "wait"]
  /\ up' = [up EXCEPT ![c] = Append(@, clnt[c].call)]
  /\ UNCHANGED <<srv, db, path, starts, link, down, log>>

\* configd has gone: write raises SIGPIPE ...
CallFails(c) ==
  /\ clnt[c].pc = "ready" /\ link[c] = "closed" /\ NextCalls(c) # {}
  /\ Leave(c, "gone")

\* ... and recv_text fails its assertion once there is nothing left to read.
PeerGone(c) ==
  /\ link[c] = "closed"
  /\ clnt[c].pc = "half" \/ (clnt[c].pc = "wait" /\ down[c] = <<>>)
  /\ Leave(c, "gone")

\* The name of an instance, without the qualification of its path.
Key(p) == <<p.svc, p.inst>>

\* graphd, main: all instances are set up as enabled, whatever the repository
\* says of them.
InstancesOf(svcs) ==
  UNION {{Key(svcs[k].insts[l].path) : l \in DOMAIN svcs[k].insts} : k \in DOMAIN svcs}

graph_setup_all(svcs) == [i \in InstancesOf(svcs) |-> TRUE]

\* graphd does not survive a dependency (setup_dep) or a trial on a path that
\* is not there.
SetupFails(svcs) ==
  \/ TrialPath \notin InstancesOf(svcs)
  \/ \E k \in DOMAIN svcs : \E l \in DOMAIN svcs[k].insts :
       \E g \in ToSet(svcs[k].insts[l].depgroups) : \E p \in ToSet(g.paths) :
         ~Found(s16db_lookup_path_in_scope(svcs, p))

\* recv_text, recv_reply: the next message is taken for the reply.  If it were
\* none, the callers would print and free an uninitialised error (OwnReply).
Receives(c, method) ==
  /\ clnt[c].pc = "wait" /\ down[c] # <<>>
  /\ Head(down[c]).kind = "reply" /\ Head(down[c]).re.method = method

Resume(c, p) ==
  /\ clnt' = [clnt EXCEPT ![c] = [p EXCEPT !.count = @ + 1, !.call = NoCall]]
  /\ down' = [down EXCEPT ![c] = Tail(@)]
  /\ UNCHANGED <<srv, db, path, starts, link, up, log>>

\* s16db_repo_get_all_services_merged, and in graphd the set-up that follows.
GotAll(c) ==
  LET svcs == s16db_ucl_to_svcs(Head(down[c]).result) IN
  /\ Receives(c, "get-all-services-merged")
  /\ Program[c] = "graphd" => ~SetupFails(svcs)
  /\ Resume(c, [clnt[c] EXCEPT
                  !.pc = "ready",
                  !.scope = IF Program[c] \in {"graphd", "svcs"} THEN svcs ELSE <<>>,
                  !.view = IF Program[c] = "graphd" THEN graph_setup_all(svcs) ELSE <<>>])

GotAllFails(c) ==
  /\ Receives(c, "get-all-services-merged")
  /\ Program[c] = "graphd" /\ SetupFails(s16db_ucl_to_svcs(Head(down[c]).result))
  /\ Leave(c, "gone")

\* s16db_repo_get_path_merged: what the caller makes of the reply.
Answer(result) ==
  CASE result["type"] = "error" -> [type |-> "NOTFOUND"]
    [] result["type"] = "svc"   -> [type |-> "SVC", s |-> s16db_ucl_to_svc(result["value"])]
    [] OTHER                    -> [type |-> "INSTANCE", i |-> s16db_ucl_to_inst(result["value"])]

GotPath(c) ==
  /\ Receives(c, "get-path-merged")
  /\ Resume(c, [clnt[c] EXCEPT !.pc = "ready", !.answer = <<Answer(Head(down[c]).result)>>])

\* s16db_subscribe, s16db_enable, s16db_disable, s16db_import_ucl_svc
GotResult(c) ==
  /\ \E method \in {"subscribe", "enable", "disable", "import-service"} : Receives(c, method)
  /\ Resume(c, [clnt[c] EXCEPT !.pc = IF Program[c] = "graphd" /\ clnt[c].count = 1 THEN "loop" ELSE "ready"])

\* A command is done.
Quit(c) ==
  /\ clnt[c].pc = "ready" /\ clnt[c].count > 0 /\ Program[c] # "graphd"
  /\ Leave(c, "done")

Kill(c) == c \in Killable /\ Alive(c) /\ Leave(c, "gone")

\* graphd: handle_notify, by way of s16db_investigate_kevent; the answer is
\* sent before the note is looked at.
Notified(c) ==
  /\ clnt[c].pc = "loop" /\ down[c] # <<>> /\ link[c] # "closed"
  /\ clnt' = [clnt EXCEPT ![c].pc = "process",
                          ![c].note = <<s16db_ucl_to_note(Head(down[c]).note)>>]
  /\ up' = [up EXCEPT ![c] = Append(@, Noted)]
  /\ down' = [down EXCEPT ![c] = Tail(@)]
  /\ UNCHANGED <<srv, db, path, starts, link, log>>

\* graphd: graph_process_note; the cascade that follows is module Graph.
Process(c) ==
  LET note == clnt[c].note[1] IN
  /\ clnt[c].pc = "process"
  /\ Key(note.path) \in DOMAIN clnt[c].view
  /\ clnt' = [clnt EXCEPT ![c].pc = "loop", ![c].note = <<>>,
                          ![c].view[Key(note.path)] = (note.type = "A_ENABLE"),
                          ![c].got = Append(@, note)]
  /\ UNCHANGED <<srv, db, path, starts, queues, log>>

\* A path without a vertex is a null pointer.
ProcessFails(c) ==
  /\ clnt[c].pc = "process"
  /\ Key(clnt[c].note[1].path) \notin DOMAIN clnt[c].view
  /\ Leave(c, "gone")

-----------------------------------------------------------------------------
(* configd *)

\* The end of the process and of all its connections.
Ended ==
  /\ srv' = Idle /\ db' = EmptyDb /\ log' = NoLog
  /\ link' = [c \in Client |-> IF link[c] = "none" THEN "none" ELSE "closed"]
  /\ up' = [c \in Client |-> <<>>]
  /\ UNCHANGED <<starts, down, clnt>>

\* By a signal or a failed assertion; the name of the socket stays.
Die == Ended /\ UNCHANGED path

\* main, up to the loop.  One configd is followed at a time: after StartFails has
\* removed the name of one that runs, a further start would bind and run beside
\* it, and is left out.
Start ==
  /\ srv.pc = "down" /\ ~path /\ starts < MaxStarts
  /\ srv' = [Idle EXCEPT !.pc = "kevent"]
  /\ path' = TRUE /\ starts' = starts + 1
  /\ UNCHANGED <<db, queues, clnt, log>>

\* Mutant: the name of the socket is removed only by a configd that has run.
give_up == path /\ UNCHANGED vars

\* The name is left from a configd that was killed, or is that of one that runs:
\* bind fails, and clean_exit removes the name.
StartFails ==
  /\ path /\ (srv.pc = "down" \/ Twice)
  /\ path' = FALSE
  /\ UNCHANGED <<srv, db, starts, queues, clnt, log>>

\* SIGINT ends the loop; clean_exit.
Interrupt ==
  /\ srv.pc = "kevent"
  /\ Ended /\ path' = FALSE

\* The kinds of event, in s16rpc_investigate_kevent: a connection ...
Accept(c) ==
  /\ srv.pc = "kevent" /\ link[c] = "backlog"
  /\ link' = [link EXCEPT ![c] = "open"]
  /\ UNCHANGED <<srv, db, path, starts, up, down, clnt, log>>

\* ... something to read ...
Readable(c) ==
  /\ srv.pc = "kevent" /\ link[c] = "open" /\ Alive(c)
  /\ up[c] # <<>> \/ clnt[c].pc = "half"
  /\ srv' = [srv EXCEPT !.pc = "recv", !.who = c]
  /\ UNCHANGED <<db, path, starts, queues, clnt, log>>

\* Mutant: a subscriber that has gone stays on the list.
keep_subscriber(c) == srv.subs

\* main: the last subscriber with this connection leaves the list.
Unsubscribed(c) ==
  LET k == SelectLastInSeq(srv.subs, LAMBDA x : x = c)
  IN  IF k = 0 THEN srv.subs ELSE RemoveAt(srv.subs, k)

\* ... or the end of a connection, whatever there is left to read on it.
Eof(c) ==
  /\ srv.pc = "kevent" /\ link[c] = "open" /\ ~Alive(c)
  /\ link' = [link EXCEPT ![c] = "closed"]
  /\ up' = [up EXCEPT ![c] = <<>>]
  /\ srv' = [srv EXCEPT !.subs = Unsubscribed(c)]
  /\ UNCHANGED <<db, path, starts, down, clnt, log>>

\* dispatch_method and the handlers: all that may come of a request.
Outcomes(m) ==
  CASE m.method = "get-all-services-merged" -> {handle_get_all_services_merged(db)}
    [] m.method = "get-path-merged" -> {handle_get_path_merged(db, m.param)}
    [] m.method = "subscribe" -> {Outcome(db, <<>>, 0)}
    [] m.method = "import-service" -> handle_import_service(db, m.param)
    [] OTHER -> {handle_disable(db, m.param, m.method = "enable")}

\* A request for a path that is not there: enable and disable follow the null
\* pointer that the look-up returns.
Unknown(m) ==
  /\ m.method \in {"enable", "disable"}
  /\ ~Found(db_lookup_path_merged(db, s16db_string_to_path(m.param)))

\* What a request adds to the history: its notes, or an import.
Logged(m, queued) ==
  CASE m.method \in {"enable", "disable"} ->
         [log EXCEPT !.requests = @ \o [k \in DOMAIN queued |->
            [path |-> s16db_string_to_path(m.param), note |-> queued[k]]]]
    [] m.method = "import-service" /\ svc_converts(m.param) ->
         [log EXCEPT !.imports = Append(@,
            [path |-> s16db_string_to_path(m.param["path"]), file |-> m.file,
             at |-> Len(log.requests)])]
    [] OTHER -> log

\* Mutant: a subscriber is entered twice.
subscribe_twice(c, m) == IF m.method = "subscribe" THEN srv.subs \o <<c, c>> ELSE srv.subs

\* handle_subscribe
Subscribed(c, m) == IF m.method = "subscribe" THEN Append(srv.subs, c) ELSE srv.subs

\* Mutant: one note is sent for each event.
one_note(s) ==
  IF s.todo = <<>> THEN [s EXCEPT !.pc = "kevent", !.hand = <<>>]
  ELSE [s EXCEPT !.pc = "notify"]

\* main: back to waiting, when no note is left and all have been told.
Loop(s) ==
  IF s.todo = <<>> /\ s.notes = <<>> THEN [s EXCEPT !.pc = "kevent", !.hand = <<>>]
  ELSE [s EXCEPT !.pc = "notify"]

\* handle_recv, handle_msg: the message is complete; it is handled and answered.
Handle ==
  LET c == srv.who
      m == Head(up[c])
  IN
  /\ srv.pc = "recv" /\ up[c] # <<>> /\ ~Unknown(m) /\ Alive(c)
  /\ \E o \in Outcomes(m) :
       /\ db' = o.db
       /\ srv' = Loop([srv EXCEPT !.who = NoClient, !.notes = @ \o o.notes,
                                  !.subs = Subscribed(c, m)])
       /\ down' = [down EXCEPT ![c] = Append(@, Reply(m, o.result))]
       /\ log' = Logged(m, o.notes)
  /\ up' = [up EXCEPT ![c] = Tail(@)]
  /\ clnt' = IF m.method = "subscribe" THEN [clnt EXCEPT ![c].since = Len(log.requests)] ELSE clnt
  /\ UNCHANGED <<path, starts, link>>

\* A null pointer in the handler, or nobody to write the reply to.
HandleDies ==
  /\ srv.pc = "recv" /\ up[srv.who] # <<>>
  /\ Unknown(Head(up[srv.who])) \/ ~Alive(srv.who)
  /\ Die

\* Mutant: the rest of the message is waited for.
wait_for_rest == srv.pc = "recv" /\ up[srv.who] = <<>> /\ ~Alive(srv.who) /\ UNCHANGED vars

\* handle_recv: the client has gone between the length and the message.
HandleNothing ==
  /\ srv.pc = "recv" /\ up[srv.who] = <<>> /\ ~Alive(srv.who)
  /\ srv' = Loop([srv EXCEPT !.who = NoClient])
  /\ UNCHANGED <<db, path, starts, queues, clnt, log>>

\* main, the loop over the notes: take one, ...
NextNote ==
  /\ srv.pc = "notify" /\ srv.todo = <<>> /\ srv.notes # <<>>
  /\ srv' = Loop([srv EXCEPT !.hand = <<Head(srv.notes)>>, !.notes = Tail(@), !.todo = srv.subs])
  /\ UNCHANGED <<db, path, starts, queues, clnt, log>>

\* ... send it to a subscriber ...
Tell ==
  /\ srv.pc = "notify" /\ srv.todo # <<>> /\ Alive(Head(srv.todo))
  /\ down' = [down EXCEPT ![Head(srv.todo)] = Append(@, Notify(srv.hand[1]))]
  /\ srv' = [srv EXCEPT !.pc = "reply"]
  /\ UNCHANGED <<db, path, starts, link, up, clnt, log>>

\* ... and wait for its answer.
Told ==
  /\ srv.pc = "reply" /\ up[Head(srv.todo)] # <<>>
  /\ up' = [up EXCEPT ![Head(srv.todo)] = Tail(@)]
  /\ srv' = Loop([srv EXCEPT !.todo = Tail(@)])
  /\ UNCHANGED <<db, path, starts, link, down, clnt, log>>

\* Mutant: the answer of a subscriber that has gone is waited for.
wait_for_answer ==
  /\ srv.todo # <<>> /\ ~Alive(Head(srv.todo)) /\ srv.pc = "reply"
  /\ UNCHANGED vars

\* SIGPIPE, or the assertion in recv_text.
TellDies ==
  /\ srv.todo # <<>> /\ ~Alive(Head(srv.todo))
  /\ srv.pc = "notify" \/ (srv.pc = "reply" /\ up[Head(srv.todo)] = <<>>)
  /\ Die

-----------------------------------------------------------------------------
Init ==
  /\ srv = Idle /\ db = EmptyDb /\ path = FALSE /\ starts = 0
  /\ link = [c \in Client |-> "none"]
  /\ up = [c \in Client |-> <<>>] /\ down = [c \in Client |-> <<>>]
  /\ clnt = [c \in Client |-> Fresh("off")]
  /\ log = NoLog

\* The steps that configd, and a client that has begun a call, take by
\* themselves.
Event   == \E c \in Client : Accept(c) \/ Readable(c) \/ Eof(c)
Serve   == Event \/ Handle \/ HandleDies \/ HandleNothing
             \/ NextNote \/ Tell \/ Told \/ TellDies
Work(c) == Write(c) \/ PeerGone(c) \/ GotAll(c) \/ GotAllFails(c) \/ GotPath(c) \/ GotResult(c)
             \/ Notified(c) \/ Process(c) \/ ProcessFails(c)
Launch  == Start \/ (srv.pc = "down" /\ StartFails)
Begin(c) == Connect(c) \/ ConnectFails(c) \/ CallFails(c)
              \/ \E m \in NextCalls(c) : Call(c, m)

Next ==
  \/ Start \/ StartFails \/ Interrupt \/ Serve
  \/ \E c \in Client : Work(c) \/ Begin(c) \/ Quit(c) \/ Kill(c)

Spec == Init /\ [][Next]_vars

\* configd and a client that has begun a call keep going; nobody has to begin a
\* call.  That configd is started again is assumed of whoever runs it: restartd
\* does so only after a failure, and not after too many of them.
FairSpec == Spec /\ WF_vars(Serve) /\ WF_vars(Launch) /\ \A c \in Client : WF_vars(Work(c))

-----------------------------------------------------------------------------
(* Properties. *)

Subscribers == {c \in Client : Alive(c) /\ link[c] = "open" /\ c \in ToSet(srv.subs)}

\* What a subscriber is to be told, what it has got or is on its way (after the
\* reply to its call, if that is still to be read), and what is still to be sent.
Owed(c) ==
  [k \in 1 .. Len(log.requests) - clnt[c].since |-> log.requests[clnt[c].since + k].note]

Sent(c) ==
  LET calls == down[c] # <<>> /\ Head(down[c]).kind = "reply"
      sent  == IF calls THEN Tail(down[c]) ELSE down[c]
  IN  clnt[c].got \o clnt[c].note \o [k \in DOMAIN sent |-> s16db_ucl_to_note(sent[k].note)]

Unsent(c) ==
  LET waiting == IF srv.pc = "reply" THEN Tail(srv.todo) ELSE srv.todo
  IN  (IF c \in ToSet(waiting) THEN srv.hand ELSE <<>>) \o srv.notes

(* The next message a waiting client finds is the reply to its own request,
   and what configd finds where it waits for a subscriber is the answer to its
   note: although both directions of a connection carry requests and replies
   and nothing on the wire tells which reply belongs to which request
   (recv_reply takes the next message), the order of handle_msg, of the loop
   over the notes and of graphd's own calls keeps them apart. *)
OwnReply ==
  /\ \A c \in Client : (clnt[c].pc = "wait" /\ down[c] # <<>>) =>
       /\ down[c][1].kind = "reply" /\ down[c][1].re = clnt[c].call
  /\ (srv.pc = "reply" /\ up[Head(srv.todo)] # <<>>) => up[Head(srv.todo)] = <<Noted>>

(* A subscriber is told of every request since it subscribed, once and in the
   order configd handled them, whatever comes and goes in between: what it has
   processed, what is on its way and what is queued make up the history. *)
ToldOnceInOrder == \A c \in Subscribers : Sent(c) \o Unsent(c) = Owed(c)

\* The last request since c subscribed that is about instance i, 0 if there is
\* none, or if the service has been imported since.
LastRequest(c, i) ==
  LET about == {k \in clnt[c].since + 1 .. Len(log.requests) : Key(log.requests[k].note.path) = i}
      last  == Max(about \cup {0})
  IN  IF \E e \in ToSet(log.imports) : e.path.svc = i[1] /\ e.at >= last THEN 0 ELSE last

(* When configd waits for an event and graphd has processed what it was told,
   the flag in the repository and graphd agree about an instance, if the last
   that happened to it was a request for the instance, or to disable its
   service.  They do not agree after a request to enable the service (the flag
   is cleared), nor after the service has been imported again (the flag is set
   and graphd is not told). *)
Agree ==
  srv.pc = "kevent" =>
    \A c \in Subscribers : clnt[c].pc = "loop" =>
      \A i \in DOMAIN clnt[c].view :
        LET last == LastRequest(c, i)
            lu   == db_lookup_path_merged(db, S16PathNew(i[1], i[2]))
        IN  ( /\ last # 0
              /\ \/ log.requests[last].path.inst # NULL
                 \/ log.requests[last].note.type = "A_DISABLE" )
            => clnt[c].view[i] = db.manifest[lu.s].insts[lu.i].enabled

(* configd dies only of a client that was killed or crashed and whose end it
   has not noticed yet, or of a request for a path that it does not have: no
   order of imports, requests, subscriptions and look-ups of clients that run
   to their end harms it, and nor does a subscriber it has seen off.  The second
   cause is not what Repository.h promises (UnknownDoesNothing, next). *)
DiesOf ==
  [][(srv.pc # "down" /\ srv'.pc = "down" /\ path')
       => \/ \E c \in Client : clnt[c].pc = "gone" /\ link[c] = "open"
          \/ srv.pc = "recv" /\ up[srv.who] # <<>> /\ Unknown(Head(up[srv.who]))]_vars

(* A request to enable or disable a path that is not in the repository does
   nothing, as Repository.h says of s16db_disable and s16db_enable.  In the
   code it ends configd (handle_disable): this one is checked to fail. *)
UnknownDoesNothing ==
  [][(srv.pc = "recv" /\ up[srv.who] # <<>> /\ Alive(srv.who) /\ Unknown(Head(up[srv.who])))
       => srv'.pc # "down"]_vars

(* A client that waits for a reply does not wait for ever: it gets the reply,
   or is told that configd is gone; configd, clients and subscribers never wait
   for one another in a circle. *)
Answered == \A c \in Client : clnt[c].pc = "wait" ~> clnt[c].pc # "wait"

(* configd always comes back to wait for the next event, or is down for good:
   no client can hold it by leaving in the middle of a message or of a note. *)
ComesBack == []<>(srv.pc \in {"kevent", "down"})

(* Every request that configd has accepted is carried out by graphd, unless one
   of the two goes. *)
CarriedOut ==
  \A c \in Client : (c \in Subscribers /\ clnt[c].got # Owed(c))
                      ~> (c \notin Subscribers \/ clnt[c].got = Owed(c))

(* If it is started whenever it is down (WF of Launch), configd comes up, even
   though a configd that was killed leaves the name of its socket behind and
   the next start then fails: the failed start removes the name. *)
Restartable == (srv.pc = "down" /\ starts < MaxStarts) ~> srv.pc # "down"

-----------------------------------------------------------------------------
(* What a manifest says, read off the manifest itself, and what a service
   structure says, both as a name, dependency groups and instances. *)

Word(w, words, other) == IF w \in words THEN w ELSE other

\* The names in the text of a path, read from its end.
Names(txt) ==
  IF ":" \in ToSet(txt) THEN <<txt[Len(txt) - 2], Last(txt)>> ELSE <<Last(txt)>>

GroupSaid(x) ==
  <<Word(x["grouping"], GroupTypes, "INVALID-TYPE"), Word(x["restart-on"], RestartWords, "INVALID"),
    Map(Names, x["paths"])>>

GroupsSaid(u) == IF Has(u, "dependencies") THEN Map(GroupSaid, u["dependencies"]) ELSE <<>>

InstSaid(i) == <<IF Has(i, "name") THEN i["name"] ELSE "(null)", GroupsSaid(i)>>

InstsSaid(u) == IF Has(u, "instances") THEN Map(InstSaid, u["instances"]) ELSE <<>>

Says(u) == <<Last(u["name"]), GroupsSaid(u), InstsSaid(u)>>

PathTold(p)   == IF p.inst = NULL THEN <<p.svc>> ELSE Key(p)
GroupTold(d)  == <<d.type, d.restart_on, Map(PathTold, d.paths)>>
GroupsTold(x) == Map(GroupTold, x.depgroups)
InstTold(i)   == <<i.path.inst, GroupsTold(i)>>

Tells(svc) == <<svc.path.svc, GroupsTold(svc), Map(InstTold, svc.insts)>>

\* A service lists the instances of its manifest u or, if none of them has the
\* name of the default instance, those and a default one generated for it.
ListsInstances(insts, u) ==
  LET default == IF Has(u, "default-instance") THEN u["default-instance"] ELSE "default"
  IN  \/ insts = InstsSaid(u)
      \/ /\ \A i \in ToSet(InstsSaid(u)) : i[1] # default
         /\ insts = Append(InstsSaid(u), <<default, <<>>>>)

Delivers(svc, u) ==
  /\ Tells(svc)[1] = Says(u)[1] /\ Tells(svc)[2] = Says(u)[2]
  /\ ListsInstances(Tells(svc)[3], u)

(* The services, instances and dependencies of the manifests that configd was
   given, all of them and in their order, are what it serves and what a client
   holds, through every conversion and copy between the file and the client:
   canonicalise_svc, the two forms of convert.c and the copies of
   update_merged.  Nothing is added but, at most, the default instance that
   db.c and Service.h speak of (and that no code generates). *)
DependenciesArrive ==
  LET Same(svcs) == /\ Len(svcs) <= Len(log.imports)
                    /\ \A k \in DOMAIN svcs : Delivers(svcs[k], log.imports[k].file)
  IN  /\ Len(db.merged) = Len(log.imports) /\ Same(db.merged)
      /\ \A c \in Client : (link[c] = "open" /\ Alive(c)) => Same(clnt[c].scope)

\* The properties of a manifest's method that have both a name and a value
UsableIn(m) ==
  IF Has(m, "properties")
  THEN {k \in DOMAIN m["properties"] :
          Has(m["properties"][k], "name") /\ Has(m["properties"][k], "value")}
  ELSE {}

\* The methods of a manifest's instance that have a name
NamedIn(i) == IF Has(i, "methods") THEN {m \in ToSet(i["methods"]) : Has(m, "name")} ELSE {}

\* Their names, with the number of their usable properties
Counted(meths) == {<<m["name"], Cardinality(UsableIn(m))>> : m \in meths}

(* No method with a usable property, and no usable property of it, is lost
   between the manifest and the client, and a client holds no method, and no
   property, that is not in the manifest.  (Of the methods without a usable
   property the repository says nothing; the code loses them on the way.) *)
MethodsArrive ==
  \A c \in Client : (link[c] = "open" /\ Alive(c)) =>
    \A k \in DOMAIN clnt[c].scope :
      LET insts == clnt[c].scope[k].insts
          file  == log.imports[k].file
      IN  \A l \in DOMAIN insts \cap DOMAIN InstsSaid(file) :
            LET held  == {<<m.name, Len(m.props)>> : m \in ToSet(insts[l].meths)}
                named == NamedIn(file["instances"][l])
            IN  /\ Counted({m \in named : UsableIn(m) # {}}) \subseteq held
                /\ held \subseteq Counted(named)

\* The dependency groups that the last manifest imported for the service of p
\* gives the path p, one set of them for each time it declares p.
SaidOf(imports, p) ==
  LET k == SelectLastInSeq(imports, LAMBDA e : Last(e.file["name"]) = p.svc)
  IN  IF k = 0 THEN {}
      ELSE IF p.inst = NULL THEN {GroupsSaid(imports[k].file)}
      ELSE {x[2] : x \in {y \in ToSet(InstsSaid(imports[k].file)) : y[1] = p.inst}}

RightAnswer(imports, p, answer) ==
  IF SaidOf(imports, p) = {} THEN answer.type = "NOTFOUND"
  ELSE /\ answer.type # "NOTFOUND" /\ S16PathEqual(answer.s.path, p)
       /\ GroupsTold(answer.s) \in SaidOf(imports, p)

(* A look-up says NOTFOUND exactly when the last manifest imported for the
   service, if there is one, does not declare the path, and otherwise the
   caller gets the path it asked for with the dependencies of the manifest:
   earlier imports of a service are hidden by later ones, instances and all. *)
LookupAnswers ==
  [][\A c \in Client :
       (Len(down'[c]) > Len(down[c]) /\ Last(down'[c]).kind = "reply"
          /\ Last(down'[c]).re.method = "get-path-merged") =>
       RightAnswer(log.imports, s16db_string_to_path(Last(down'[c]).re.param),
                   Answer(Last(down'[c]).result))]_vars

=============================================================================
