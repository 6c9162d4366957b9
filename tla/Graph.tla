-------------------------------- MODULE Graph --------------------------------
(***************************************************************************)
(* The graph engine of s16.graphd (usr/src/agent/graphd/graph.c) and the   *)
(* loop that feeds it (graphd.c).                                          *)
(*                                                                         *)
(* A vertex is an instance, a service or a dependency group.  Edges run    *)
(* from a service to its instances, from an instance to its dependency     *)
(* groups and from a group to the instances and services it names.  The    *)
(* shape of the graph is fixed once graph_setup_all has run, so it is a    *)
(* constant here; module GraphSetup is about how it is built.              *)
(*                                                                         *)
(* The engine is driven by notes.  A note from the repository is handled   *)
(* only when the internal queue is empty, and the queue is then drained    *)
(* before the next one is read, so every request starts a cascade of       *)
(* internal notes that runs to quiescence.  Processing one note is one     *)
(* action.                                                                 *)
(***************************************************************************)
EXTENDS Naturals, Sequences, SequencesExt

CONSTANTS
  Inst,          \* vertices of type V_INST
  Svc,           \* vertices of type V_SVC
  DepGroup,      \* vertices of type V_DEPGROUP
  graph,         \* the vertex list, in the order the vertices were added
  dependencies,  \* vertex -> the vertices it depends on, in edge order
  dependents,    \* vertex -> the vertices that depend on it, in edge order
  dg_type,       \* vertex -> its grouping
  restart_on,    \* vertex -> its restart-on condition
  Script         \* the notes graph_setup_all is hard-coded to try first

Vertex == Inst \cup Svc \cup DepGroup

\* S16DependencyGroupType
DgType == {"RequireAll", "RequireAny", "OptionalAll", "ExcludeAll"}

\* S16DependencyGroupRestartOnCondition: an ordered enumeration.
RestartOnNone    == 0
RestartOnError   == 1
RestartOnRestart == 2
RestartOnRefresh == 3
RestartOnAny     == 4
RestartOn == RestartOnNone .. RestartOnAny

\* S16ServiceState.  The engine itself never sets the last two.
State == {"Uninitialised", "Offline", "Online", "Disabled",
          "Maintenance", "Degraded"}

Note == [type : {"SC_ONLINE", "SC_OFFLINE", "SC_DISABLED"},
         path : Inst, reason : RestartOn]

Request == [type : {"A_ENABLE", "A_DISABLE", "SC_OFFLINE"}, path : Inst]

ASSUME GraphAssumption ==
  /\ graph \in Seq(Vertex) /\ ToSet(graph) = Vertex
  /\ Inst \cap Svc = {} /\ Inst \cap DepGroup = {} /\ Svc \cap DepGroup = {}
  /\ dependencies \in [Vertex -> Seq(Vertex)]
  /\ dependents \in [Vertex -> Seq(Vertex)]
  /\ dg_type \in [Vertex -> DgType]
  /\ restart_on \in [Vertex -> RestartOn]
  /\ Script \in Seq(Request)

\* Every edge is entered at both of its ends (vtx_edge_add); an instance
\* depends on groups, a service on instances, a group on anything but a group,
\* and an exclude-all group on instances only (the code asserts that).
ASSUME EdgeAssumption ==
  /\ \A v, w \in Vertex : Contains(dependencies[v], w) <=> Contains(dependents[w], v)
  /\ \A v, w \in Vertex : Contains(dependencies[v], w) =>
        \/ v \in Inst     /\ w \in DepGroup
        \/ v \in Svc      /\ w \in Inst
        \/ v \in DepGroup /\ w \notin DepGroup /\ (dg_type[v] = "ExcludeAll" => w \in Inst)
  /\ \A v \in Inst \cup Svc : dg_type[v] = "RequireAll" /\ restart_on[v] = RestartOnAny

\* There are no cycles: GraphSetup is about how they are refused.  In any set of
\* vertices there is one that none of the others depends on.
ASSUME AcyclicAssumption ==
  \A S \in SUBSET Vertex : S # {} => \E v \in S : ToSet(dependents[v]) \cap S = {}

(***************************************************************************)
(* The recursive walks.  A walk visits the neighbours of a vertex in edge  *)
(* order, depth first, and goes on from each vertex in Pass; a vertex with *)
(* two paths to it is visited twice, as in the code.                       *)
(***************************************************************************)
Walk(next, Pass) ==
  LET from[v \in Vertex] ==
        FlattenSeq([k \in DOMAIN next[v] |->
          <<next[v][k]>> \o (IF next[v][k] \in Pass THEN from[next[v][k]] ELSE <<>>)])
  IN  [v \in Vertex |-> from[v]]

\* vtx_notify_start: up to the nearest instances.
StartWalk == Walk(dependents, Svc \cup DepGroup)

\* vtx_notify_stop: the same, but not through an exclude-all group, nor
\* through one whose restart-on condition is below the reason.
Follows(reason) ==
  {g \in DepGroup : dg_type[g] # "ExcludeAll" /\ restart_on[g] >= reason}

StopWalk == [reason \in RestartOn |-> Walk(dependents, Svc \cup Follows(reason))]

\* vtx_notify_misc: everything above.
MiscWalk == Walk(dependents, Vertex)

\* vtx_notify_admin_disable: everything above that an administrative stop
\* reaches.
Stops ==
  {g \in DepGroup : /\ dg_type[g] # "ExcludeAll"
                    /\ restart_on[g] \notin {RestartOnNone, RestartOnError}}

DisableWalk == Walk(dependents, Inst \cup Svc \cup Stops)

\* vtx_offline_dependency: down to the nearest instances.
DependencyWalk == Walk(dependencies, Svc \cup DepGroup)

-----------------------------------------------------------------------------
VARIABLES
  state,       \* instance -> its service state
  is_enabled,  \* instance -> may it run?
  to_offline,  \* instance -> is it marked to go offline?
  to_disable,  \* instance -> is it marked to be disabled?
  notes,       \* the internal note queue
  script       \* the hard-coded requests still to be tried

vars == <<state, is_enabled, to_offline, to_disable, notes, script>>

TypeOK ==
  /\ state \in [Inst -> State]
  /\ is_enabled \in [Inst -> BOOLEAN]
  /\ to_offline \in [Inst -> BOOLEAN]
  /\ to_disable \in [Inst -> BOOLEAN]
  /\ notes \in Seq(Note)
  /\ script \in Seq(Request)

-----------------------------------------------------------------------------
(* Satisfaction of dependencies. *)

SATISFIED     == 0
UNSATISFIED   == 1
UNSATISFIABLE == 2

vtx_is_running(v) == state[v] \in {"Online", "Degraded"}

\* "below" is what depgroup_is_satisfied says of the instance itself.
vtx_inst_satisfies(v, below) ==
  IF ~is_enabled[v] THEN UNSATISFIABLE
  ELSE CASE state[v] = "Uninitialised"               -> UNSATISFIED
         [] state[v] \in {"Disabled", "Maintenance"} -> UNSATISFIABLE
         [] state[v] = "Offline" -> IF below = UNSATISFIABLE THEN UNSATISFIABLE ELSE UNSATISFIED
         [] OTHER                                    -> SATISFIED

vtx_inst_satisfies_optional(v, below) ==
  CASE state[v] = "Uninitialised" -> UNSATISFIED
    [] state[v] = "Offline" -> IF below = UNSATISFIABLE THEN SATISFIED ELSE UNSATISFIED
    [] OTHER                      -> SATISFIED

vtx_inst_satisfies_exclusion(v) ==
  CASE state[v] \in {"Uninitialised", "Offline"} -> UNSATISFIED
    [] state[v] \in {"Maintenance", "Disabled"}  -> SATISFIED
    [] OTHER -> IF is_enabled[v] THEN UNSATISFIABLE ELSE UNSATISFIED

\* The accumulator of the "all" loops: the worst of the members' answers.
Worst(answers) ==
  IF UNSATISFIABLE \in answers THEN UNSATISFIABLE
  ELSE IF UNSATISFIED \in answers THEN UNSATISFIED ELSE SATISFIED

\* depgroup_is_satisfied (v, true).  The require-any accumulator is a bool, so
\* its initial UNSATISFIABLE (2) is stored as 1, which is UNSATISFIED.
depgroup_is_satisfied ==
  LET sat[v \in Vertex] ==
        LET members      == ToSet(dependencies[v])
            satisfies(w) == IF w \in Inst THEN vtx_inst_satisfies(w, sat[w]) ELSE sat[w]
            insts        == (members \cap Inst) \cup
                              UNION {ToSet(dependencies[w]) : w \in members \cap Svc}
        IN CASE dg_type[v] = "RequireAll" -> Worst({satisfies(w) : w \in members})
             [] dg_type[v] = "RequireAny" ->
                  IF members = {} \/ \E w \in members : satisfies(w) = SATISFIED
                  THEN SATISFIED ELSE UNSATISFIED
             [] dg_type[v] = "OptionalAll" ->
                  Worst({vtx_inst_satisfies_optional(w, sat[w]) : w \in insts})
             [] dg_type[v] = "ExcludeAll" ->
                  Worst({vtx_inst_satisfies_exclusion(w) : w \in members})
  IN  sat

\* Mutants: the administrator's wish, or the dependencies, are not looked at.
come_up_unasked(v) == ~to_offline[v] /\ ~to_disable[v] /\ depgroup_is_satisfied[v] = SATISFIED
come_up_alone(v)   == is_enabled[v] /\ ~to_offline[v] /\ ~to_disable[v]

vtx_inst_can_come_up(v) ==
  /\ is_enabled[v] /\ ~to_offline[v] /\ ~to_disable[v]
  /\ depgroup_is_satisfied[v] = SATISFIED

\* vtx_can_go_down (v, true): nothing above v that is marked to go offline is
\* still running.  Unmarked instances end the search.
vtx_can_go_down(v) ==
  LET quiet[u \in Vertex] ==
        \A w \in ToSet(dependents[u]) :
          \/ w \in Inst /\ ~to_offline[w]
          \/ quiet[w] /\ (w \in Inst => ~vtx_is_running(w))
  IN  quiet[v]

-----------------------------------------------------------------------------
(* The notes that a handler adds to the queue. *)

\* The subsequence of the elements of s that are in S.
Keep(s, S) ==
  LET kept[k \in 0 .. Len(s)] ==
        IF k = 0 THEN <<>>
        ELSE IF s[k] \in S THEN Append(kept[k - 1], s[k]) ELSE kept[k - 1]
  IN  kept[Len(s)]

\* Mutant: the walk does not look at the type of the vertex.
notes_for_all(type, visited, S, reason) ==
  [k \in 1 .. Len(visited) |-> [type |-> type, path |-> visited[k], reason |-> reason]]

\* One note for each visited vertex in the set S, in the order of the visit.
NotesFor(type, visited, S, reason) ==
  LET hit == Keep(visited, S)
  IN  [k \in 1 .. Len(hit) |-> [type |-> type, path |-> hit[k], reason |-> reason]]

\* Mutants: a marked instance does not wait for what is above it; starting
\* looks only at the direct dependents; an instance that went offline does
\* not release what is below it; the bounce queues the wrong note.
drop_at_once              == {v \in Inst : to_offline[v]}
start_direct(i)           == NotesFor("SC_ONLINE", dependents[i], Inst, RestartOnNone)
release_none(i, reason)   == <<>>
bounce_down(i, reason)    == <<[type |-> "SC_OFFLINE", path |-> i, reason |-> reason]>>

Startable == {v \in Inst : vtx_inst_can_come_up(v) /\ ~vtx_is_running(v)}
Running   == {v \in Inst : vtx_is_running(v)}
Droppable == {v \in Inst : to_offline[v] /\ vtx_can_go_down(v)}

vtx_notify_start(i)            == NotesFor("SC_ONLINE", StartWalk[i], Startable, RestartOnNone)
vtx_notify_stop(i, reason)     == NotesFor("SC_OFFLINE", StopWalk[reason][i], Running, reason)
vtx_notify_misc(i, reason)     == NotesFor("SC_ONLINE", MiscWalk[i], Startable, reason)
vtx_offline_dependency(i, reason) ==
  NotesFor("SC_OFFLINE", DependencyWalk[i], Droppable, reason)
vtx_offline_if_possible        == NotesFor("SC_OFFLINE", graph, Droppable, RestartOnRestart)

vtx_online(i, reason)  == <<[type |-> "SC_ONLINE",   path |-> i, reason |-> reason]>>
vtx_offline(i, reason) == <<[type |-> "SC_OFFLINE",  path |-> i, reason |-> reason]>>
vtx_disable(i, reason) == <<[type |-> "SC_DISABLED", path |-> i, reason |-> reason]>>

-----------------------------------------------------------------------------
(* The handlers.  "rest" is the queue without the note that is handled. *)

\* vtx_process_state_change, SC_ONLINE
ProcessOnline(i, rest) ==
  /\ state' = [state EXCEPT ![i] = "Online"]
  /\ UNCHANGED <<is_enabled, to_offline, to_disable>>
  /\ notes' = rest \o vtx_notify_start(i)'

\* Mutant: the mark to_disable is not looked at.
offline_and_stay(i, reason, rest) ==
  /\ state' = [state EXCEPT ![i] = "Offline"]
  /\ to_offline' = [to_offline EXCEPT ![i] = FALSE]
  /\ UNCHANGED <<is_enabled, to_disable>>
  /\ notes' = rest \o vtx_offline_dependency(i, reason)' \o vtx_notify_stop(i, reason)'

\* vtx_process_state_change, SC_OFFLINE: a marked instance lets its
\* dependencies follow; any other tries to come straight back up.
ProcessOffline(i, reason, rest) ==
  /\ state' = [state EXCEPT ![i] = "Offline"]
  /\ to_offline' = [to_offline EXCEPT ![i] = FALSE]
  /\ UNCHANGED <<is_enabled, to_disable>>
  /\ \/ /\ to_offline[i]
        /\ notes' = rest \o vtx_offline_dependency(i, reason)'
                         \o (IF to_disable[i] THEN vtx_disable(i, reason) ELSE <<>>)
                         \o vtx_notify_stop(i, reason)'
     \/ /\ ~to_offline[i]
        /\ notes' = rest \o (IF vtx_inst_can_come_up(i)' THEN vtx_online(i, reason) ELSE <<>>)
                         \o vtx_notify_stop(i, reason)'

\* Mutant: the mark to_disable is left behind.
disabled_but_marked(i, reason, rest) ==
  /\ state' = [state EXCEPT ![i] = "Disabled"]
  /\ to_offline' = [to_offline EXCEPT ![i] = FALSE]
  /\ UNCHANGED <<is_enabled, to_disable>>
  /\ notes' = rest \o vtx_notify_misc(i, reason)'

\* vtx_process_state_change, SC_DISABLED
ProcessDisabled(i, reason, rest) ==
  /\ state' = [state EXCEPT ![i] = "Disabled"]
  /\ to_offline' = [to_offline EXCEPT ![i] = FALSE]
  /\ to_disable' = [to_disable EXCEPT ![i] = FALSE]
  /\ UNCHANGED is_enabled
  /\ notes' = rest \o vtx_notify_misc(i, reason)'

\* Mutant: the instance itself is not marked.
disable_dependents(i, rest) ==
  /\ to_disable' = [to_disable EXCEPT ![i] = TRUE]
  /\ to_offline' = [v \in Inst |-> to_offline[v] \/ v \in ToSet(DisableWalk[i])]
  /\ is_enabled' = [is_enabled EXCEPT ![i] = FALSE]
  /\ UNCHANGED state
  /\ notes' = rest \o vtx_offline_if_possible'

\* vtx_process_admin_req, A_DISABLE: mark the instance and everything above it
\* that must stop first, then take down whatever is free to go.
ProcessDisable(i, rest) ==
  /\ to_disable' = [to_disable EXCEPT ![i] = TRUE]
  /\ to_offline' = [v \in Inst |-> to_offline[v] \/ v = i \/ v \in ToSet(DisableWalk[i])]
  /\ is_enabled' = [is_enabled EXCEPT ![i] = FALSE]
  /\ UNCHANGED state
  /\ notes' = rest \o vtx_offline_if_possible'

\* vtx_process_admin_req, A_ENABLE: an instance that is up is bounced.
ProcessEnable(i, rest) ==
  /\ to_disable' = [to_disable EXCEPT ![i] = FALSE]
  /\ to_offline' = [to_offline EXCEPT ![i] = FALSE]
  /\ is_enabled' = [is_enabled EXCEPT ![i] = TRUE]
  /\ UNCHANGED state
  /\ notes' = rest \o vtx_offline(i, RestartOnRestart)

-----------------------------------------------------------------------------
Quiescent == notes = <<>>

\* graph_setup_all: vtx_setup enables every instance, then the ones that can
\* come up are told to.
Init ==
  /\ state = [i \in Inst |-> "Uninitialised"]
  /\ is_enabled = [i \in Inst |-> TRUE]
  /\ to_offline = [i \in Inst |-> FALSE]
  /\ to_disable = [i \in Inst |-> FALSE]
  /\ notes = NotesFor("SC_OFFLINE", graph, Startable, RestartOnNone)
  /\ script = Script

\* The loop takes the first internal note (s16note_list_lpop).
First(type, i, reason) ==
  ~Quiescent /\ Head(notes) = [type |-> type, path |-> i, reason |-> reason]

Online ==
  /\ \E i \in Inst, reason \in RestartOn :
        First("SC_ONLINE", i, reason) /\ ProcessOnline(i, Tail(notes))
  /\ UNCHANGED script

Offline ==
  /\ \E i \in Inst, reason \in RestartOn :
        First("SC_OFFLINE", i, reason) /\ ProcessOffline(i, reason, Tail(notes))
  /\ UNCHANGED script

Disabled ==
  /\ \E i \in Inst, reason \in RestartOn :
        First("SC_DISABLED", i, reason) /\ ProcessDisabled(i, reason, Tail(notes))
  /\ UNCHANGED script

Drain == Online \/ Offline \/ Disabled

\* The trials at the end of graph_setup_all, each after the queue has drained.
Try(type, i) ==
  /\ Quiescent /\ script # <<>> /\ Head(script) = [type |-> type, path |-> i]
  /\ script' = Tail(script)

TryDisable == \E i \in Inst : Try("A_DISABLE", i) /\ ProcessDisable(i, <<>>)
TryEnable  == \E i \in Inst : Try("A_ENABLE", i) /\ ProcessEnable(i, <<>>)
TryOffline == \E i \in Inst : Try("SC_OFFLINE", i) /\ ProcessOffline(i, RestartOnNone, <<>>)

Setup == TryDisable \/ TryEnable \/ TryOffline

\* main: an administrative request of an instance arrives from the repository.
AdminDisable(i) ==
  /\ Quiescent /\ script = <<>>
  /\ ProcessDisable(i, <<>>)
  /\ UNCHANGED script

AdminEnable(i) ==
  /\ Quiescent /\ script = <<>>
  /\ ProcessEnable(i, <<>>)
  /\ UNCHANGED script

Admin == \E i \in Inst : AdminDisable(i) \/ AdminEnable(i)

Next == Drain \/ Setup \/ Admin

Spec == Init /\ [][Next]_vars

\* The loop keeps draining and graph_setup_all runs to its end; nobody has to
\* send requests.
FairSpec == Spec /\ WF_vars(Drain) /\ WF_vars(Setup)

-----------------------------------------------------------------------------
(* Properties. *)

HasNote(s, type, i) == \E k \in DOMAIN s : s[k].type = type /\ s[k].path = i
Queued(type, i) == HasNote(notes, type, i)

(* An instance that still runs although it has been disabled is marked to be
   disabled: no cascade of dependency starts (vtx_notify_start,
   vtx_notify_misc, the bounce in vtx_process_state_change) brings a disabled
   instance back up. *)
RunsOnlyIfEnabled == \A i \in Running : is_enabled[i] \/ to_disable[i]

(* RunsOnlyIfEnabled, strengthened to an inductive invariant: a queued
   SC_ONLINE is for an enabled instance and a queued SC_DISABLED for a disabled
   one that is no longer marked to go offline, although the flags were read
   when the note was queued and are not read again when it is processed;
   a disable in progress is either waiting for the dependents to stop or has
   its SC_DISABLED queued; and an enable that found the instance Disabled has
   its SC_OFFLINE queued. *)
Inv ==
  /\ RunsOnlyIfEnabled
  /\ \A i \in Inst :
       /\ Queued("SC_ONLINE", i)   => is_enabled[i]
       /\ Queued("SC_DISABLED", i) => ~is_enabled[i] /\ i \notin Running
       /\ to_disable[i] => ~is_enabled[i] /\ (to_offline[i] \/ Queued("SC_DISABLED", i))
       /\ (state[i] = "Disabled" /\ is_enabled[i]) => Queued("SC_OFFLINE", i)

(* When the queue has drained no instance is left marked: every SC_OFFLINE that
   A_DISABLE holds back in vtx_can_go_down is released later by
   vtx_offline_dependency. *)
MarksCleared == Quiescent => \A i \in Inst : ~to_offline[i] /\ ~to_disable[i]

(* When the queue has drained nothing is left down that could come up: each
   change that satisfies a dependency reaches the instances waiting for it. *)
NoLostWakeup == Quiescent => Startable = {}

(* When the queue has drained a running instance has every require-all group
   satisfied whose restart-on condition makes it follow an administrative
   stop: the stop has reached it through vtx_notify_admin_disable or
   vtx_notify_stop. *)
DependenciesHold ==
  Quiescent => \A i \in Running, g \in DepGroup :
    (/\ Contains(dependencies[i], g)
     /\ dg_type[g] = "RequireAll"
     /\ restart_on[g] > RestartOnError) => depgroup_is_satisfied[g] = SATISFIED

(* A running instance that was marked goes offline only when no marked
   instance above it runs any more.  The code checks this when it queues the
   SC_OFFLINE, not when it processes it. *)
DisableOrder ==
  [][\A i \in Running : (to_offline[i] /\ state'[i] = "Offline") => vtx_can_go_down(i)]_vars

(* An instance that comes up has its dependencies satisfied: they were when the
   SC_ONLINE was queued, and it is not looked at again when it is processed. *)
StartsSatisfied ==
  [][\A i \in Inst \ Running :
       state'[i] = "Online" => depgroup_is_satisfied[i] = SATISFIED]_vars

(* A request to disable an instance is carried out: it reaches Disabled. *)
DisableDone == \A i \in Inst : to_disable[i] ~> state[i] = "Disabled"

(* Every cascade of notes comes to an end, so the next request is read. *)
CascadeEnds == []<>Quiescent

(* The engine implements the administrator's view of it. *)
Life == INSTANCE Lifecycle WITH
  enabled <- is_enabled,
  status  <- [i \in Inst |-> IF vtx_is_running(i) THEN "up"
                             ELSE IF state[i] = "Disabled" THEN "disabled" ELSE "down"]
ImplementsLifecycle == Life!Spec

=============================================================================
