# A TLA+ verification of System XVI (eComInit)

System XVI is a service manager in the style of SMF: daemons that keep a
repository of services, decide which service instances should run, and run
them. This directory holds TLA+ modules translated from its source, the TLC
configurations that check them on small instances, and TLAPS proofs. Paths
below are relative to the repository's `usr/src`.

## The system and its parts

| Part | State it keeps | Operations | Talks to |
|---|---|---|---|
| **graphd** `agent/graphd` | a graph of services, instances and dependency groups; per instance `state`, `is_enabled`, `to_offline`, `to_disable`; an internal FIFO of notes | build the graph; enable, disable; online, offline, disabled | reads services from configd and subscribes to its notes |
| **restartd** `agent/restartd` | units: state, target, tracked pids, main and secondary pid, failure counters, timers; the connection to configd and its retry delay | start; process birth and exit; watchdog and restart time-outs; READY=1; retry of the connection | forks the methods; kernel process events; sd_notify socket; starts configd |
| **configd** `agent/configd` | manifest and admin layers, the merged view, subscribers, a note queue | import, enable, disable, lookup, subscribe, notify | JSON-RPC server of the commands and daemons, and client of its subscribers |
| **libs16 db** `lib/s16/db` | a handle: connection, copy of the services, note queue | connect, lookup, subscribe, enable, import | configd |
| **libs16 rpc** `lib/s16/rpc` | connections with a partly received message | receive, dispatch, call and wait | used by the three above |
| **libs16 rr** `lib/s16/rr` | watched pids | fork and wait, report births and exits | the kernel, for restartd |
| **libs16 newrpc, mem, lists** | an nvlist RPC runtime, a pool allocator, linked lists | marshal, call; allocate, free, coalesce | |
| **PBus, PBus-Broker** `lib/PBus`, `agent/PBus-Broker` | an object tree; the broker's clients | resolve a path, forward a call | |
| **commands** `cmd` | none | svcadm, svccfg, svcs, svcnotify | configd |

graphd and restartd do not exchange messages in this version: graphd changes
its own picture of an instance's state, and restartd runs the one unit it
needs to bring configd up. restartd is therefore modelled on its own; what graphd
does with a note is `Graph`, and how a note gets to it from svcadm, over configd,
is `Configd`.

What is hard about each part, and hence what the properties are about:

* **graphd** runs cascades. One request queues notes, each note changes the
  state of one instance and queues more notes. A note is checked against the
  state when it is *queued* and applied without a check when it is *processed*.
  What must not happen: a disabled instance brought back by a stale note, an
  instance taken down before the ones that use it, a mark that is never
  cleared, an instance that could run and is never told to, a cascade that
  never ends.
* **restartd** is driven by events from three sources whose order is not
  fixed: process events, timers, and datagrams. What must not happen: a hung
  method without a watchdog, a unit at rest with processes alive, an endless
  restart loop, a second restart pending, a signal to a process that is not
  the unit's.
* **configd and rpc** mix a blocking client call and a server on one connection:
  configd answers a request of graphd, and calls graphd and waits for its answer,
  on the same socket, with replies that carry no number anybody looks at. Either
  end may be gone at any point, and writing to it is fatal. What must not happen:
  a note taken for a reply, a note told twice, out of order or never, a circle of
  processes waiting for one another, a repository and a graphd that disagree.
* **convert** turns a manifest into UCL, into structures, copies of them, UCL again
  and structures again in the client; something is easily lost on the way.
* **mem** is a free list at its limits: splitting, combining, the one place in the
  circle where addresses go down, and a request that does not fit.

`PROJECT.json` lists the hazards with their lines.

## Modules

| Module | What it is |
|---|---|
| `Graph` | the engine of graphd: `graph.c` and the loop of `graphd.c` |
| `Lifecycle` | what the engine promises the administrator; abstract |
| `GraphWalkProofs` | TLAPS proofs that the walks of `Graph` exist and what they visit |
| `GraphProofs` | TLAPS proofs about the flags and notes of `Graph`; EXTENDS `GraphWalkProofs` |
| `GraphOrderProofs` | TLAPS proofs about the marks of a disable; EXTENDS `GraphProofs` |
| `MCGraph` | two graphs for TLC |
| `GraphSetup` | how graphd builds the graph and looks for cycles |
| `MCGraphSetup` | sets of manifests for TLC |
| `Unit` | a unit of restartd with timers, process tracker, sd_notify and event loop |
| `UnitProofs` | TLAPS proofs about `Unit` |
| `MCUnit` | model values for TLC |
| `Convert` | services, paths, notes and their UCL forms: `convert.c`, the copies of `s16.c`, `canonicalise_svc` of svccfg |
| `Repository` | the data of configd: layers, look-up, flags and the request handlers; EXTENDS `Convert` |
| `Configd` | the process configd, its connections, and the programs that use it; EXTENDS `Repository` |
| `ConfigdProofs` | TLAPS proofs about the connections of `Configd` |
| `ConfigdDataProofs` | TLAPS proofs about what configd stores and hands out; EXTENDS `ConfigdProofs` |
| `ConfigdNotesProofs` | TLAPS proofs about its notes and flags; EXTENDS `ConfigdDataProofs` |
| `MCConfigd` | programs and manifests for TLC |
| `MemPool` | the allocator of `mem.c` |
| `Allocator` | what an allocator promises its callers; abstract |
| `MemPoolProofs` | TLAPS proofs about `MemPool`, the refinement of `Allocator` among them |
| `MCMemPool` | a small pool for TLC |

Definitions whose comment begins with "Mutant" are deliberate faults. No
specification uses them; they are substituted for the definition that follows
to show that a property notices.

### Graph

*State.* `state`, `is_enabled`, `to_offline` and `to_disable` are the fields of
`vertex_t`, kept for instances only, since nothing reads them of a service or a
group. `notes` is the internal queue. `script` is what is left of the trials
that `graph_setup_all` hard-codes (disable, enable and bounce `a:i`).
`is_setup` is TRUE of every instance once the graph is built and is left out.

*Constants.* The graph: edges in order at both ends, grouping and restart-on
condition of each vertex. `EdgeAssumption` says what `vtx_edge_add`,
`graph_install_service` and `setup_depgroup` produce; services have no groups
because `graph_install_service` sets their `is_setup`, so `vtx_setup` returns
at once. `AcyclicAssumption` says that there are no cycles: in any set of
vertices there is one that none of the others depends on. That the recursive
walks of the code then end, in whatever direction, is proved. It leaves out more than set-up
refuses: the search for cycles does not go through exclude-all groups, so that two
instances that exclude each other are accepted, and `vtx_notify_misc` recurses along such a cycle
without end. `Graph` says nothing of those graphs.

*Actions.* One per note: `Online`, `Offline`, `Disabled` process the head of the
queue; `TryDisable`, `TryEnable`, `TryOffline` are the trials; `AdminDisable`
and `AdminEnable` are requests from the repository. The loop receives at most
one message per kernel event and then drains the internal queue, so a request
is processed only when the queue is empty. Requests are for instances with
reason 0, which is what `db_set_enabled` of configd sends.

*Data.* `depgroup_is_satisfied` keeps two quirks of the code: the accumulator of
a require-any group is a `bool`, so UNSATISFIABLE becomes UNSATISFIED; and a
service is satisfied only when all its instances are. An exclude-all group over
a service trips an assertion in the code and is excluded by `EdgeAssumption`.

### GraphSetup

*State.* `g` is the graph under construction: the list of vertices, the
dependency lists, the vertices that are set up, and two observations, the
instances for which a cycle was reported and a failed assertion. `manifest`, the
dependency groups of the instances, is chosen in `Init` and stays. `next` is what
`main` and then `graph_setup_all` have left to do.

*Actions.* `Install` installs one service with its instances; `BeginSetup` and
`Setup` are the loop of `graph_setup_all` over the vertices. `Setup` is one call
of `vtx_setup` with the whole recursion below it: `vtx_update`, `setup_depgroup`,
`setup_dep`, `vtx_dependency_add` and the search `vtx_is_reachable_internal`, each
an operator of the same name.

*Abstractions.* `pathTo` is kept only as empty or not, since nothing else of it is
read. Groups of a service are left out, because an installed service counts as set
up. Restart-on conditions play no part here. The module uses RECURSIVE operators,
so nothing is proved about it.

`Graph` starts from a graph that was built correctly; what `GraphSetup` shows about
cycles is what its `AcyclicAssumption` rests on.

### Unit

*State.* `unit` is the `Unit` record plus the fields of `manager` its handlers
change. Timers are kept by number: `watchdogs` counts armed timers that call
`unit_timer_event`, and `own` says whether `timer_id` names one of them. That is
enough because the callback never compares ids. `alive` is the set of processes
the unit really has, `pids` the ones it tracks. `online` records that
`unit_enter_online` was reached; the code does not record it, which is one of
the findings. `inbox` holds the READY=1 datagrams that are still in the socket.

*Actions.* One per event that the loop of `restartd.c` handles: `Child`, `Exit`,
`ThreadExit` (netlink), `Watchdog`, `Restart`, `RepoRetry` (timers), `Ready`
(datagram), and `SendReady` of the service. A handler is a chain of
`unit_enter_*` calls, each an operator from a unit to the set of its possible
successors, one for every outcome of `fork` and of the connection to configd.

*Abstractions.* Time is left out: any armed timer may go off. Process events
arrive in order, so the unit learns of a birth or exit in one step. A timer can
always be armed. A fork that fails in `unit_enter_stop` with processes left makes
the code call itself again, arming one more watchdog for each attempt; the model lets one
of the first `MaxForks` attempts succeed or the code never return (`looping`). SIGINT, which ends restartd, and STATUS= datagrams, which are only
logged, are left out.

### Convert, Repository, Configd

*State.* `srv` is configd's main loop with its list of subscribers (`subs`) and its
queue of notes (`notes`); `hand` and `todo` are the note that is being sent and who
is still to be told. `db` is the repository: the manifest layer, on which look-ups
and flags work, and the merged view, which is what is listed. `path` is the name of
the socket in the file system. `link`, `up` and `down` are the connections. `clnt`
is a client: where it is in its call, its copy of the services, and of graphd the
instances it holds enabled and the note in hand. `log`, the requests that were
carried out and the manifests that were imported, and the fields `since` and `got` are
history, as are the fields of a message that say what it belongs to.

*Actions of configd.* `Start`, `StartFails` and `Interrupt` are its beginning and
end. One kernel event is handled at a time: `Accept`, `Readable` or `Eof`. A readable
connection leads to `Handle` (receive, dispatch, change the repository, queue notes,
reply, all in one step because nothing else of configd runs in between and clients see
nothing of it before the reply), `HandleDies` or `HandleNothing`. Then the notes:
`NextNote`, `Tell`, `Told`, `TellDies`. That configd waits, in the middle of a note,
for an answer from one client while others write to it is why these are steps of
their own.

*Actions of the clients.* `Connect`, then `Call` and `Write` (the length of a message
and its body are two writes, with a possible death in between), then `GotAll`,
`GotPath` or `GotResult`. graphd subscribes and then loops: `Notified` answers,
`Process` acts on the note. `Kill` ends a client at any point. `CallFails`,
`PeerGone`, `ConnectFails`, `GotAllFails` and `ProcessFails` are the ways in which
the code ends a client: SIGPIPE, the assertion in `recv_text`, a handle that was
never connected, an assertion in set-up, a note for an instance without a vertex.

*Data.* UCL objects are functions from their keys; a path's text is a sequence of
tokens. The conversions keep what they lose: keys that are absent, words that are not
in the tables, methods without usable properties, the name of a group, the flag
`enabled` that the copy of an instance does not set (`Garbage`).

*Constants.* `ManifestAssumption` says of the files that svccfg is given that names are
names, that paths have one of the four forms of a path's text, and that instances, methods
and properties are arrays. Unknown words, missing keys, repeated and nameless services are
allowed.

*Abstractions.* A message arrives in one piece, no reply reaches MAX_LEN_MSG, no
service is called `svc`. The merge of layers has nothing to merge, since `db_import`
ignores the layer it is given. Of graphd only what it holds enabled is kept; the
cascade is `Graph`. The `kinds` of a subscription are left out since graphd, the only
subscriber, asks for all.

### MemPool

*State.* Addresses count header-sized quanta. `next`, `size` and `freep` are the free
list, `pool_free_pos` the part of the pool that was handed out, `owned` what callers
hold. `base`, the list's anchor, is a variable of its own because the linker may put
it below or above the pool, and the code compares its address with the blocks'. `NULL` is
a constant that is no address.

*Actions.* `AllocFromList`, `AllocFromPool` and `AllocFails` are the three ends of
`s16mem_alloc` when malloc fails; `Free` is `s16mem_free` of a block of the pool. The
links of blocks in use and of headers swallowed by a merge are forgotten, since
nothing reads them.

`Allocator` knows only a set of blocks, large enough and apart; the refinement maps it
to `owned` and `size`.

## Runs

Runs that pass:

| Run | Instance | What it shows |
|---|---|---|
| `graph_mixed` | the graph of `test/{a,b,c}.ucl` plus a service with the kinds of group these lack: 6 instances, require-any, require-all, optional-all and exclude-all groups, conditions none, restart, refresh and any; the trials of `graph_setup_all`, then any requests | `TypeOK`; `Inv`, the inductive invariant; `RunsOnlyIfEnabled`; `MarksCleared`, `NoLostWakeup`, `DependenciesHold` at rest; `DisableOrder` on every step; `DisableDone`, `CascadeEnds`; `ImplementsLifecycle`, refinement with liveness |
| `setup_trees` | 3 instances of 2 services; each has up to two groups of one path or one group of two, over instances, a service and an unknown path; no instance named twice: 6382 manifests, cyclic ones among them | `Acyclic`: cycles are refused; `Complete`: without a report, all declared edges are there |
| `unit_configd` | the unit restartd creates: U_NOTIFY, start method only, 3 pids, 1 tolerated failure per method | `CleanAtRest`, `Watched`, `OneRestart`, `SignalsOwn`, `Settles`, `Recovers`, `RepoSettles` |
| `unit_all_methods` | U_SIMPLE, four methods, threads, failing forks | `Purged`, `Watched`, `Settles` |
| `mempool` | 8 quanta, taken 3 at a time; requests of 0, 16, 17 and 48 bytes and of the greatest size that `WordAssumption` admits; `base` below and above the pool | `Tiled`: no quantum lost or in two blocks; `Ordered`: one descent, neighbours combined; `ImplementsAllocator`, refinement: blocks large enough, apart and stable; `GivesUpOnlyWhenFull` |
| `configd_programs` | graphd, svcadm and svccfg, two requests from each command, a service with two instances and one with one, three paths; graphd and svcadm may be killed at any point; a second configd is started | `OwnReply`: no reply and note mixed up; `ToldOnceInOrder`; `Agree`: repository and graphd; `DiesOf`: what ends configd |
| `configd_live` | the same programs, one request each, configd restarted once | `Answered`: no circular wait; `ComesBack`; `CarriedOut`; `Restartable` |
| `configd_data` | svcs, a look-up and svccfg with two imports out of five manifests | `DependenciesArrive`, `MethodsArrive`, `LookupAnswers` |

Runs that show a disagreement between the code and what the repository says of
it; `findings` in `PROJECT.json` quotes the lines:

| Run | Statement | What happens |
|---|---|---|
| `setup_cycle_missed` | "If cyclic, returns 1 and does not add the edges." | the search stops at a vertex it has seen, and misses a cycle behind it |
| `unit_ready_timed_out` | the watchdog waits for the notification | an orphaned watchdog ends a unit that has notified |
| `configd_unknown_path` | "Otherwise does nothing." (`Repository.h:138-140`, of a path that is neither a service nor an instance) | the request ends configd (`UnknownDoesNothing`), and the repository with it |
| `graph_stop_undone` | "for services to start when their dependencies are satisfied" | disabling the first of a chain brings the third up, without the second and for good (`StartsSatisfied`) |

*Bounds.* Graphs: six instances are enough for chains of three, a diamond (`m` over `a:i`,
directly and by way of `b`), a group of each kind and four restart-on conditions. `DependenciesHold` and `NoLostWakeup` hold on this graph and not
on all (see the limits below); the other properties of the run are proved for every
graph or are liveness. `graph_stop_undone` has a chain of four instances in which the last comes
before the third in the list of vertices. Requests are not bounded. Set-up: a cycle needs two instances, a missed one a third; the
passing run leaves out manifests that name an instance twice, because these are
the ones on which `Acyclic` fails, and exclude-all groups, which end the search in
the same way: with one of them ahead of the cyclic group, `Acyclic` fails on such
manifests too. CHECK_DEADLOCK is FALSE since set-up ends. Units: three pids allow a main
process, a method and a stray child; pids are used again. `FailLimit` is 1 instead of 5 in the passing runs (the same
properties hold with 5 and two pids, in 400 000 states) and 5 in the others;
`RetryLimit` is 15 instead of 3000 in the passing runs, which leaves two
doublings; `MaxReady` bounds datagrams at 2, `MaxForks` the forks of a stop method that fail in a row
at 2 (1 where there is none). Watchdogs need no other bound: failures bound the starts. The unit runs set CHECK_DEADLOCK FALSE because a unit in
Maintenance with no process has nothing left to do.

Pool: eight quanta hold three blocks with gaps between them, an exact fit, a cut, a
merge on either side and on both, a fresh chunk that is combined with the last free
block, and a pool that is full; `WordSize` stands for 2^64, and the greatest of the sizes is
the last for which no sum of `get_mem_from_pool` wraps around (see the limits below). The run ends where the process exits, hence
CHECK_DEADLOCK FALSE.

configd: `MaxCalls` bounds the requests of a command, `MaxStarts` the lives of configd
and `Twice` says whether a second one is started beside it; `Killable`, `Manifests` and
`Paths` choose the faults and the inputs, `Garbage` the content of memory that was never
written. Two requests and two imports are enough for a request on either side of an
import, of a subscription and of another request; the service with two instances makes a
request queue two notes at once. The system starts one graphd; with
two of them, one killable, two requests and one import, the properties of
`configd_programs` hold as well (940 000 states, not kept as a run). In `configd_data` the
five manifests have unknown words, unusable methods and properties, a service twice
with different instances, and services without names. Commands end, hence
CHECK_DEADLOCK FALSE.

*Fairness.* configd and its clients: weak fairness of configd's loop (`Serve`), which
blocks only in kevent and recv; of `Launch`, an assumption about
whoever runs configd: restartd starts it again after a failure, but neither after SIGINT, which
ends it with status 0, nor once its limit of failures is reached, so that `Restartable` says what comes of
starting it again and not that somebody does; and of each client that has begun a call (`Work`). None of
beginning a call, of being killed, of SIGINT or of leaving. Graph: weak
fairness of draining and of the trials, because the loop drains the queue before it waits; none of requests. Unit: weak fairness of each
timer, because the kernel fires an armed timer and the loop handles it; none of
processes, which may hang or ignore SIGTERM, nor of datagrams.

## Proofs

Everything proved holds for all values of the constants that satisfy the named
assumptions, and for every sequence of events; the runs show the same properties
on small instances. The inductive invariants (`Inv` of `Unit`, `Configd` and `MemPool`,
`OrderInv`, `DataInv`, `NotesInv`, `AgreeInv`) are in the proof modules; TLC finds
each of them to hold on the instances of its runs as well.

| Component | Theorem | States |
|---|---|---|
| graphd | `TypeCorrect`, `InvHolds` | `TypeOK`, `Inv` |
| | `NeverResurrected` | `RunsOnlyIfEnabled` |
| | `Implements` | `Life!SafeSpec`, the safety part of the refinement |
| | `NothingLeftMarked` | `MarksCleared` |
| | `StopsInOrder` | `DisableOrder` |
| restartd | `UnitTypes` | `TypeOK` |
| | `RestIsPurged` | `Purged` |
| | `RestIsClean` | `CleanAtRest`, if no process has threads |
| | `MethodsAreWatched` | `Watched` |
| | `RestartIsOne` | `OneRestart`, without a stop method |
| | `SignalsAreOwn` | `SignalsOwn`, without a stop method |
| configd | `ConfigdTypes` | `TypeOK` |
| | `RepliesAreOwn` | `OwnReply` |
| | `ConfigdDiesOf` | `DiesOf` |
| | `DependenciesKept` | `DependenciesArrive` |
| | `MethodsKept` | `MethodsArrive` |
| | `LookupsAnswered` | `LookupAnswers` |
| | `ToldAll` | `ToldOnceInOrder` |
| | `FlagsAgree` | `Agree` |
| libs16 mem | `PoolTypes` | `TypeOK` |
| | `NothingLost` | `Tiled` |
| | `ListInOrder` | `Ordered` |
| | `GivesUp` | `GivesUpOnlyWhenFull` |
| | `PoolImplements` | `ImplementsAllocator`, the whole refinement |

### Graph

Assumed: `GraphAssumption`, `EdgeAssumption` and `AcyclicAssumption`.

`RunsOnlyIfEnabled` is not inductive: the flags of an instance may change
between the queueing of an SC_ONLINE and its processing. What saves the code is
that requests are read only when the queue is empty, and that SC_ONLINE is
queued only for enabled instances; `Inv` says so, and says what a queued
SC_DISABLED and the marks mean while a disable is in progress. The argument:

1. `Keep` and `NotesFor` (lemmas `KeepProperties`, `NotesForProperties`): a walk
   queues notes for visited instances of the given set and no others. `Keep` is a
   recursive function over indices; its properties are proved by the least
   counterexample (`LeastNat`, from the well-foundedness of `<` on the naturals).
2. `Appended`, `QueueStep`: what queued notes remain after one is taken and
   others are appended.
3. `OnlineInv`, `OfflineInv`, `DisabledInv`, `RequestInv`: each handler preserves
   `Inv`. `StartableEnabled` is the fact that carries the weight: what the walks
   start is enabled and unmarked.
4. `StepSimulated`: every step changes the abstract state as one step of
   `Lifecycle` or not at all.

*The walks.* A walk is a recursive function on a graph. `WalkExists` proves that there
is one for any direction in which every set of vertices has an end (`Founded`): a
vertex of which no solution is known would have a neighbour of the same kind. `Walked`
says that it is a finite sequence and which vertices are in it, `WalksFounded` that the
assumption gives both directions. `StopReaches`, `DependencyReaches` and `DisableClosed`
say what the three walks of a disable visit.

*The marks.* `MarksCleared` and `DisableOrder` rest on each other: a stop that spreads from
a bounced instance looks at no marks, and is harmless only because there are none when a
request is read; and marks are cleared only if every SC_OFFLINE that is held back is
queued later. `OrderInv` has three parts. A marked instance has its SC_OFFLINE queued or a
marked instance next above it, so that with an empty queue the highest marked
instance (`Highest`) is a contradiction. A note for a marked instance is an SC_OFFLINE,
and the instance may go down. And while there are marks, everything that is marked or to
stop lies in one set `T` that is closed upwards (`Cascade`), of which those without a mark
have no marked, running instance above them (`Calm`): the answer of `vtx_can_go_down`,
found when the note was queued, stays true until it is processed. `GoDownEq` shows that the
recursion of `vtx_can_go_down` has a solution, as the greatest set of vertices that are
free to go as long as those above them are. `StepMarked`, `StepUnmarked` and `StepMark` are
the three kinds of step, on sets of notes; the lemmas after them bring each action into
that form.

### Unit

The inductive invariant `Good` is of the unit between two events: a unit at rest
tracks no process; a unit that is starting has a main process of its own or none; a
state in which a method may hang has a watchdog; and a restart timer belongs to a unit
whose target is None and which is in it or in STOPTERM. None of the properties is
inductive by itself, because a handler is a chain of `unit_enter_*` calls that pass
through states in which they do not hold. `Base` is the part of `Good` that holds between
any two calls, and there is one lemma per operator of the chain: from a unit that
satisfies `Base` and what its callers guarantee, all possible results are `Good`
(`TermGood`, `StopGood`, `StartGood`, ..., then `ExitEventGood`, `TimerEventGood`,
`NotifyReadyGood`, `RepoRetryGood` for the events). `Watched` needs that `timer_id`
never names a timer that is not armed (`u.own => u.watchdogs > 0`), since arming a timer
over another one forgets the first.

Hypotheses. `RestIsClean` assumes `Threads = {}`: the netlink driver takes the exit of a
thread for that of its process, so the property is false without it; it stands for
services whose processes have one thread. `RestartIsOne` and
`SignalsAreOwn` assume that there is no stop method, and are false with one (see the limits
below); restartd.c gives the unit it creates a start method only.

### Configd

`OwnReply` speaks of a client that waits; its invariant has to say what may be on a
connection for each pair of positions of its two ends (`ConnectionOK`). Upwards there is at
most one message: the one call of a client that waits, or the one answer to the note that
configd waits for. Downwards there is the one reply and, behind the reply to `subscribe`
only, one note. The fact it turns on is that a subscriber is in its loop, or has the reply
to `subscribe` in its socket: configd replies before it sends the first note. `ServerOK`
and `ProgramOK` are the two ends: nobody is on the list of subscribers twice, so that
removing one entry at the end of a connection removes the subscriber; and the
sequence of calls each program makes.
There is one lemma per action. `ConfigdDiesOf` follows: `Tell` and `Handle` write to
connections that are open, and an open connection without a client behind it is one
whose client was killed or crashed, or one that ended with nothing of its own on the way.
The manifests and conversions play no part in `ConfigdProofs`.

*Data* (`ConfigdDataProofs`, from `ManifestAssumption`). `DataInv` says that both layers of
the repository are the services of the imports, all of them and in order, and that what a
client holds, or what the reply on its way to a client will be read as, is a beginning of them
(`Serves`): the reply was made at an earlier time, and imports only add to the end. One
lemma per conversion says what it keeps: `PathArrives` (the text of a path is read as the
same path), `GroupArrives`, `SvcCopied`, `SvcArrives`, `SvcRead` (a manifest through
`canonicalise_svc`). Methods need more, since two conversions drop some of them: `KeepList`
says what `Keep` returns and how many there are, `MethodsRead` that configd has the methods
of a manifest and perhaps some without properties, `MethodsCopied` that the copy changes
nothing, `MethodsSent` that exactly those without properties are lost; `Holds` adds to
`Serves` that a client has none of them. The invariant is thus stronger than the two
properties, which leave open what the code does about a default instance and about methods
without a usable property. A look-up works on the manifest layer: `LookedUp` says what the two
loops of `s16db_lookup_path_in_scope` find, the last service of the name and its last
instance, `SameNames` that names are those of the imports, and `PathAnswered` puts the reply
together, the label "svc" of an instance included.

*Notes* (`ConfigdNotesProofs`). For each subscriber, the notes it has carried out, the one
in its hand, those on its way and those due make up the notes of the requests since it
subscribed (`Complete`). That needs the round trip of a note through UCL (`IsNote`), that
nobody is twice on the list of those still to be told (`NoDup`), and that the queue is
empty whenever a request is read, or a new subscriber would be told of earlier ones
(`QueueOK`). *Flags.* `FlagsOK`: the flag of an instance is what the last request for it
asked for, unless the service was imported again or enabled as a whole since (`Settled`;
enabling a service clears the flags, see the limits below). `ViewOK`: graphd goes by the
last note it carried out. At rest `Complete` says that these notes are all there are since it
subscribed, and `Agree` follows.

### MemPool

The invariant `HeapOK` is about a list record, with base, the set of linked
headers and the set of blocks in use as parameters, because `s16mem_free` works on the
list as an operator and not as an action. It says that every link leads to the next header in
address order and that of the highest to the lowest (`Circle`), that blocks are apart and
cover what was taken from the pool, and that no two free ones touch. The argument:

1. The code finds blocks by following links, `At(k)` in the model. That the walk
   reaches every linked header looks like an induction over data; it is proved without
   one. `Returns`: by the pigeonhole principle the walk comes back to where it started, since
   links of different headers differ (`LinksDiffer`). `Closed`: a set of headers that is closed
   under links is all of them, because the one after its greatest is in it. `Walk` and
   `LinkedAll` put the two together.
2. `InsertCircle`, `RemoveCircle`, `Merge`, `Split`: what insertion, removal, combination and
   cutting do to the circle and to the blocks.
3. `PlaceFound`, `Neighbours`: the loop of `s16mem_free` stops, at the headers on both sides
   of the block. `ReleaseOK` combines the four cases of merging.
4. `FitsFound`, `TakeOK`, `ListFound`, `FromListOK`, `FromPoolOK`, `FailsOK`, `FreeOK`: the actions.
5. `GivesUp`: the gaps between the blocks in use are whole blocks of the list, since no two
   of these touch; the search has seen all of them (1); so none is long enough.
6. `StepAllocates`: each action is a step of `Allocator`.

Assumed: `PoolAssumption`, by which `base` is not in or directly behind the pool, and
`WordAssumption`, by which `Sizes` leaves out the requests for which an unsigned long wraps
around. `SumsFit` shows that `nquantas * sizeof (mem_header_t)` and its sum with `pool_free_pos` are
then below `WordSize`, so that the model may compute them in quanta.

### What the proofs changed in the model

* In `MemPool` `NULL` was a number beyond the pool, which `base`, the address of a variable
  wherever the linker puts it, could equal; it is now a constant that is no number. No run
  had such a `base`.
* In `Configd` the alternatives of `NextCalls` overlapped for a graphd that has
  made its first call; which one applies is now explicit. So did the cases of
  `handle_get_path_merged` and of `vtx_inst_satisfies`.
* The walks of `Graph` were assumed to exist, one by one; now a graph without cycles is
  assumed, which is what set-up is to guarantee.
* In `Convert`, objects are put together with `++` and lists are filtered with `Keep`
  instead of library operators that the provers cannot unfold. `ManifestAssumption` names
  what was true of the manifests of the runs by construction.
* The attempt to prove `DependenciesHold` and `NoLostWakeup` for every graph failed, and TLC
  found the graphs on which they are false: the finding of `graph_stop_undone`, and the
  second of the limits below.

### Only model-checked

* Every liveness property (`ImplementsLifecycle`'s fairness, `DisableDone`, `CascadeEnds`,
  `Settles`, `Recovers`, `RepoSettles`, `Answered`, `ComesBack`, `CarriedOut`, `Restartable`):
  TLAPS does not handle fairness and ENABLED here.
* `Graph`: `NoLostWakeup` and `DependenciesHold`. They hold on the graph of `graph_mixed`, which
  has every kind of group, and are false on others, so that there is no theorem about every
  graph to prove.
* `GraphSetup`: `Acyclic` and `Complete`; the module needs RECURSIVE operators, with which
  the SMT backend cannot be used.

## Known limits of the code that no run shows

* With an exclude-all group below an optional one, an instance can go from
  Uninitialised to Offline, become unsatisfiable and so satisfy the optional
  group above it, and nothing announces it: `NoLostWakeup` fails on such graphs.
  An instance excluded by another is not stopped when the other comes up later.
* The same without exclude-all: `k` is optional on `v`; `v` requires `j`, which requires `y`
  with restart-on none, and `z`, which requires any of `q`. Disable `y` and `q`, then enable
  `j`, which bounces it and leaves it down: `v` has become unsatisfiable, so that `k` could run, and nobody
  tells `k`.
* What `graph_stop_undone` shows also breaks `DependenciesHold`: the third of the chain
  stays online with the second offline until something bounces it.
* `vtx_notify_admin_disable` marks an instance of which it says "Not bringing down
  as already down." (`graph.c:731`): an instance at rest in Disabled is moved to
  Offline, still disabled, when its dependency is disabled.
* `graphd.h:55` says that a service needs at least one instance up;
  `graph_install_service` makes it require-all.
* The failure counters are never reset, so that "5 times in a row" (`unit.c:560`)
  is 5 times in the unit's life.
* A main process that exits with status 0 in US_START is ignored, and US_START is
  where an online unit stays: the unit is left there with no process.
* STOPTERM never escalates: a process that ignores SIGTERM holds the unit there.
  STOPKILL is entered only with no process left, and passes straight on.
* With a stop method, `main_pid` is not reset when the main process exits in
  US_STOP, so STOPTERM may signal a reused pid; and a stop method whose fork fails
  can end in Maintenance with the restart timer armed.
* A hung poststart method is not timed out.
* `unit_purge_and_target` "Does not execute the stop method." (`unit.c:122-123`), but with
  processes left it calls `unit_enter_stop`, which does if the unit has one. `Unit` follows the code.
* `unit.c:410` says that an online unit goes offline and lets the graph engine decide;
  `unit_enter_online` never sets the state, so that restartd restarts it by itself.
* `unit_retry_start` is documented as a delayed `unit_purge_and_target` (`unit.c:144`),
  but its timer does not wait for the purge: the next main process may be started
  beside the remnants of the last.
* A READY=1 that is read after the exit of its sender is warned about
  (`sd_notify.c:131`) and then passed on with a null unit (`sd_notify.c:141`).
* The netlink driver takes the exit of a thread for that of its process
  (`pt-driver-netlink.c:204`), which then runs on untracked: `CleanAtRest` fails when
  processes have threads.
* `vtx_update` passes one `pathTo` to all groups of an instance, so that after a cyclic
  group every later group counts as cyclic and is dropped (`graph.c:262`).
* configd is ended by SIGPIPE when a client goes between its request and the reply, or
  a subscriber before it is told, although the comment at `configd.c:131` has
  subscribers closing their sockets. With configd goes the repository, which is not
  stored, and its subscribers do not reconnect.
* A second configd fails to bind and its `clean_exit` removes the name of the first
  one's socket: the first runs on and cannot be reached. A third then binds and runs beside
  it, with a repository of its own; `Configd` follows one configd at a time and does not go
  that far.
* No code generates an instance for a service without a default one, although `db.c:40-43` says
  that the merged interface will "generate a 'default' instance for services lacking a default in their
  manifest" and `Service.h:140-141` that "if no instance named 'default' exists, then one is created";
  `def_inst` is stored, copied and sent, and never looked at. `DependenciesArrive` allows such
  an instance and does not ask for it; the services of `configd_data` get none.
* A method of which no property has both a name and a value is stored by configd and lost on the
  way to its clients: `s16db_meth_to_ucl` leaves an empty list out, and `s16db_ucl_to_meth`
  refuses a method without a list. `manifest-schema.json` requires only the name of a method.
  `MethodsArrive` is about the other methods.
* Enabling a service clears the flags of its instances (`db.c:197`) while graphd is told
  to enable them. Flags are set in the manifest layer and not in the merged view, so
  what `svcs` lists does not follow them; and the copies from which the view is made
  leave `enabled` unassigned, although `S16InstanceCopy` is called a deep copy.
* graphd sets every instance up as enabled, whatever the repository says, and tries
  `a:i`, by name: it ends at once in a repository without it.
* Re-importing a service hides the instances of the earlier import from look-ups and
  requests, while the list still has both. A manifest that is refused is answered
  with 0 like any other.
* `get-path-merged` labels instances "svc", so that a caller gets a service made of an
  instance. `restart-on: any` has no word. A service named `svc` is taken for the
  prefix by `strncmp (..., 4)`.
* `nbytes + 15` in `s16mem_alloc` wraps around within 15 bytes of ULONG_MAX, and so do
  `nquantas * sizeof (mem_header_t)` and its sum with `pool_free_pos` (`mem.c:87,89`) within the
  length of the pool and two headers of it; the check then passes and a block that is too
  short is handed out. `WordAssumption` leaves such requests out. `base` directly
  behind the pool would be combined with the last block (`PoolAssumption` excludes it).
  The comment speaks of 64 kilobytes, `POOL_SIZE` is 8; and `exit (1)` comes before the
  message it should print.

## Not modelled, and the plan

Not modelled: the kevent and posix process-tracker drivers, socket set-up,
logging, the manifest parser, command-line parsing, svcnotify (one datagram),
the Java binding, vendored code. `s16db_publish` and `s16db_set_state` have neither a
handler in configd nor a caller. The merge of layers is dead code as long as nothing
writes to the admin layer. Messages in several pieces and replies beyond MAX_LEN_MSG
are outside of `Configd`.

The nvlist RPC runtime (`newrpc`) and PBus are prototypes that the daemons do not use:
the broker's one handler refuses every message, and the resolution of object paths is
called by its own test only. There is no protocol yet whose behaviour could be right or
wrong, and a model would be of the authors' intentions.

What is left:

1. Conditions on a graph under which `DependenciesHold` and `NoLostWakeup` are true, such as that
   every instance precedes its dependents in the list of vertices, and their proofs.
2. `GraphSetup` without RECURSIVE operators, so that `AcyclicAssumption` could be proved of the
   manifests on which the search does not stop early.
3. `Configd` with messages in several pieces.
