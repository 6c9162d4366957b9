-------------------------------- MODULE Unit --------------------------------
(***************************************************************************)
(* A unit of s16.restartd (usr/src/agent/restartd/unit.c) with what drives *)
(* it: the process tracker (pt-driver-netlink.c), the timer set (timer.c), *)
(* the sd_notify socket (sd_notify.c) and the loop of restartd.c.          *)
(*                                                                         *)
(* The loop takes one kernel event at a time and runs its handler to the   *)
(* end, so one event is one action.  A handler is a chain of unit_enter_*  *)
(* calls; each is an operator from a unit to the set of units it can       *)
(* become, one for every outcome of the fork it may attempt.               *)
(***************************************************************************)
EXTENDS Naturals, FiniteSets

CONSTANTS
  Pid,           \* process ids; they are used again
  NoPid,         \* the pid 0
  Type,          \* UnitType of the unit
  Methods,       \* the methods it has
  IsRepository,  \* is it the unit of s16.configd?
  Threads,       \* the processes that run a second thread
  FailLimit,     \* failures of a method that are tolerated: 5
  RetryLimit,    \* longest delay before a retry to connect: 3000 ms
  MaxReady,      \* bound on the READY=1 datagrams that are sent
  MaxForks       \* bound on the forks of a stop method that are tried in a row

\* UnitMethodType; the names are those of the states that run the methods.
Method == {"PRESTART", "START", "POSTSTART", "STOP", "POSTSTOP"}

\* UnitType
UnitType == {"SIMPLE", "FORKS", "ONESHOT", "GROUP", "NOTIFY"}

\* UnitState
UnitState == Method \cup {"None", "Uninitialised", "Disabled", "Offline", "Online",
                          "EXITED", "STOPTERM", "STOPKILL", "Maintenance"}

ASSUME UnitAssumption ==
  /\ NoPid \notin Pid
  /\ Type \in UnitType
  /\ Methods \subseteq Method /\ "START" \in Methods
  /\ IsRepository \in BOOLEAN
  /\ Threads \subseteq Pid
  /\ FailLimit \in Nat /\ RetryLimit \in Nat /\ MaxReady \in Nat
  /\ MaxForks \in Nat \ {0}

VARIABLES
  unit,     \* the unit, and the part of the manager that it changes
  inbox,    \* the pids whose READY=1 is in the socket
  sent,     \* how many READY=1 have been sent
  crashed   \* has restartd died?

vars == <<unit, inbox, sent, crashed>>

Units == [
  state         : UnitState,
  target        : UnitState,
  pids          : SUBSET Pid,          \* the processes it tracks
  alive         : SUBSET Pid,          \* the processes it really has
  main_pid      : Pid \cup {NoPid},
  secondary_pid : Pid \cup {NoPid},
  fail_cnt      : [Method -> Nat],
  watchdogs     : Nat,                 \* armed timers that call unit_timer_event
  own           : BOOLEAN,             \* is timer_id the id of one of them?
  restarts      : Nat,                 \* armed timers that call unit_restart_begin_cb
  looping       : BOOLEAN,             \* lost in purge_and_target -> enter_stop?
  online        : BOOLEAN,             \* did this start reach unit_enter_online?
  repo_up       : BOOLEAN,             \* manager.repo_up
  repo_retry_delay : Nat,              \* manager.repo_retry_delay
  repo_timers   : Nat]                 \* armed timers that call repo_retry_cb

TypeOK ==
  /\ unit \in Units
  /\ inbox \subseteq Pid
  /\ sent \in 0 .. MaxReady
  /\ crashed \in BOOLEAN

-----------------------------------------------------------------------------
(* Timers and forks. *)

\* UnitTimerReg.  The previous timer, if it is still armed, stays armed.
Reg(u) == [u EXCEPT !.watchdogs = @ + 1, !.own = TRUE]

\* ... n times in a row; timer_id is the last one.
RegTimes(u, n) == [u EXCEPT !.watchdogs = @ + n, !.own = TRUE]

\* Mutant: timerset_del does not look the id up.
del_unchecked(u) == [u EXCEPT !.watchdogs = @ - 1, !.own = FALSE]

\* timerset_del of unit->timer_id; an id that is no longer armed is ignored.
Del(u) == [u EXCEPT !.watchdogs = IF u.own THEN @ - 1 ELSE @, !.own = FALSE]

\* unit_fork_and_register when the fork succeeds: the child is registered
\* before it is let run.
ForkMain(u) ==
  {[u EXCEPT !.main_pid = p, !.pids = @ \cup {p}, !.alive = @ \cup {p}] :
     p \in Pid \ u.alive}

ForkSecondary(u) ==
  {[u EXCEPT !.secondary_pid = p, !.pids = @ \cup {p}, !.alive = @ \cup {p}] :
     p \in Pid \ u.alive}

-----------------------------------------------------------------------------
(* The states. *)

\* unit_enter_stopterm, some process being left.
Term(u) == Reg([u EXCEPT !.state = "STOPTERM"])

\* unit_enter_stop, some process being left and the target being
\* Maintenance: when the fork fails unit_purge_and_target comes straight back
\* here, arming one more watchdog each time, until a fork succeeds or the stack
\* is used up.
StopForMaintenance(u) ==
  IF "STOP" \notin Methods THEN {Term(u)}
  ELSE LET Tried(n) == RegTimes([u EXCEPT !.state = "STOP"], n)
       IN  (UNION {ForkSecondary(Tried(n)) : n \in 1 .. MaxForks})
             \cup {[Tried(MaxForks) EXCEPT !.secondary_pid = NoPid, !.looping = TRUE]}

\* What every failed fork and every exhausted fail_cnt does: target
\* Maintenance, then unit_purge_and_target.
ToMaintenance(u) ==
  IF u.pids # {} THEN StopForMaintenance([u EXCEPT !.target = "Maintenance"])
  ELSE {[u EXCEPT !.target = "Maintenance", !.state = "Maintenance"]}

\* manager_configd_came_up: the connection succeeds or is tried again later.
manager_configd_came_up(u) ==
  {[u EXCEPT !.repo_up = TRUE],
   [u EXCEPT !.repo_retry_delay = 5, !.repo_timers = @ + 1]}

\* unit_enter_online: it leaves unit->state alone.
unit_enter_online(u) ==
  LET v == [u EXCEPT !.online = TRUE]
  IN  IF IsRepository THEN manager_configd_came_up(v) ELSE {v}

unit_enter_poststart(u) ==
  LET s == Reg([u EXCEPT !.state = "POSTSTART"])
  IN  IF "POSTSTART" \in Methods
      THEN ForkSecondary(s) \cup ToMaintenance([s EXCEPT !.secondary_pid = NoPid])
      ELSE unit_enter_online(u)

unit_enter_start(u) ==
  LET s == [u EXCEPT !.state = "START", !.online = FALSE]
      started(v) == IF Type \in {"SIMPLE", "ONESHOT", "GROUP"}
                    THEN unit_enter_poststart(v) ELSE {Reg(v)}
  IN  (UNION {started(v) : v \in ForkMain(s)}) \cup ToMaintenance([s EXCEPT !.main_pid = NoPid])

unit_enter_prestart(u) ==
  LET s == Reg([u EXCEPT !.state = "PRESTART", !.online = FALSE])
  IN  IF "PRESTART" \in Methods
      THEN ForkMain(s) \cup ToMaintenance([s EXCEPT !.main_pid = NoPid])
      ELSE unit_enter_start(u)

\* unit_enter_state (unit, unit->target)
unit_enter_state(u) ==
  CASE u.target \in {"Offline", "Maintenance", "None"} -> {[u EXCEPT !.state = u.target]}
    [] u.target = "PRESTART"  -> unit_enter_prestart(u)
    [] u.target = "START"     -> unit_enter_start(u)
    [] u.target = "POSTSTART" -> unit_enter_poststart(u)
    [] u.target = "Online"    -> unit_enter_online(u)
    [] OTHER                  -> {u}

\* Mutant: the processes are not waited for.
stopterm_hasty(u) == unit_enter_state(u)

unit_enter_stopterm(u) == IF u.pids = {} THEN unit_enter_state(u) ELSE {Term(u)}

unit_enter_stopkill(u) ==
  IF u.pids = {} THEN unit_enter_state(u) ELSE {Reg([u EXCEPT !.state = "STOPKILL"])}

\* Mutant: no watchdog for the stop method.
stop_unwatched(u) ==
  LET s == [u EXCEPT !.state = "STOP"]
  IN  IF "STOP" \in Methods
      THEN ForkSecondary(s) \cup ToMaintenance([s EXCEPT !.secondary_pid = NoPid])
      ELSE unit_enter_stopterm(u)

unit_enter_stop(u) ==
  LET s == Reg([u EXCEPT !.state = "STOP"])
  IN  IF "STOP" \in Methods
      THEN ForkSecondary(s) \cup ToMaintenance([s EXCEPT !.secondary_pid = NoPid])
      ELSE unit_enter_stopterm(u)

\* Mutant: the processes are forgotten.
purge_nothing(u) == unit_enter_state(u)

unit_purge_and_target(u) == IF u.pids # {} THEN unit_enter_stop(u) ELSE unit_enter_state(u)

\* Mutant: the restart timer is armed only if there was something to purge.
retry_if_purged(u) ==
  LET v == [u EXCEPT !.target = "None"]
  IN  {[w EXCEPT !.restarts = IF u.pids = {} THEN @ ELSE @ + 1] : w \in unit_purge_and_target(v)}

\* The restart timer is armed whether or not the purge is over.
unit_retry_start(u) ==
  {[v EXCEPT !.restarts = @ + 1] : v \in unit_purge_and_target([u EXCEPT !.target = "None"])}

-----------------------------------------------------------------------------
(* The handlers. *)

unit_stopping(u) == u.state \in {"STOP", "STOPTERM", "STOPKILL", "POSTSTOP"}

\* A method failed: try again, or give up.
Failed(u) ==
  LET v == [u EXCEPT !.fail_cnt[u.state] = @ + 1]
  IN  IF v.fail_cnt[u.state] > FailLimit THEN ToMaintenance(v) ELSE unit_retry_start(v)

\* unit_ptevent, an exit in one of the stopping states
ExitWhileStopping(u) ==
  CASE u.state = "STOP" /\ u.pids = {}     -> unit_enter_stopterm(Del(u))
    [] u.state = "STOPTERM" /\ u.pids = {} -> unit_enter_stopkill(Del(u))
    [] OTHER                               -> {u}

\* Mutant: main_pid is not reset.
main_exit_kept(u, abnormal) ==
  LET v == Del(u)
  IN  CASE abnormal -> Failed(v)
        [] ~abnormal /\ u.state = "PRESTART" -> unit_purge_and_target([v EXCEPT !.target = "START"])
        [] OTHER -> {v}

\* unit_ptevent, the exit of the main process
MainExit(u, abnormal) ==
  LET v == Del([u EXCEPT !.main_pid = NoPid])
  IN  CASE abnormal /\ u.state = "Online" -> unit_purge_and_target([v EXCEPT !.target = "Offline"])
        [] abnormal /\ u.state # "Online" -> Failed(v)
        [] ~abnormal /\ u.state = "PRESTART" -> unit_purge_and_target([v EXCEPT !.target = "START"])
        [] /\ ~abnormal /\ u.state \in {"Online", "POSTSTART"}
           /\ Type = "SIMPLE" \/ (Type # "GROUP" /\ u.pids = {})
             -> unit_enter_stop([v EXCEPT !.target = "Offline"])
        [] OTHER -> {v}

\* unit_ptevent, the exit of the poststart method
SecondaryExit(u, abnormal) ==
  LET v == Del([u EXCEPT !.secondary_pid = NoPid])
  IN  IF abnormal THEN Failed(v) ELSE unit_enter_online(v)

\* Mutant: the exit of any process clears the timer.
exit_clears_timer(u, p, abnormal) ==
  LET v == Del([u EXCEPT !.pids = @ \ {p}])
  IN  CASE unit_stopping(u) -> ExitWhileStopping(v)
        [] ~unit_stopping(u) /\ p = u.main_pid -> MainExit(v, abnormal)
        [] OTHER -> {v}

\* unit_ptevent, kS16ProcessTrackerEventTypeExit
ExitEvent(u, p, abnormal) ==
  LET v == [u EXCEPT !.pids = @ \ {p}]
  IN  CASE unit_stopping(u) -> ExitWhileStopping(v)
        [] ~unit_stopping(u) /\ p = u.main_pid -> MainExit(v, abnormal)
        [] /\ ~unit_stopping(u) /\ p # u.main_pid
           /\ p = u.secondary_pid /\ u.state = "POSTSTART" -> SecondaryExit(v, abnormal)
        [] OTHER -> {v}

\* Mutant: a time-out does not count as a failure.
timeout_uncounted(u) ==
  LET v == [u EXCEPT !.watchdogs = @ - 1, !.own = FALSE]
  IN  CASE u.state = "STOP" -> unit_enter_stopterm(v)
        [] u.state \in {"PRESTART", "START"} ->
             unit_purge_and_target([v EXCEPT !.target = "PRESTART"])
        [] OTHER -> {v}

\* unit_timer_event.  It does not look which timer it was: timer_id is
\* forgotten even if it names another one.
unit_timer_event(u) ==
  LET v == [u EXCEPT !.watchdogs = @ - 1, !.own = FALSE]
      w == [v EXCEPT !.fail_cnt["PRESTART"] = @ + 1]
  IN  CASE u.state = "STOP"     -> unit_enter_stopterm(v)
        [] u.state = "STOPKILL" -> unit_enter_state(v)
        [] u.state \in {"PRESTART", "START"} ->
             IF w.fail_cnt["PRESTART"] > FailLimit THEN ToMaintenance(w)
             ELSE unit_purge_and_target([w EXCEPT !.target = "PRESTART"])
        [] OTHER -> {v}

\* Mutant: the timer stays armed.
restart_again(u) == unit_enter_prestart(u)

unit_restart_begin_cb(u) == unit_enter_prestart([u EXCEPT !.restarts = @ - 1])

unit_notify_ready(u) ==
  IF u.state = "START" THEN unit_enter_poststart(Del(u)) ELSE {u}

\* Mutant: one retry only.
repo_retry_once(u) ==
  LET v == [u EXCEPT !.repo_timers = @ - 1]
  IN  {[v EXCEPT !.repo_up = TRUE], [v EXCEPT !.repo_retry_delay = 2 * @]}

repo_retry_cb(u) ==
  LET v == [u EXCEPT !.repo_timers = @ - 1]
      w == [v EXCEPT !.repo_retry_delay = 2 * @]
  IN  {[v EXCEPT !.repo_up = TRUE],
       IF w.repo_retry_delay > RetryLimit THEN w ELSE [w EXCEPT !.repo_timers = @ + 1]}

-----------------------------------------------------------------------------
\* The loop handles an event and goes on, unless the handler never returns.
Handle(result) ==
  /\ ~crashed
  /\ unit' \in result
  /\ crashed' = unit'.looping

\* main: the unit is added, Offline, and is sent its one RR_START.
Init ==
  /\ unit \in unit_enter_prestart(
       [state |-> "Offline", target |-> "None", pids |-> {}, alive |-> {},
        main_pid |-> NoPid, secondary_pid |-> NoPid, fail_cnt |-> [m \in Method |-> 0],
        watchdogs |-> 0, own |-> FALSE, restarts |-> 0, looping |-> FALSE, online |-> FALSE,
        repo_up |-> FALSE, repo_retry_delay |-> 0, repo_timers |-> 0])
  /\ inbox = {} /\ sent = 0 /\ crashed = FALSE

\* A process forks.  The tracker reports the child of a process it watches.
Child(parent, p) ==
  /\ parent \in unit.alive /\ p \in Pid \ unit.alive
  /\ Handle({[unit EXCEPT !.alive = @ \cup {p},
                          !.pids = IF parent \in unit.pids THEN @ \cup {p} ELSE @]})
  /\ UNCHANGED <<inbox, sent>>

\* A process exits.  The loop ignores one that no unit has.
Exit(p, abnormal) ==
  /\ p \in unit.alive
  /\ LET u == [unit EXCEPT !.alive = @ \ {p}]
     IN  Handle(IF p \in unit.pids THEN ExitEvent(u, p, abnormal) ELSE {u})
  /\ UNCHANGED <<inbox, sent>>

\* A thread of a process exits.  The netlink event names the thread group, so
\* the tracker reports the exit of the process.
ThreadExit(p, abnormal) ==
  /\ p \in Threads /\ p \in unit.pids
  /\ Handle(ExitEvent(unit, p, abnormal))
  /\ UNCHANGED <<inbox, sent>>

Watchdog ==
  /\ unit.watchdogs > 0
  /\ Handle(unit_timer_event(unit))
  /\ UNCHANGED <<inbox, sent>>

Restart ==
  /\ unit.restarts > 0
  /\ Handle(unit_restart_begin_cb(unit))
  /\ UNCHANGED <<inbox, sent>>

RepoRetry ==
  /\ unit.repo_timers > 0
  /\ Handle(repo_retry_cb(unit))
  /\ UNCHANGED <<inbox, sent>>

\* A process sends READY=1.
SendReady(p) ==
  /\ p \in unit.alive /\ sent < MaxReady /\ ~crashed
  /\ inbox' = inbox \cup {p}
  /\ sent' = sent + 1
  /\ UNCHANGED <<unit, crashed>>

\* dispatch_sd_notify: the sender is looked up by its pid, and a sender that no
\* unit has is passed on as a null pointer, which unit_notify_ready follows.
Ready(p) ==
  /\ p \in inbox /\ ~crashed
  /\ inbox' = inbox \ {p}
  /\ \/ p \in unit.pids /\ Handle(unit_notify_ready(unit))
     \/ p \notin unit.pids /\ crashed' = TRUE /\ UNCHANGED unit
  /\ UNCHANGED sent

Exits == \E p \in Pid, abnormal \in BOOLEAN : Exit(p, abnormal) \/ ThreadExit(p, abnormal)

Next ==
  \/ \E parent, p \in Pid : Child(parent, p)
  \/ Exits
  \/ Watchdog \/ Restart \/ RepoRetry
  \/ \E p \in Pid : SendReady(p) \/ Ready(p)

Spec == Init /\ [][Next]_vars

\* An armed timer goes off and is handled.  Nothing is assumed of the
\* processes: they may hang, and ignore SIGTERM.
FairSpec == Spec /\ WF_vars(Watchdog) /\ WF_vars(Restart) /\ WF_vars(RepoRetry)

-----------------------------------------------------------------------------
(* Properties. *)

AtRest == unit.state \in {"None", "Offline", "Maintenance"}

(* A unit that has been brought down or has been given up has left nothing
   behind: unit_purge_and_target and the stop states are passed only when the
   last process is gone, whatever forks, exits and times out meanwhile.  It is
   what DESIGN.md promises of supervision: "we are able to ensure it cannot
   escape". *)
CleanAtRest == AtRest => unit.alive = {}

(* The same of the processes the unit tracks, which also holds of a service
   whose processes have threads. *)
Purged == AtRest => unit.pids = {}

(* A method that hangs is always cut short: while the prestart or the stop
   method runs, or a start method has yet to report READY=1, a watchdog is
   armed, although several may be and timer_id may have lost track of them. *)
Watched ==
  (\/ unit.state \in {"PRESTART", "STOP"}
   \/ unit.state = "START" /\ ~unit.online)
  /\ (unit.main_pid \in unit.pids \/ unit.state = "STOP") => unit.watchdogs > 0

(* The restart timer of unit_retry_start is the only one and belongs to a unit
   that is on its way to None: it goes off in no other state, so a unit given
   up for good stays so. *)
OneRestart ==
  unit.restarts > 0 =>
    /\ unit.restarts = 1 /\ unit.target = "None"
    /\ unit.state \in {"None", "STOP", "STOPTERM"}

(* unit_enter_stopterm signals only processes of the unit: the main_pid that it
   kills first has not exited. *)
SignalsOwn ==
  [][(unit'.state = "STOPTERM" /\ unit.state # "STOPTERM")
       => unit'.main_pid \in unit'.pids \cup {NoPid}]_vars

(* A unit does not fail and restart for ever: its state settles. *)
Settles == \E s \in UnitState : <>[](unit.state = s)

(* A unit whose main process failed is started again or given up. *)
Recovers == unit.state = "None" ~> (unit.state \in {"PRESTART", "START", "Maintenance"} \/ crashed)

(* Once s16.configd has come up, restartd connects to it or has tried for as
   long as it is willing to. *)
RepoSettles ==
  (IsRepository /\ unit.online) ~> (\/ unit.repo_up \/ crashed
                                    \/ unit.repo_retry_delay > RetryLimit)

-----------------------------------------------------------------------------
(* What a comment says and the code does not do. *)

(* unit.c, where a start method is watched: "begin the timer for the process to
   fork/notify within".  A unit that has notified in time is not timed out. *)
ReadyNotTimedOut ==
  [][unit.online => unit'.fail_cnt["PRESTART"] = unit.fail_cnt["PRESTART"]]_vars

=============================================================================
