----------------------------- MODULE UnitProofs -----------------------------
(***************************************************************************)
(* Proofs about module Unit, for every type of unit, every set of methods  *)
(* and any number of processes.                                            *)
(***************************************************************************)
EXTENDS Unit, TLAPS

\* A unit without a stop method: restartd.c gives its units none.
NoStop == "STOP" \notin Methods

\* The states a unit is ever in, and the targets it is ever given.
Starting == {"PRESTART", "START", "POSTSTART"}
Resting  == {"None", "Offline", "Maintenance"}
States   == Starting \cup Resting \cup {"STOP", "STOPTERM"}
Targets  == Resting \cup {"PRESTART", "START"}

\* What holds of a unit between any two calls of unit_enter_*.
Base(u) ==
  /\ u \in Units
  /\ u.own => u.watchdogs > 0
  /\ u.target \in Targets
  /\ Threads = {} => u.alive = u.pids

\* main_pid names a process of the unit, or none.
Own(u) == u.main_pid \in u.pids \cup {NoPid}

\* No restart timer is armed, or only one of a unit on its way to None.
Calm(u)      == NoStop => u.restarts = 0
RestartOK(u) == NoStop => (u.restarts > 0 => u.restarts = 1 /\ u.target = "None")

\* The state needs a watchdog.
Hangs(u) ==
  \/ u.state = "STOP"
  \/ /\ u.state = "PRESTART" \/ (u.state = "START" /\ ~u.online)
     /\ u.main_pid \in u.pids

(* The inductive invariant, of the unit between two events. *)
Good(u) ==
  /\ Base(u)
  /\ u.state \in States
  /\ u.state \in Resting => u.pids = {}
  /\ u.state \in Starting => Own(u)
  /\ Hangs(u) => u.watchdogs > 0
  /\ NoStop => u.state # "STOP"
  /\ RestartOK(u)
  /\ NoStop => (u.restarts > 0 => u.state \in {"None", "STOPTERM"})

-----------------------------------------------------------------------------
(* The updates of a unit that the operators make keep its type. *)

\* The fields of a unit.
LEMMA Fields ==
  ASSUME NEW u \in Units
  PROVE  /\ u.state \in UnitState /\ u.target \in UnitState
         /\ u.pids \in SUBSET Pid /\ u.alive \in SUBSET Pid
         /\ u.main_pid \in Pid \cup {NoPid} /\ u.secondary_pid \in Pid \cup {NoPid}
         /\ u.fail_cnt \in [Method -> Nat] /\ u.watchdogs \in Nat /\ u.own \in BOOLEAN
         /\ u.restarts \in Nat /\ u.looping \in BOOLEAN /\ u.online \in BOOLEAN
         /\ u.repo_up \in BOOLEAN /\ u.repo_retry_delay \in Nat /\ u.repo_timers \in Nat
BY DEF Units

\* ... with another state or target
LEMMA TypedState ==
  ASSUME NEW u \in Units, NEW s \in UnitState, NEW t \in UnitState, NEW b \in BOOLEAN
  PROVE  /\ [u EXCEPT !.state = s] \in Units
         /\ [u EXCEPT !.target = t] \in Units
         /\ [u EXCEPT !.target = t, !.state = s] \in Units
         /\ [u EXCEPT !.state = s, !.online = b] \in Units
<1>1. [u EXCEPT !.state = s] \in Units
  BY DEF Units
<1>2. [u EXCEPT !.target = t] \in Units
  BY DEF Units
<1>3. [u EXCEPT !.target = t, !.state = s] \in Units
  BY DEF Units
<1>4. [u EXCEPT !.state = s, !.online = b] \in Units
  BY DEF Units
<1> QED BY <1>1, <1>2, <1>3, <1>4

\* ... with other timers
LEMMA TypedTimers ==
  ASSUME NEW u \in Units, NEW n \in Nat, NEW b \in BOOLEAN
  PROVE  /\ [u EXCEPT !.watchdogs = n, !.own = b] \in Units
         /\ [u EXCEPT !.restarts = n] \in Units
<1>1. [u EXCEPT !.watchdogs = n, !.own = b] \in Units
  BY DEF Units
<1>2. [u EXCEPT !.restarts = n] \in Units
  BY DEF Units
<1> QED BY <1>1, <1>2

\* ... after what manager_configd_came_up and repo_retry_cb change
LEMMA TypedRepo ==
  ASSUME NEW u \in Units, NEW n \in Nat, NEW k \in Nat
  PROVE  /\ [u EXCEPT !.online = TRUE] \in Units
         /\ [u EXCEPT !.repo_up = TRUE] \in Units
         /\ [u EXCEPT !.repo_retry_delay = k, !.repo_timers = n] \in Units
         /\ [u EXCEPT !.repo_retry_delay = k] \in Units
         /\ [u EXCEPT !.repo_timers = n] \in Units
<1>1. [u EXCEPT !.online = TRUE] \in Units
  BY DEF Units
<1>2. [u EXCEPT !.repo_up = TRUE] \in Units
  BY DEF Units
<1>3. [u EXCEPT !.repo_retry_delay = k, !.repo_timers = n] \in Units
  BY DEF Units
<1>4. [u EXCEPT !.repo_retry_delay = k] \in Units
  BY DEF Units
<1>5. [u EXCEPT !.repo_timers = n] \in Units
  BY DEF Units
<1> QED BY <1>1, <1>2, <1>3, <1>4, <1>5

\* ... with other processes
LEMMA TypedPids ==
  ASSUME NEW u \in Units, NEW p \in Pid \cup {NoPid}, NEW S \in SUBSET Pid, NEW T \in SUBSET Pid
  PROVE  /\ [u EXCEPT !.main_pid = p] \in Units
         /\ [u EXCEPT !.secondary_pid = p] \in Units
         /\ [u EXCEPT !.main_pid = p, !.pids = S, !.alive = T] \in Units
         /\ [u EXCEPT !.secondary_pid = p, !.pids = S, !.alive = T] \in Units
         /\ [u EXCEPT !.secondary_pid = p, !.looping = TRUE] \in Units
         /\ [u EXCEPT !.pids = S] \in Units
         /\ [u EXCEPT !.alive = T] \in Units
         /\ [u EXCEPT !.alive = T, !.pids = S] \in Units
<1>1. [u EXCEPT !.main_pid = p] \in Units
  BY DEF Units
<1>2. [u EXCEPT !.secondary_pid = p] \in Units
  BY DEF Units
<1>3. [u EXCEPT !.main_pid = p, !.pids = S, !.alive = T] \in Units
  BY DEF Units
<1>4. [u EXCEPT !.secondary_pid = p, !.pids = S, !.alive = T] \in Units
  BY DEF Units
<1>5. [u EXCEPT !.secondary_pid = p, !.looping = TRUE] \in Units
  BY DEF Units
<1>6. [u EXCEPT !.pids = S] \in Units
  BY DEF Units
<1>7. [u EXCEPT !.alive = T] \in Units
  BY DEF Units
<1>8. [u EXCEPT !.alive = T, !.pids = S] \in Units
  BY DEF Units
<1> QED BY <1>1, <1>2, <1>3, <1>4, <1>5, <1>6, <1>7, <1>8

\* ... with one more failure
LEMMA TypedFailures ==
  ASSUME NEW u \in Units, NEW m \in Method
  PROVE  [u EXCEPT !.fail_cnt[m] = @ + 1] \in Units
<1>1. [u.fail_cnt EXCEPT ![m] = @ + 1] \in [Method -> Nat]
  BY Fields
<1>2. ASSUME NEW f \in [Method -> Nat] PROVE [u EXCEPT !.fail_cnt = f] \in Units
  BY DEF Units
<1>3. [u EXCEPT !.fail_cnt[m] = @ + 1] = [u EXCEPT !.fail_cnt = [u.fail_cnt EXCEPT ![m] = @ + 1]]
  BY DEF Units
<1> QED BY <1>1, <1>2, <1>3

-----------------------------------------------------------------------------
(* Timers and forks *)

\* The fields that the invariant is about, apart from the timers, are the same.
Same(u, v) ==
  /\ v.state = u.state /\ v.target = u.target /\ v.pids = u.pids /\ v.alive = u.alive
  /\ v.main_pid = u.main_pid /\ v.restarts = u.restarts /\ v.online = u.online

\* Arming a timer leaves the unit watched.
LEMMA RegTimesBase ==
  ASSUME NEW u, Base(u), NEW n \in Nat \ {0}
  PROVE  /\ Base(RegTimes(u, n)) /\ Same(u, RegTimes(u, n))
         /\ RegTimes(u, n).watchdogs > 0
<1>1. RegTimes(u, n) \in Units
  <2>1. u \in Units /\ u.watchdogs + n \in Nat /\ TRUE \in BOOLEAN
    BY Fields DEF Base
  <2> QED BY <2>1, TypedTimers, Zenon DEF RegTimes
<1>2. RegTimes(u, n).watchdogs = u.watchdogs + n /\ Same(u, RegTimes(u, n))
  BY DEF Base, RegTimes, Units, Same
<1> QED BY <1>1, <1>2, Fields DEF Base, Same

LEMMA RegBase ==
  ASSUME NEW u, Base(u)
  PROVE  Base(Reg(u)) /\ Same(u, Reg(u)) /\ Reg(u).watchdogs > 0
<1>1. Reg(u) = RegTimes(u, 1)
  BY DEF Reg, RegTimes
<1> QED BY <1>1, RegTimesBase

\* timerset_del never takes the count of timers below zero.
LEMMA DelBase ==
  ASSUME NEW u, Base(u)
  PROVE  Base(Del(u)) /\ Same(u, Del(u))
<1>1. (IF u.own THEN u.watchdogs - 1 ELSE u.watchdogs) \in Nat
  BY Fields DEF Base
<1>2. Del(u) \in Units
  BY <1>1, TypedTimers DEF Base, Del
<1>3. Same(u, Del(u)) /\ Del(u).own = FALSE
  BY DEF Base, Del, Units, Same
<1> QED BY <1>2, <1>3 DEF Base, Same

\* A new main process is tracked and is the unit's own.
LEMMA ForkMainBase ==
  ASSUME NEW u, Base(u), NEW w \in ForkMain(u)
  PROVE  /\ Base(w) /\ Own(w) /\ w.state = u.state /\ w.target = u.target
         /\ w.restarts = u.restarts /\ w.online = u.online /\ w.watchdogs = u.watchdogs
<1>1. PICK p \in Pid \ u.alive :
        w = [u EXCEPT !.main_pid = p, !.pids = @ \cup {p}, !.alive = @ \cup {p}]
  BY DEF ForkMain
<1>2. w \in Units
  <2>1. /\ u \in Units /\ p \in Pid \cup {NoPid}
        /\ u.pids \cup {p} \in SUBSET Pid /\ u.alive \cup {p} \in SUBSET Pid
    BY Fields DEF Base
  <2> QED BY <1>1, <2>1, TypedPids, Zenon
<1>3. /\ w.state = u.state /\ w.target = u.target /\ w.restarts = u.restarts
      /\ w.online = u.online /\ w.watchdogs = u.watchdogs /\ w.own = u.own
      /\ w.main_pid = p /\ w.pids = u.pids \cup {p} /\ w.alive = u.alive \cup {p}
  BY <1>1 DEF Base, Units
<1> QED BY <1>2, <1>3 DEF Base, Own

\* A new secondary process leaves the main one alone.
LEMMA ForkSecondaryBase ==
  ASSUME NEW u, Base(u), NEW w \in ForkSecondary(u)
  PROVE  /\ Base(w) /\ (Own(u) => Own(w)) /\ w.state = u.state /\ w.target = u.target
         /\ w.restarts = u.restarts /\ w.online = u.online /\ w.watchdogs = u.watchdogs
<1>1. PICK p \in Pid \ u.alive :
        w = [u EXCEPT !.secondary_pid = p, !.pids = @ \cup {p}, !.alive = @ \cup {p}]
  BY DEF ForkSecondary
<1>2. w \in Units
  <2>1. /\ u \in Units /\ p \in Pid \cup {NoPid}
        /\ u.pids \cup {p} \in SUBSET Pid /\ u.alive \cup {p} \in SUBSET Pid
    BY Fields DEF Base
  <2> QED BY <1>1, <2>1, TypedPids, Zenon
<1>3. /\ w.state = u.state /\ w.target = u.target /\ w.restarts = u.restarts
      /\ w.online = u.online /\ w.watchdogs = u.watchdogs /\ w.own = u.own
      /\ w.main_pid = u.main_pid /\ w.pids = u.pids \cup {p} /\ w.alive = u.alive \cup {p}
  BY <1>1 DEF Base, Units
<1> QED BY <1>2, <1>3 DEF Base, Own

\* Another state
LEMMA StateBase ==
  ASSUME NEW u, Base(u), NEW s \in UnitState
  PROVE  LET w == [u EXCEPT !.state = s] IN
         /\ Base(w) /\ w.state = s /\ w.target = u.target /\ w.pids = u.pids
         /\ w.main_pid = u.main_pid /\ w.restarts = u.restarts /\ w.online = u.online
         /\ w.watchdogs = u.watchdogs
<1> DEFINE w == [u EXCEPT !.state = s]
<1>1. w \in Units
  BY TypedState DEF Base
<1>2. /\ w.state = s /\ w.target = u.target /\ w.pids = u.pids /\ w.alive = u.alive
      /\ w.main_pid = u.main_pid /\ w.restarts = u.restarts /\ w.online = u.online
      /\ w.watchdogs = u.watchdogs /\ w.own = u.own
  BY DEF Base, Units
<1> HIDE DEF w
<1>3. Base(w)
  BY <1>1, <1>2 DEF Base
<1> QED BY <1>2, <1>3 DEF w

\* Another target
LEMMA TargetBase ==
  ASSUME NEW u, Base(u), NEW t \in Targets
  PROVE  LET w == [u EXCEPT !.target = t] IN
         /\ Base(w) /\ w.state = u.state /\ w.target = t /\ w.pids = u.pids
         /\ w.main_pid = u.main_pid /\ w.restarts = u.restarts /\ w.online = u.online
         /\ w.watchdogs = u.watchdogs
<1> DEFINE w == [u EXCEPT !.target = t]
<1>1. w \in Units
  BY TypedState DEF Base, Targets, Resting, UnitState, Method
<1>2. /\ w.state = u.state /\ w.target = t /\ w.pids = u.pids /\ w.alive = u.alive
      /\ w.main_pid = u.main_pid /\ w.restarts = u.restarts /\ w.online = u.online
      /\ w.watchdogs = u.watchdogs /\ w.own = u.own
  BY DEF Base, Units
<1> HIDE DEF w
<1>3. Base(w)
  BY <1>1, <1>2 DEF Base
<1> QED BY <1>2, <1>3 DEF w

\* A process that is no more, or could not be forked
LEMMA NoProcessBase ==
  ASSUME NEW u, Base(u)
  PROVE  LET v == [u EXCEPT !.main_pid = NoPid]
             w == [u EXCEPT !.secondary_pid = NoPid]
         IN  /\ Base(v) /\ Own(v) /\ v.state = u.state /\ v.target = u.target /\ v.pids = u.pids
             /\ v.restarts = u.restarts /\ v.online = u.online /\ v.watchdogs = u.watchdogs
             /\ Base(w) /\ Same(u, w) /\ w.watchdogs = u.watchdogs
<1> DEFINE v == [u EXCEPT !.main_pid = NoPid]
           w == [u EXCEPT !.secondary_pid = NoPid]
<1>1. v \in Units /\ w \in Units
  BY TypedPids DEF Base
<1>2. /\ v.state = u.state /\ v.target = u.target /\ v.pids = u.pids /\ v.alive = u.alive
      /\ v.main_pid = NoPid /\ v.restarts = u.restarts /\ v.online = u.online
      /\ v.watchdogs = u.watchdogs /\ v.own = u.own
  BY DEF Base, Units
<1>3. Same(u, w) /\ w.watchdogs = u.watchdogs /\ w.own = u.own
  BY DEF Base, Units, Same
<1> HIDE DEF v, w
<1>4. Base(v) /\ Base(w) /\ Own(v)
  BY <1>1, <1>2, <1>3 DEF Base, Own, Same
<1> QED BY <1>2, <1>3, <1>4 DEF v, w

-----------------------------------------------------------------------------
(* The states.  Every unit_enter_* operator leads to a good unit. *)

\* The states and targets are among those of unit.h.
LEMMA StateNames == States \subseteq UnitState /\ Targets \subseteq UnitState
BY DEF States, Targets, Starting, Resting, UnitState, Method

\* unit_enter_stopterm waits for what is left, whatever timers there are.
LEMMA TermGood ==
  ASSUME NEW u, Base(u), RestartOK(u)
  PROVE  /\ Good(Term(u)) /\ (Own(u) => Own(Term(u)))
         /\ Term(u).state = "STOPTERM" /\ Term(u).target = u.target
         /\ Term(u).restarts = u.restarts
<1> DEFINE v == [u EXCEPT !.state = "STOPTERM"]
<1>1. /\ Base(v) /\ v.state = "STOPTERM" /\ v.target = u.target /\ v.pids = u.pids
      /\ v.main_pid = u.main_pid /\ v.restarts = u.restarts
  BY StateBase, StateNames DEF States
<1> HIDE DEF v
<1>2. Base(Reg(v)) /\ Same(v, Reg(v))
  BY <1>1, RegBase
<1>3. Term(u) = Reg(v)
  BY DEF Term, v
<1> QED BY <1>1, <1>2, <1>3
        DEF Good, RestartOK, Same, States, Starting, Resting, Hangs, Own

\* unit_enter_stop on the way to Maintenance: a stop method under way is
\* watched, even after the fork that failed.
LEMMA StopForMaintenanceGood ==
  ASSUME NEW u, Base(u), Calm(u), NEW w \in StopForMaintenance(u)
  PROVE  Good(w) /\ (Own(u) => Own(w))
<1>1. CASE NoStop
  <2>1. w = Term(u) /\ RestartOK(u)
    BY <1>1, Fields DEF StopForMaintenance, NoStop, Calm, RestartOK, Base
  <2> QED BY <2>1, TermGood
<1>2. CASE ~NoStop
  <2> DEFINE v == [u EXCEPT !.state = "STOP"]
             Lost(t) == [t EXCEPT !.secondary_pid = NoPid, !.looping = TRUE]
  <2>1. /\ Base(v) /\ v.state = "STOP" /\ v.pids = u.pids /\ v.main_pid = u.main_pid
    BY StateBase, StateNames DEF States
  <2>a. \E n \in 1 .. MaxForks :
          w \in ForkSecondary(RegTimes(v, n)) \/ w = Lost(RegTimes(v, n))
    <3>1. MaxForks \in 1 .. MaxForks
      BY UnitAssumption
    <3>2. /\ "STOP" \in Methods
          /\ w \in (UNION {ForkSecondary(RegTimes(v, n)) : n \in 1 .. MaxForks})
                   \cup {Lost(RegTimes(v, MaxForks))}
      BY <1>2 DEF StopForMaintenance, NoStop
    <3> HIDE DEF v, Lost
    <3>3. CASE w = Lost(RegTimes(v, MaxForks))
      BY <3>1, <3>3
    <3>4. CASE w \in UNION {ForkSecondary(RegTimes(v, n)) : n \in 1 .. MaxForks}
      <4>1. PICK S \in {ForkSecondary(RegTimes(v, n)) : n \in 1 .. MaxForks} : w \in S
        BY <3>4, Zenon
      <4> QED BY <4>1, Zenon
    <3> QED BY <3>2, <3>3, <3>4, Zenon
  <2>b. PICK n \in 1 .. MaxForks :
          w \in ForkSecondary(RegTimes(v, n)) \/ w = Lost(RegTimes(v, n))
    BY <2>a
  <2> DEFINE s == RegTimes(v, n)
             x == Lost(s)
  <2>2. Base(s) /\ Same(v, s) /\ s.watchdogs > 0
    <3> HIDE DEF v
    <3>1. n \in Nat \ {0}
      BY UnitAssumption
    <3> QED BY <2>1, <3>1, RegTimesBase
  <2>3. w \in ForkSecondary(s) \/ w = x
    BY <2>b
  <2> HIDE DEF v, s
  <2>4. CASE w \in ForkSecondary(s)
    BY <1>2, <2>1, <2>2, <2>4, ForkSecondaryBase
       DEF Good, RestartOK, Same, States, Starting, Resting, Own
  <2>5. CASE w = x
    <3>1. x \in Units
      BY <2>2, TypedPids DEF Base
    <3>2. /\ x.state = "STOP" /\ x.pids = u.pids /\ x.main_pid = u.main_pid
          /\ x.target = s.target /\ x.alive = s.alive
          /\ x.watchdogs = s.watchdogs /\ x.own = s.own
      BY <2>1, <2>2 DEF Base, Units, Same
    <3> HIDE DEF x
    <3>3. Base(x)
      BY <2>1, <2>2, <3>1, <3>2 DEF Base, Same
    <3> QED BY <1>2, <2>2, <2>5, <3>2, <3>3
            DEF Good, RestartOK, States, Starting, Resting, Own
  <2> QED BY <2>3, <2>4, <2>5
<1> QED BY <1>1, <1>2

\* A unit is given up only once it has no process.
LEMMA ToMaintenanceGood ==
  ASSUME NEW u, Base(u), Calm(u), NEW w \in ToMaintenance(u)
  PROVE  Good(w) /\ (Own(u) => Own(w))
<1> DEFINE v == [u EXCEPT !.target = "Maintenance"]
<1>1. /\ Base(v) /\ v.pids = u.pids /\ v.main_pid = u.main_pid /\ v.restarts = u.restarts
      /\ v.target = "Maintenance"
  <2>1. "Maintenance" \in Targets
    BY DEF Targets, Resting
  <2> QED BY <2>1, TargetBase
<1> HIDE DEF v
<1>2. CASE u.pids # {}
  <2>1. w \in StopForMaintenance(v)
    BY <1>2 DEF ToMaintenance, v
  <2> QED BY <1>1, <2>1, StopForMaintenanceGood DEF Calm, Own
<1>3. CASE u.pids = {}
  <2> DEFINE x == [v EXCEPT !.state = "Maintenance"]
  <2>1. w = x
    BY <1>3 DEF ToMaintenance, v
  <2>2. /\ Base(x) /\ x.state = "Maintenance" /\ x.pids = {} /\ x.main_pid = u.main_pid
        /\ x.restarts = u.restarts
    BY <1>1, <1>3, StateBase, StateNames DEF States, Resting
  <2> HIDE DEF x
  <2> QED BY <1>3, <2>1, <2>2 
          DEF Good, RestartOK, Calm, States, Starting, Resting, Hangs, Own
<1> QED BY <1>2, <1>3

\* unit_enter_online announces the unit and leaves its state alone.
LEMMA OnlineGood ==
  ASSUME NEW u, Base(u), Own(u), Calm(u), u.state \in {"START", "POSTSTART"},
         NEW w \in unit_enter_online(u)
  PROVE  Good(w) /\ Own(w)
<1> DEFINE v == [u EXCEPT !.online = TRUE]
<1>1. v \in Units
  BY TypedRepo DEF Base
<1>2. /\ v.state = u.state /\ v.target = u.target /\ v.pids = u.pids /\ v.alive = u.alive
      /\ v.main_pid = u.main_pid /\ v.restarts = u.restarts /\ v.online = TRUE
      /\ v.watchdogs = u.watchdogs /\ v.own = u.own
  BY DEF Base, Units
<1>3. w \in {v} \cup manager_configd_came_up(v)
  BY DEF unit_enter_online
<1> HIDE DEF v
<1>4. /\ w \in Units /\ Same(v, w) /\ w.watchdogs = v.watchdogs /\ w.own = v.own
  <2>1. CASE w = v
    BY <1>1, <2>1 DEF Same
  <2>2. CASE w = [v EXCEPT !.repo_up = TRUE]
    <3>1. w \in Units
      BY <1>1, <2>2, TypedRepo
    <3> QED BY <1>1, <2>2, <3>1 DEF Same, Units
  <2>3. CASE w = [v EXCEPT !.repo_retry_delay = 5, !.repo_timers = @ + 1]
    <3>1. 5 \in Nat /\ v.repo_timers + 1 \in Nat
      BY <1>1, Fields
    <3>2. w \in Units
      BY <1>1, <2>3, <3>1, TypedRepo, Zenon
    <3> QED BY <1>1, <2>3, <3>2 DEF Same, Units
  <2> QED BY <1>3, <2>1, <2>2, <2>3 DEF manager_configd_came_up
<1>5. Base(w)
  BY <1>2, <1>4 DEF Base, Same
<1> QED BY <1>2, <1>4, <1>5
        DEF Good, RestartOK, Calm, Same, States, Starting, Resting, Hangs, Own

\* unit_enter_poststart keeps the main process.
LEMMA PoststartGood ==
  ASSUME NEW u, Base(u), Own(u), Calm(u), u.state = "START", NEW w \in unit_enter_poststart(u)
  PROVE  Good(w) /\ Own(w)
<1>1. CASE "POSTSTART" \in Methods
  <2> DEFINE v == [u EXCEPT !.state = "POSTSTART"]
             s == Reg(v)
             x == [s EXCEPT !.secondary_pid = NoPid]
  <2>1. /\ Base(v) /\ v.state = "POSTSTART" /\ v.pids = u.pids /\ v.main_pid = u.main_pid
        /\ v.restarts = u.restarts
    BY StateBase, StateNames DEF States, Starting
  <2>2. Base(s) /\ Same(v, s)
    <3> HIDE DEF v
    <3> QED BY <2>1, RegBase
  <2>3. w \in ForkSecondary(s) \/ w \in ToMaintenance(x)
    BY <1>1 DEF unit_enter_poststart
  <2> HIDE DEF v, s
  <2>4. CASE w \in ForkSecondary(s)
    BY <2>1, <2>2, <2>4, ForkSecondaryBase
       DEF Good, RestartOK, Calm, Same, States, Starting, Resting, Hangs, Own
  <2>5. CASE w \in ToMaintenance(x)
    <3>1. Base(x) /\ Same(s, x)
      BY <2>2, NoProcessBase
    <3> HIDE DEF x
    <3> QED BY <2>1, <2>2, <2>5, <3>1, ToMaintenanceGood DEF Calm, Same, Own
  <2> QED BY <2>3, <2>4, <2>5
<1>2. CASE "POSTSTART" \notin Methods
  BY <1>2, OnlineGood DEF unit_enter_poststart
<1> QED BY <1>1, <1>2

\* unit_enter_start forks a main process that is watched, or gives up.
LEMMA StartGood ==
  ASSUME NEW u, Base(u), Calm(u), NEW w \in unit_enter_start(u)
  PROVE  Good(w) /\ Own(w)
<1> DEFINE s == [u EXCEPT !.state = "START", !.online = FALSE]
           x == [s EXCEPT !.main_pid = NoPid]
<1>1. s \in Units
  <2>1. u \in Units /\ "START" \in UnitState /\ FALSE \in BOOLEAN
    BY DEF Base, UnitState, Method
  <2> QED BY <2>1, TypedState, Zenon
<1>2. /\ s.state = "START" /\ s.target = u.target /\ s.pids = u.pids /\ s.alive = u.alive
      /\ s.restarts = u.restarts /\ s.watchdogs = u.watchdogs /\ s.own = u.own
  BY DEF Base, Units
<1>3. \/ w \in ToMaintenance(x)
      \/ \E v \in ForkMain(s) : w \in unit_enter_poststart(v) \/ w = Reg(v)
  <2> DEFINE started(v) == IF Type \in {"SIMPLE", "ONESHOT", "GROUP"}
                           THEN unit_enter_poststart(v) ELSE {Reg(v)}
  <2>1. unit_enter_start(u) = (UNION {started(v) : v \in ForkMain(s)}) \cup ToMaintenance(x)
    BY DEF unit_enter_start
  <2>2. \A v : w \in started(v) => w \in unit_enter_poststart(v) \/ w = Reg(v)
    OBVIOUS
  <2> HIDE DEF started, s, x
  <2>3. CASE w \in UNION {started(v) : v \in ForkMain(s)}
    <3>1. PICK S \in {started(v) : v \in ForkMain(s)} : w \in S
      BY <2>3, Zenon
    <3>2. PICK v \in ForkMain(s) : S = started(v)
      BY <3>1, Zenon
    <3> QED BY <2>2, <3>1, <3>2
  <2>4. CASE w \in ToMaintenance(x)
    BY <2>4
  <2> QED BY <2>1, <2>3, <2>4, Zenon
<1> HIDE DEF s
<1>4. Base(s)
  BY <1>1, <1>2 DEF Base
<1>5. CASE w \in ToMaintenance(x)
  <2>1. Base(x) /\ Own(x) /\ x.restarts = s.restarts
    BY <1>4, NoProcessBase
  <2> HIDE DEF x
  <2> QED BY <1>2, <1>5, <2>1, ToMaintenanceGood DEF Calm
<1>6. ASSUME NEW v \in ForkMain(s), w \in unit_enter_poststart(v) \/ w = Reg(v)
      PROVE  Good(w) /\ Own(w)
  <2>1. Base(v) /\ Own(v) /\ v.state = "START" /\ Calm(v)
    BY <1>2, <1>4, ForkMainBase DEF Calm
  <2>2. CASE w \in unit_enter_poststart(v)
    BY <2>1, <2>2, PoststartGood
  <2>3. CASE w = Reg(v)
    <3>1. Base(w) /\ Same(v, w) /\ w.watchdogs > 0
      BY <2>1, <2>3, RegBase
    <3> QED BY <2>1, <3>1 DEF Good, RestartOK, Calm, Same, States, Starting, Resting, Own
  <2> QED BY <1>6, <2>2, <2>3
<1> QED BY <1>3, <1>5, <1>6

\* So does unit_enter_prestart; it is the only way out of None.
LEMMA PrestartGood ==
  ASSUME NEW u, Base(u), Calm(u), NEW w \in unit_enter_prestart(u)
  PROVE  Good(w) /\ Own(w)
<1> DEFINE t == [u EXCEPT !.state = "PRESTART", !.online = FALSE]
           s == Reg(t)
           x == [s EXCEPT !.main_pid = NoPid]
<1>1. t \in Units
  <2>1. u \in Units /\ "PRESTART" \in UnitState /\ FALSE \in BOOLEAN
    BY DEF Base, UnitState, Method
  <2> QED BY <2>1, TypedState, Zenon
<1>2. /\ t.state = "PRESTART" /\ t.target = u.target /\ t.pids = u.pids /\ t.alive = u.alive
      /\ t.restarts = u.restarts /\ t.watchdogs = u.watchdogs /\ t.own = u.own
  BY DEF Base, Units
<1>3. w \in unit_enter_start(u) \/ w \in ForkMain(s) \/ w \in ToMaintenance(x)
  BY DEF unit_enter_prestart
<1> HIDE DEF t
<1>4. Base(t)
  BY <1>1, <1>2 DEF Base
<1>5. Base(s) /\ Same(t, s) /\ s.watchdogs > 0
  BY <1>4, RegBase
<1> HIDE DEF s
<1>6. CASE w \in unit_enter_start(u)
  BY <1>6, StartGood
<1>7. CASE w \in ForkMain(s)
  BY <1>2, <1>5, <1>7, ForkMainBase
     DEF Good, RestartOK, Calm, Same, States, Starting, Resting, Own
<1>8. CASE w \in ToMaintenance(x)
  <2>1. Base(x) /\ Own(x) /\ x.restarts = s.restarts
    BY <1>5, NoProcessBase
  <2> HIDE DEF x
  <2> QED BY <1>2, <1>5, <1>8, <2>1, ToMaintenanceGood DEF Calm, Same
<1> QED BY <1>3, <1>6, <1>7, <1>8

\* unit_enter_state is reached when no process is left.
LEMMA EnterStateGood ==
  ASSUME NEW u, Base(u), RestartOK(u), u.pids = {}, NEW w \in unit_enter_state(u)
  PROVE  Good(w) /\ (Own(u) => Own(w))
<1>1. CASE u.target \in Resting
  <2>1. w = [u EXCEPT !.state = u.target]
    BY <1>1 DEF unit_enter_state, Resting
  <2>2. /\ Base(w) /\ w.state = u.target /\ w.target = u.target /\ w.pids = {}
        /\ w.main_pid = u.main_pid /\ w.restarts = u.restarts
    BY <2>1, StateBase, StateNames DEF Base
  <2> QED BY <1>1, <2>2
          DEF Good, RestartOK, States, Starting, Resting, Hangs, Own
<1>2. CASE u.target \in {"PRESTART", "START"}
  <2>1. w \in unit_enter_prestart(u) \/ w \in unit_enter_start(u)
    BY <1>2 DEF unit_enter_state
  <2>2. Calm(u)
    BY <1>2, Fields DEF RestartOK, Calm, Base
  <2> QED BY <2>1, <2>2, PrestartGood, StartGood
<1> QED BY <1>1, <1>2 DEF Base, Targets

\* unit_enter_stopterm, whether a process is left or not
LEMMA StoptermGood ==
  ASSUME NEW u, Base(u), RestartOK(u), NEW w \in unit_enter_stopterm(u)
  PROVE  Good(w) /\ (Own(u) => Own(w))
BY EnterStateGood, TermGood DEF unit_enter_stopterm

\* unit_enter_stop, with a stop method and without
LEMMA StopGood ==
  ASSUME NEW u, Base(u), Calm(u), NEW w \in unit_enter_stop(u)
  PROVE  Good(w) /\ (Own(u) => Own(w))
<1>1. RestartOK(u)
  BY DEF Calm, RestartOK
<1>2. CASE "STOP" \notin Methods
  BY <1>1, <1>2, StoptermGood DEF unit_enter_stop
<1>3. CASE "STOP" \in Methods
  <2> DEFINE v == [u EXCEPT !.state = "STOP"]
             s == Reg(v)
             x == [s EXCEPT !.secondary_pid = NoPid]
  <2>1. /\ Base(v) /\ v.state = "STOP" /\ v.pids = u.pids /\ v.main_pid = u.main_pid
        /\ v.restarts = u.restarts
    BY StateBase, StateNames DEF States
  <2>2. Base(s) /\ Same(v, s) /\ s.watchdogs > 0
    <3> HIDE DEF v
    <3> QED BY <2>1, RegBase
  <2>3. w \in ForkSecondary(s) \/ w \in ToMaintenance(x)
    BY <1>3 DEF unit_enter_stop
  <2> HIDE DEF v, s
  <2>4. CASE w \in ForkSecondary(s)
    BY <1>3, <2>1, <2>2, <2>4, ForkSecondaryBase
       DEF Good, NoStop, RestartOK, Same, States, Starting, Resting, Own
  <2>5. CASE w \in ToMaintenance(x)
    <3>1. Base(x) /\ Same(s, x)
      BY <2>2, NoProcessBase
    <3> HIDE DEF x
    <3> QED BY <2>1, <2>2, <2>5, <3>1, ToMaintenanceGood DEF Calm, Same, Own
  <2> QED BY <2>3, <2>4, <2>5
<1> QED BY <1>2, <1>3

\* unit_purge_and_target does not come to rest with a process left.
LEMMA PurgeGood ==
  ASSUME NEW u, Base(u), Calm(u), NEW w \in unit_purge_and_target(u)
  PROVE  Good(w) /\ (Own(u) => Own(w))
BY EnterStateGood, StopGood DEF unit_purge_and_target, Calm, RestartOK

(* Without a stop method, a purge on the way to None ends in None or in
   STOPTERM. *)
LEMMA PurgeToNone ==
  ASSUME NEW u, Base(u), NoStop, u.restarts = 0, u.target = "None",
         NEW w \in unit_purge_and_target(u)
  PROVE  w.state \in {"None", "STOPTERM"} /\ w.target = "None" /\ w.restarts = 0
<1>1. CASE u.pids # {}
  <2>1. w = Term(u) /\ RestartOK(u)
    BY <1>1 DEF unit_purge_and_target, unit_enter_stop, unit_enter_stopterm, NoStop, RestartOK
  <2> QED BY <2>1, TermGood
<1>2. CASE u.pids = {}
  <2>1. w = [u EXCEPT !.state = "None"]
    BY <1>2 DEF unit_purge_and_target, unit_enter_state
  <2> QED BY <2>1, StateBase, StateNames DEF States, Resting
<1> QED BY <1>1, <1>2

\* Another number of restart timers
LEMMA RestartsBase ==
  ASSUME NEW u, Base(u), NEW n \in Nat
  PROVE  LET w == [u EXCEPT !.restarts = n] IN
         /\ Base(w) /\ w.state = u.state /\ w.target = u.target /\ w.pids = u.pids
         /\ w.main_pid = u.main_pid /\ w.restarts = n /\ w.online = u.online
         /\ w.watchdogs = u.watchdogs
<1> DEFINE w == [u EXCEPT !.restarts = n]
<1>1. w \in Units
  BY TypedTimers DEF Base
<1>2. /\ w.state = u.state /\ w.target = u.target /\ w.pids = u.pids /\ w.alive = u.alive
      /\ w.main_pid = u.main_pid /\ w.restarts = n /\ w.online = u.online
      /\ w.watchdogs = u.watchdogs /\ w.own = u.own
  BY DEF Base, Units
<1> HIDE DEF w
<1>3. Base(w)
  BY <1>1, <1>2 DEF Base
<1> QED BY <1>2, <1>3 DEF w

\* unit_retry_start arms the one restart timer, purged or not.
LEMMA RetryGood ==
  ASSUME NEW u, Base(u), Calm(u), NEW w \in unit_retry_start(u)
  PROVE  Good(w) /\ (Own(u) => Own(w))
<1> DEFINE t == [u EXCEPT !.target = "None"]
<1>1. /\ Base(t) /\ t.target = "None" /\ t.pids = u.pids /\ t.main_pid = u.main_pid
      /\ t.restarts = u.restarts
  <2>1. "None" \in Targets
    BY DEF Targets, Resting
  <2> QED BY <2>1, TargetBase
<1>2. PICK v \in unit_purge_and_target(t) : w = [v EXCEPT !.restarts = @ + 1]
  BY DEF unit_retry_start
<1> HIDE DEF t
<1>3. Good(v) /\ (Own(u) => Own(v))
  BY <1>1, <1>2, PurgeGood DEF Calm, Own
<1>4. /\ Base(w) /\ w.state = v.state /\ w.target = v.target /\ w.pids = v.pids
      /\ w.main_pid = v.main_pid /\ w.restarts = v.restarts + 1 /\ w.online = v.online
      /\ w.watchdogs = v.watchdogs
  <2>1. v.restarts + 1 \in Nat /\ Base(v)
    BY <1>3, Fields DEF Good, Base
  <2> QED BY <1>2, <2>1, RestartsBase
<1>5. NoStop => /\ w.state \in {"None", "STOPTERM"} /\ w.target = "None" /\ w.restarts = 1
  BY <1>1, <1>2, <1>4, PurgeToNone DEF Calm
<1> QED BY <1>3, <1>4, <1>5 DEF Good, RestartOK, Hangs, Own

\* One more failure
LEMMA FailuresBase ==
  ASSUME NEW u, Base(u), NEW m \in Method
  PROVE  LET w == [u EXCEPT !.fail_cnt[m] = @ + 1] IN
         Base(w) /\ Same(u, w) /\ w.watchdogs = u.watchdogs
<1> DEFINE w == [u EXCEPT !.fail_cnt[m] = @ + 1]
<1>1. w \in Units
  BY TypedFailures DEF Base
<1>2. Same(u, w) /\ w.watchdogs = u.watchdogs /\ w.own = u.own
  BY DEF Base, Units, Same
<1> HIDE DEF w
<1>3. Base(w)
  BY <1>1, <1>2 DEF Base, Same
<1> QED BY <1>2, <1>3 DEF w

\* A method that failed is tried again or given up.
LEMMA FailedGood ==
  ASSUME NEW u, Base(u), Calm(u), u.state \in Starting, NEW w \in Failed(u)
  PROVE  Good(w) /\ (Own(u) => Own(w))
<1> DEFINE v == [u EXCEPT !.fail_cnt[u.state] = @ + 1]
<1>1. w \in ToMaintenance(v) \/ w \in unit_retry_start(v)
  BY DEF Failed
<1>2. u.state \in Method
  BY DEF Starting, Method
<1>3. Base(v) /\ Same(u, v)
  BY <1>2, FailuresBase
<1> HIDE DEF v
<1> QED BY <1>1, <1>3, ToMaintenanceGood, RetryGood DEF Calm, Same, Own

-----------------------------------------------------------------------------
(* The handlers. *)

\* No restart timer is armed while the unit is being started.
LEMMA CalmWhileStarting ==
  ASSUME NEW u, Good(u), u.state \in Starting
  PROVE  Calm(u)
BY Fields DEF Good, Base, Calm, Starting

\* unit_ptevent of a unit that is being stopped: it comes to rest only with its
\* last process.
LEMMA ExitWhileStoppingGood ==
  ASSUME NEW u, Base(u), RestartOK(u), u.state \in {"STOP", "STOPTERM"},
         NoStop => u.state # "STOP", Hangs(u) => u.watchdogs > 0,
         NEW w \in ExitWhileStopping(u)
  PROVE  Good(w)
<1>1. Base(Del(u)) /\ Same(u, Del(u)) /\ RestartOK(Del(u))
  BY DelBase DEF Same, RestartOK
<1>2. CASE u.pids = {} /\ u.state = "STOP"
  <2>1. w \in unit_enter_stopterm(Del(u))
    BY <1>2 DEF ExitWhileStopping
  <2> QED BY <1>1, <2>1, StoptermGood
<1>3. CASE u.pids = {} /\ u.state = "STOPTERM"
  <2>1. w \in unit_enter_stopkill(Del(u))
    BY <1>3 DEF ExitWhileStopping
  <2>2. w \in unit_enter_state(Del(u)) /\ Del(u).pids = {}
    BY <1>1, <1>3, <2>1 DEF unit_enter_stopkill, Same
  <2> QED BY <1>1, <2>2, EnterStateGood
<1>4. CASE u.pids # {}
  <2>1. w = u
    BY <1>4 DEF ExitWhileStopping
  <2> QED BY <2>1 DEF Good, RestartOK, States, Starting, Resting
<1> QED BY <1>2, <1>3, <1>4

\* unit_ptevent forgets the main process that has exited.
LEMMA MainExitGood ==
  ASSUME NEW u, Base(u), Calm(u), u.state \in Starting, NEW abnormal \in BOOLEAN,
         NEW w \in MainExit(u, abnormal)
  PROVE  Good(w) /\ Own(w)
<1> DEFINE x == [u EXCEPT !.main_pid = NoPid]
           v == Del(x)
           a == [v EXCEPT !.target = "START"]
           b == [v EXCEPT !.target = "Offline"]
<1>1. \/ w \in Failed(v)
      \/ w \in unit_purge_and_target(a)
      \/ w \in unit_enter_stop(b)
      \/ w = v
  BY DEF MainExit, Starting
<1>2. /\ Base(x) /\ x.main_pid = NoPid /\ x.state = u.state /\ x.restarts = u.restarts
  <2>1. x.main_pid = NoPid
    BY DEF Base, Units
  <2> QED BY <2>1, NoProcessBase
<1> HIDE DEF x
<1>3. /\ Base(v) /\ v.main_pid = NoPid /\ v.state = u.state /\ v.restarts = u.restarts
  BY <1>2, DelBase DEF Same
<1> HIDE DEF v
<1>4. Own(v) /\ Calm(v)
  BY <1>3 DEF Own, Calm
<1>5. CASE w \in Failed(v)
  BY <1>3, <1>4, <1>5, FailedGood
<1>6. "START" \in Targets /\ "Offline" \in Targets
  BY DEF Targets, Resting
<1>7. CASE w \in unit_purge_and_target(a)
  <2>1. Base(a) /\ Own(a) /\ Calm(a)
    BY <1>3, <1>4, <1>6, TargetBase DEF Own, Calm
  <2> HIDE DEF a
  <2> QED BY <1>7, <2>1, PurgeGood
<1>8. CASE w \in unit_enter_stop(b)
  <2>1. Base(b) /\ Own(b) /\ Calm(b)
    BY <1>3, <1>4, <1>6, TargetBase DEF Own, Calm
  <2> HIDE DEF b
  <2> QED BY <1>8, <2>1, StopGood
<1>9. CASE w = v
  <2>1. ~Hangs(v)
    <3>1. v.main_pid \notin v.pids
      BY <1>3, Fields, UnitAssumption DEF Base
    <3> QED BY <1>3, <3>1 DEF Hangs, Starting
  <2> QED BY <1>3, <1>4, <1>9, <2>1 DEF Good, RestartOK, Calm, States, Starting, Resting
<1> QED BY <1>1, <1>5, <1>7, <1>8, <1>9

\* unit_ptevent, the exit of the poststart method
LEMMA SecondaryExitGood ==
  ASSUME NEW u, Base(u), Own(u), Calm(u), u.state = "POSTSTART", NEW abnormal \in BOOLEAN,
         NEW w \in SecondaryExit(u, abnormal)
  PROVE  Good(w) /\ Own(w)
<1> DEFINE x == [u EXCEPT !.secondary_pid = NoPid]
           v == Del(x)
<1>1. w \in Failed(v) \/ w \in unit_enter_online(v)
  BY DEF SecondaryExit
<1>2. Base(x) /\ Same(u, x)
  BY NoProcessBase
<1> HIDE DEF x
<1>3. Base(v) /\ Same(x, v)
  BY <1>2, DelBase
<1> HIDE DEF v
<1>4. Own(v) /\ Calm(v) /\ v.state = "POSTSTART"
  BY <1>2, <1>3 DEF Same, Own, Calm
<1> QED BY <1>1, <1>3, <1>4, FailedGood, OnlineGood DEF Starting

(* The exit of a tracked process p of the unit g.  The unit that the handler is
   given, u, differs from g in what is alive; a start or a stop that goes on
   keeps main_pid right. *)
LEMMA ExitEventGood ==
  ASSUME NEW g, Good(g), NEW p \in g.pids, NEW S \in SUBSET Pid,
         Threads = {} => S = g.alive \ {p},
         NEW u, u = [g EXCEPT !.alive = S],
         NEW abnormal \in BOOLEAN, NEW w \in ExitEvent(u, p, abnormal)
  PROVE  Good(w) /\ (g.state \in Starting => Own(w))
<1> DEFINE v == [u EXCEPT !.pids = @ \ {p}]
<1>1. u \in Units
  BY TypedPids DEF Good, Base
<1>2. v \in Units
  <2>1. u.pids \ {p} \in SUBSET Pid
    BY <1>1, Fields
  <2> QED BY <1>1, <2>1, TypedPids, Zenon
<1>3. /\ u.state = g.state /\ u.main_pid = g.main_pid
      /\ u.pids = g.pids /\ u.target = g.target /\ u.restarts = g.restarts
      /\ u.online = g.online /\ u.watchdogs = g.watchdogs /\ u.own = g.own /\ u.alive = S
  BY DEF Good, Base, Units
<1>4. /\ v.state = g.state /\ v.main_pid = g.main_pid
      /\ v.pids = g.pids \ {p} /\ v.target = g.target /\ v.restarts = g.restarts
      /\ v.online = g.online /\ v.watchdogs = g.watchdogs /\ v.own = g.own /\ v.alive = S
  BY <1>1, <1>3 DEF Units
<1>5. \/ unit_stopping(u) /\ w \in ExitWhileStopping(v)
      \/ ~unit_stopping(u) /\ p = u.main_pid /\ w \in MainExit(v, abnormal)
      \/ /\ ~unit_stopping(u) /\ p # u.main_pid /\ u.state = "POSTSTART"
         /\ w \in SecondaryExit(v, abnormal)
      \/ ~unit_stopping(u) /\ p # u.main_pid /\ w = v
  BY DEF ExitEvent
<1> HIDE DEF v
<1>6. Base(v)
  BY <1>2, <1>4 DEF Good, Base
<1>7. g.state \notin Resting
  BY DEF Good
<1>8. CASE unit_stopping(u) /\ w \in ExitWhileStopping(v)
  <2>1. v.state \in {"STOP", "STOPTERM"} /\ g.state \notin Starting
    BY <1>3, <1>4, <1>8 DEF Good, unit_stopping, States, Starting, Resting
  <2>2. RestartOK(v) /\ (Hangs(v) => v.watchdogs > 0) /\ (NoStop => v.state # "STOP")
    BY <1>4 DEF Good, RestartOK, Hangs
  <2> QED BY <1>6, <1>8, <2>1, <2>2, ExitWhileStoppingGood
<1>9. CASE ~unit_stopping(u)
  <2>1. g.state \in Starting
    BY <1>3, <1>7, <1>9 DEF Good, unit_stopping, States
  <2>2. Calm(v) /\ v.state \in Starting
    BY <1>4, <2>1, CalmWhileStarting DEF Calm
  <2>3. CASE w \in MainExit(v, abnormal)
    BY <1>6, <2>2, <2>3, MainExitGood
  <2>4. CASE p # u.main_pid
    <3>1. Own(v)
      BY <1>3, <1>4, <2>1, <2>4 DEF Good, Own
    <3>2. CASE u.state = "POSTSTART" /\ w \in SecondaryExit(v, abnormal)
      BY <1>3, <1>4, <1>6, <2>2, <3>1, <3>2, SecondaryExitGood
    <3>3. CASE w = v
      BY <1>4, <1>6, <2>2, <3>1, <3>3
         DEF Good, RestartOK, Calm, Hangs, Own, States, Starting, Resting
    <3> QED BY <1>5, <1>9, <2>3, <3>2, <3>3
  <2> QED BY <1>5, <1>9, <2>3, <2>4
<1> QED BY <1>5, <1>8, <1>9

\* unit_timer_event, whichever timer it was: a method that is left to hang
\* goes on to a state that has a watchdog of its own or needs none.
LEMMA TimerEventGood ==
  ASSUME NEW u, Good(u), u.watchdogs > 0, NEW w \in unit_timer_event(u)
  PROVE  /\ Good(w) /\ (u.state \in Starting => Own(w))
         /\ u.state \in Resting => w.state = u.state
<1> DEFINE v == [u EXCEPT !.watchdogs = @ - 1, !.own = FALSE]
           x == [v EXCEPT !.fail_cnt["PRESTART"] = @ + 1]
           t == [x EXCEPT !.target = "PRESTART"]
<1>1. \/ u.state = "STOP" /\ w \in unit_enter_stopterm(v)
      \/ u.state \in {"PRESTART", "START"} /\ w \in ToMaintenance(x)
      \/ u.state \in {"PRESTART", "START"} /\ w \in unit_purge_and_target(t)
      \/ u.state \notin {"STOP", "PRESTART", "START"} /\ w = v
  BY DEF unit_timer_event, Good, States, Starting, Resting
<1>2. v \in Units
  <2>1. u \in Units /\ u.watchdogs - 1 \in Nat /\ FALSE \in BOOLEAN
    BY Fields DEF Good, Base
  <2> QED BY <2>1, TypedTimers, Zenon
<1>3. Same(u, v) /\ v.own = FALSE
  BY DEF Good, Base, Units, Same
<1> HIDE DEF v
<1>4. Base(v)
  BY <1>2, <1>3 DEF Good, Base, Same
<1>5. CASE u.state = "STOP" /\ w \in unit_enter_stopterm(v)
  BY <1>3, <1>4, <1>5, StoptermGood DEF Good, RestartOK, Same, Starting, Resting
<1>6. "PRESTART" \in Method /\ "PRESTART" \in Targets
  BY DEF Method, Targets
<1>7. Base(x) /\ Same(v, x)
  BY <1>4, <1>6, FailuresBase
<1> HIDE DEF x
<1>8. CASE u.state \in {"PRESTART", "START"}
  <2>1. Own(u) /\ Calm(u)
    BY <1>8, CalmWhileStarting DEF Good, Starting
  <2>2. CASE w \in ToMaintenance(x)
    BY <1>3, <1>7, <1>8, <2>1, <2>2, ToMaintenanceGood DEF Same, Own, Calm, Resting
  <2>3. CASE w \in unit_purge_and_target(t)
    <3>1. Base(t) /\ Own(t) /\ Calm(t)
      BY <1>3, <1>6, <1>7, <2>1, TargetBase DEF Same, Own, Calm
    <3> HIDE DEF t
    <3> QED BY <1>8, <2>3, <3>1, PurgeGood DEF Resting
  <2> QED BY <1>1, <1>8, <2>2, <2>3
<1>9. CASE u.state \notin {"STOP", "PRESTART", "START"} /\ w = v
  BY <1>3, <1>4, <1>9 DEF Good, RestartOK, Hangs, Own, Same
<1> QED BY <1>1, <1>5, <1>8, <1>9

\* unit_restart_begin_cb uses the one restart timer up.
LEMMA RestartGood ==
  ASSUME NEW u, Good(u), u.restarts > 0, NEW w \in unit_restart_begin_cb(u)
  PROVE  Good(w) /\ Own(w)
<1> DEFINE v == [u EXCEPT !.restarts = @ - 1]
<1>1. u.restarts - 1 \in Nat /\ Base(u)
  BY Fields DEF Good, Base
<1>2. Base(v) /\ v.restarts = u.restarts - 1
  BY <1>1, RestartsBase
<1>3. w \in unit_enter_prestart(v)
  BY DEF unit_restart_begin_cb
<1> HIDE DEF v
<1>4. Calm(v)
  BY <1>2 DEF Good, RestartOK, Calm
<1> QED BY <1>2, <1>3, <1>4, PrestartGood

\* unit_notify_ready acts only on a unit in START.
LEMMA NotifyReadyGood ==
  ASSUME NEW u, Good(u), NEW w \in unit_notify_ready(u)
  PROVE  /\ Good(w) /\ (u.state \in Starting => Own(w))
         /\ u.state \in Resting => w.state = u.state
<1>1. CASE u.state = "START"
  <2>1. Base(Del(u)) /\ Same(u, Del(u))
    BY DelBase DEF Good
  <2>2. Own(u) /\ Calm(u)
    BY <1>1, CalmWhileStarting DEF Good, Starting
  <2>3. w \in unit_enter_poststart(Del(u))
    BY <1>1 DEF unit_notify_ready
  <2> QED BY <1>1, <2>1, <2>2, <2>3, PoststartGood DEF Same, Own, Calm, Resting
<1>2. CASE u.state # "START"
  BY <1>2 DEF unit_notify_ready, Good
<1> QED BY <1>1, <1>2

\* repo_retry_cb is about the manager: it leaves the unit as it is.
LEMMA RepoRetryGood ==
  ASSUME NEW u, Good(u), u.repo_timers > 0, NEW w \in repo_retry_cb(u)
  PROVE  Good(w) /\ Same(u, w)
<1> DEFINE v == [u EXCEPT !.repo_timers = @ - 1]
           d == [v EXCEPT !.repo_retry_delay = 2 * @]
<1>1. w \in {[v EXCEPT !.repo_up = TRUE], d, [d EXCEPT !.repo_timers = @ + 1]}
  BY DEF repo_retry_cb
<1>2. v \in Units
  <2>1. u \in Units /\ u.repo_timers - 1 \in Nat
    BY Fields DEF Good, Base
  <2> QED BY <2>1, TypedRepo, Zenon
<1>3. Same(u, v) /\ v.watchdogs = u.watchdogs /\ v.own = u.own
  BY DEF Good, Base, Units, Same
<1> HIDE DEF v
<1>4. d \in Units
  <2>1. 2 * v.repo_retry_delay \in Nat
    BY <1>2, Fields
  <2> QED BY <1>2, <2>1, TypedRepo, Zenon
<1>5. Same(v, d) /\ d.watchdogs = v.watchdogs /\ d.own = v.own
  BY <1>2 DEF Units, Same
<1> HIDE DEF d
<1>6. w \in Units /\ Same(v, w) /\ w.watchdogs = v.watchdogs /\ w.own = v.own
  <2>1. CASE w = [v EXCEPT !.repo_up = TRUE]
    <3>1. w \in Units
      BY <1>2, <2>1, TypedRepo, Zenon
    <3> QED BY <1>2, <2>1, <3>1 DEF Units, Same
  <2>2. CASE w = d
    BY <1>4, <1>5, <2>2
  <2>3. CASE w = [d EXCEPT !.repo_timers = @ + 1]
    <3>1. d.repo_timers + 1 \in Nat
      BY <1>4, Fields
    <3>2. w \in Units
      BY <1>4, <2>3, <3>1, TypedRepo, Zenon
    <3>3. Same(d, w) /\ w.watchdogs = d.watchdogs /\ w.own = d.own
      BY <1>4, <2>3 DEF Units, Same
    <3> QED BY <1>5, <3>2, <3>3 DEF Same
  <2> QED BY <1>1, <2>1, <2>2, <2>3
<1>7. Same(u, w) /\ w.watchdogs = u.watchdogs /\ w.own = u.own
  BY <1>3, <1>6 DEF Same
<1>8. Base(w)
  BY <1>6, <1>7 DEF Good, Base, Same
<1> QED BY <1>7, <1>8 DEF Good, RestartOK, Hangs, Own, Same

-----------------------------------------------------------------------------
(* The steps. *)

\* A unit that goes to STOPTERM signals a process of its own, or none.
Signals(u, w) ==
  NoStop /\ w.state = "STOPTERM" /\ u.state # "STOPTERM" => Own(w)

\* Enough for Signals: the handlers keep main_pid right while the unit is
\* started, and leave a unit at rest where it is.
LEMMA SignalsFromStart ==
  ASSUME NEW u, NEW w, Good(u), u.state \in Starting => Own(w),
         u.state \in Resting => w.state = u.state \/ Own(w)
  PROVE  Signals(u, w)
BY DEF Signals, Good, States, Starting, Resting

\* A child of a tracked process is tracked: nothing is added to a unit at rest.
LEMMA ChildStep ==
  ASSUME Good(unit), NEW parent \in Pid, NEW p \in Pid, Child(parent, p)
  PROVE  Good(unit') /\ Signals(unit, unit')
<1> DEFINE S == IF parent \in unit.pids THEN unit.pids \cup {p} ELSE unit.pids
           T == unit.alive \cup {p}
<1>1. unit' = [unit EXCEPT !.alive = T, !.pids = S]
  BY DEF Child, Handle
<1>2. unit \in Units /\ S \in SUBSET Pid /\ T \in SUBSET Pid
  BY Fields DEF Good, Base
<1>3. Threads = {} => T = S
  BY DEF Child, Good, Base
<1>4. unit.pids = {} => S = {}
  OBVIOUS
<1>5. unit.main_pid \in unit.pids \cup {NoPid} =>
        unit.main_pid \in S \cup {NoPid} /\ (unit.main_pid \in S => unit.main_pid \in unit.pids)
  BY UnitAssumption
<1> HIDE DEF S, T
<1>6. unit' \in Units
  BY <1>1, <1>2, TypedPids
<1>7. /\ unit'.state = unit.state /\ unit'.main_pid = unit.main_pid
      /\ unit'.pids = S /\ unit'.alive = T /\ unit'.target = unit.target
      /\ unit'.restarts = unit.restarts /\ unit'.online = unit.online
      /\ unit'.watchdogs = unit.watchdogs /\ unit'.own = unit.own
  BY <1>1, <1>2 DEF Units
<1>8. Base(unit')
  BY <1>3, <1>6, <1>7 DEF Good, Base
<1>9. Good(unit')
  BY <1>4, <1>5, <1>7, <1>8 DEF Good, RestartOK, Hangs, Own, Starting
<1> QED BY <1>7, <1>9 DEF Signals

\* The exit of a process, tracked or not
LEMMA ExitStep ==
  ASSUME Good(unit), NEW p \in Pid, NEW abnormal \in BOOLEAN, Exit(p, abnormal)
  PROVE  Good(unit') /\ Signals(unit, unit')
<1> DEFINE S == unit.alive \ {p}
           u == [unit EXCEPT !.alive = S]
<1>1. unit' \in (IF p \in unit.pids THEN ExitEvent(u, p, abnormal) ELSE {u})
  BY DEF Exit, Handle
<1>2. unit \in Units /\ S \in SUBSET Pid
  BY Fields DEF Good, Base
<1>3. CASE p \in unit.pids
  <2>1. Good(unit') /\ (unit.state \in Starting => Own(unit'))
    BY <1>1, <1>2, <1>3, ExitEventGood
  <2>2. unit.state \notin Resting
    BY <1>3 DEF Good
  <2> QED BY <2>1, <2>2, SignalsFromStart
<1>4. CASE p \notin unit.pids
  <2>1. unit' = u
    BY <1>1, <1>4
  <2>2. unit' \in Units
    BY <1>2, <2>1, TypedPids
  <2>3. Same([unit EXCEPT !.alive = S], unit') /\ unit'.alive = S
    BY <1>2, <2>1 DEF Units, Same
  <2>4. /\ unit'.state = unit.state /\ unit'.main_pid = unit.main_pid
        /\ unit'.pids = unit.pids /\ unit'.target = unit.target
        /\ unit'.restarts = unit.restarts /\ unit'.online = unit.online
        /\ unit'.watchdogs = unit.watchdogs /\ unit'.own = unit.own
    BY <1>2, <2>1 DEF Units
  <2>5. Base(unit')
    BY <1>4, <2>2, <2>3, <2>4 DEF Exit, Good, Base
  <2> QED BY <2>4, <2>5 DEF Good, RestartOK, Hangs, Own, Signals
<1> QED BY <1>3, <1>4

\* The exit of a thread, taken for that of its process: the process stays alive
\* and is no longer tracked.
LEMMA ThreadExitStep ==
  ASSUME Good(unit), NEW p \in Pid, NEW abnormal \in BOOLEAN, ThreadExit(p, abnormal)
  PROVE  Good(unit') /\ Signals(unit, unit')
<1>1. /\ p \in unit.pids /\ Threads # {} /\ unit' \in ExitEvent(unit, p, abnormal)
  BY DEF ThreadExit, Handle
<1>2. unit \in Units /\ unit.alive \in SUBSET Pid
  BY Fields DEF Good, Base
<1>3. unit = [unit EXCEPT !.alive = unit.alive]
  BY <1>2 DEF Units
<1>4. Good(unit') /\ (unit.state \in Starting => Own(unit'))
  BY <1>1, <1>2, <1>3, ExitEventGood
<1>5. unit.state \notin Resting
  BY <1>1 DEF Good
<1> QED BY <1>4, <1>5, SignalsFromStart

(* Every step of the specification keeps the invariant. *)
LEMMA StepGood ==
  ASSUME Good(unit), Next
  PROVE  Good(unit') /\ Signals(unit, unit')
<1>1. ASSUME NEW parent \in Pid, NEW p \in Pid, Child(parent, p)
      PROVE  Good(unit') /\ Signals(unit, unit')
  BY <1>1, ChildStep
<1>2. ASSUME NEW p \in Pid, NEW abnormal \in BOOLEAN, Exit(p, abnormal) \/ ThreadExit(p, abnormal)
      PROVE  Good(unit') /\ Signals(unit, unit')
  BY <1>2, ExitStep, ThreadExitStep
<1>3. CASE Watchdog
  <2>1. unit.watchdogs > 0 /\ unit' \in unit_timer_event(unit)
    BY <1>3 DEF Watchdog, Handle
  <2> QED BY <2>1, TimerEventGood, SignalsFromStart
<1>4. CASE Restart
  <2>1. unit.restarts > 0 /\ unit' \in unit_restart_begin_cb(unit)
    BY <1>4 DEF Restart, Handle
  <2> QED BY <2>1, RestartGood DEF Signals
<1>5. CASE RepoRetry
  <2>1. unit.repo_timers > 0 /\ unit' \in repo_retry_cb(unit)
    BY <1>5 DEF RepoRetry, Handle
  <2> QED BY <2>1, RepoRetryGood DEF Signals, Same
<1>6. ASSUME NEW p \in Pid, SendReady(p)
      PROVE  Good(unit') /\ Signals(unit, unit')
  <2>1. unit' = unit
    BY <1>6 DEF SendReady
  <2> QED BY <2>1 DEF Signals
<1>7. ASSUME NEW p \in Pid, Ready(p)
      PROVE  Good(unit') /\ Signals(unit, unit')
  <2>1. unit' \in unit_notify_ready(unit) \/ unit' = unit
    BY <1>7 DEF Ready, Handle
  <2>2. CASE unit' \in unit_notify_ready(unit)
    BY <2>2, NotifyReadyGood, SignalsFromStart
  <2>3. CASE unit' = unit
    BY <2>3 DEF Signals
  <2> QED BY <2>1, <2>2, <2>3
<1> QED BY <1>1, <1>2, <1>3, <1>4, <1>5, <1>6, <1>7 DEF Next, Exits

\* The unit begins by entering prestart.
LEMMA InitGood ==
  ASSUME Init
  PROVE  Good(unit)
<1> DEFINE u == [state |-> "Offline", target |-> "None", pids |-> {}, alive |-> {},
        main_pid |-> NoPid, secondary_pid |-> NoPid, fail_cnt |-> [m \in Method |-> 0],
        watchdogs |-> 0, own |-> FALSE, restarts |-> 0, looping |-> FALSE, online |-> FALSE,
        repo_up |-> FALSE, repo_retry_delay |-> 0, repo_timers |-> 0]
<1>1. unit \in unit_enter_prestart(u)
  BY DEF Init
<1>2. "Offline" \in UnitState /\ "None" \in UnitState /\ [m \in Method |-> 0] \in [Method -> Nat]
  BY DEF UnitState
<1>3. u \in Units
  BY <1>2 DEF Units
<1>4. Base(u) /\ Calm(u)
  BY <1>3 DEF Base, Calm, Targets, Resting
<1> HIDE DEF u
<1> QED BY <1>1, <1>4, PrestartGood

(* The inductive invariant of the specification. *)
Inv ==
  /\ Good(unit)
  /\ inbox \subseteq Pid
  /\ sent \in 0 .. MaxReady
  /\ crashed \in BOOLEAN

\* The invariant holds of every behaviour.
LEMMA InvHolds == Spec => []Inv
<1>1. Init => Inv
  <2> SUFFICES ASSUME Init PROVE Inv
    OBVIOUS
  <2>1. inbox = {} /\ sent = 0 /\ crashed = FALSE
    BY DEF Init
  <2>2. MaxReady \in Nat
    BY UnitAssumption
  <2>3. inbox \subseteq Pid /\ sent \in 0 .. MaxReady
    BY <2>1, <2>2
  <2>4. crashed \in BOOLEAN
    BY <2>1, Zenon
  <2>5. Good(unit)
    BY InitGood
  <2> QED BY <2>3, <2>4, <2>5 DEF Inv
<1>2. Inv /\ [Next]_vars => Inv'
  <2> SUFFICES ASSUME Inv, [Next]_vars PROVE Inv'
    OBVIOUS
  <2>1. CASE UNCHANGED vars
    BY <2>1 DEF Inv, vars
  <2>2. CASE Next
    <3>1. Good(unit') /\ Good(unit)
      BY <2>2, StepGood DEF Inv
    <3>2. unit'.looping \in BOOLEAN
      BY <3>1, Fields DEF Good, Base
    <3>3. crashed' \in BOOLEAN
      BY <2>2, <3>2 DEF Inv, Next, Exits, Child, Exit, ThreadExit, Watchdog, Restart, RepoRetry,
                        SendReady, Ready, Handle
    <3>4. \/ inbox' = inbox /\ sent' = sent
          \/ \E p \in Pid : inbox' = inbox \cup {p} /\ sent' = sent + 1 /\ sent < MaxReady
          \/ \E p \in Pid : inbox' = inbox \ {p} /\ sent' = sent
      BY <2>2 DEF Next, Exits, Child, Exit, ThreadExit, Watchdog, Restart, RepoRetry,
                  SendReady, Ready
    <3>5. inbox' \subseteq Pid /\ sent' \in 0 .. MaxReady
      <4>1. MaxReady \in Nat /\ sent \in 0 .. MaxReady /\ inbox \subseteq Pid
        BY UnitAssumption DEF Inv
      <4> QED BY <3>4, <4>1
    <3> QED BY <3>1, <3>3, <3>5 DEF Inv
  <2> QED BY <2>1, <2>2
<1> QED BY <1>1, <1>2, PTL DEF Spec

-----------------------------------------------------------------------------
(* The theorems. *)

(* A unit and the manager's part of it keep their types: no counter of timers
   goes below zero, whichever timer fires or is deleted, and a pid is that of a
   process or 0. *)
THEOREM UnitTypes == Spec => []TypeOK
<1>1. Inv => TypeOK
  BY DEF Inv, Good, Base, TypeOK
<1> QED BY <1>1, InvHolds, PTL

(* unit_purge_and_target and the stop states are passed only when no process is
   tracked any more, for every type of unit and every set of methods. *)
THEOREM RestIsPurged == Spec => []Purged
<1>1. Inv => Purged
  BY DEF Inv, Good, Purged, AtRest, Resting
<1> QED BY <1>1, InvHolds, PTL

(* A unit none of whose processes has a second thread has no process at all
   when it is at rest: none escapes the supervisor, however the processes fork,
   exit and hang. *)
THEOREM RestIsClean ==
  ASSUME Threads = {}
  PROVE  Spec => []CleanAtRest
<1>1. Inv => CleanAtRest
  BY DEF Inv, Good, Base, CleanAtRest, AtRest, Resting
<1> QED BY <1>1, InvHolds, PTL

(* A prestart, start or stop method that hangs has an armed watchdog, although
   timers are armed over others and unit_timer_event forgets which one is the
   unit's. *)
THEOREM MethodsAreWatched == Spec => []Watched
<1>1. Inv => Watched
  BY DEF Inv, Good, Hangs, Watched
<1> QED BY <1>1, InvHolds, PTL

(* A unit without a stop method, as restartd creates them all, has at most one
   restart timer, and only on its way to None or in it. *)
THEOREM RestartIsOne ==
  ASSUME "STOP" \notin Methods
  PROVE  Spec => []OneRestart
<1>1. Inv => OneRestart
  BY DEF Inv, Good, RestartOK, NoStop, OneRestart
<1> QED BY <1>1, InvHolds, PTL

(* Such a unit, entering STOPTERM, signals a main process that it still
   tracks, or none: never one that has exited and whose pid may be another's. *)
THEOREM SignalsAreOwn ==
  ASSUME "STOP" \notin Methods
  PROVE  Spec => SignalsOwn
<1>1. Inv /\ [Next]_vars =>
        [(unit'.state = "STOPTERM" /\ unit.state # "STOPTERM")
           => unit'.main_pid \in unit'.pids \cup {NoPid}]_vars
  BY StepGood DEF Inv, Signals, NoStop, Own, vars
<1> QED BY <1>1, InvHolds, PTL DEF Spec, SignalsOwn

=============================================================================
