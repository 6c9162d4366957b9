------------------------------ MODULE Lifecycle ------------------------------
(***************************************************************************)
(* What s16.graphd promises the administrator about one set of instances,  *)
(* with nothing of the dependency graph in it: an instance comes up only   *)
(* while it is enabled, it is put to rest as disabled only while it is     *)
(* not, and an instance that has been disabled goes down.  Graph is shown  *)
(* to implement this specification.                                        *)
(***************************************************************************)
CONSTANT Inst

VARIABLES
  enabled,  \* instance -> the administrator wants it to run
  status    \* instance -> "up", "down" or "disabled"

vars == <<enabled, status>>

Init ==
  /\ enabled = [i \in Inst |-> TRUE]
  /\ status = [i \in Inst |-> "down"]

Enable(i) ==
  /\ enabled' = [enabled EXCEPT ![i] = TRUE]
  /\ UNCHANGED status

Disable(i) ==
  /\ enabled' = [enabled EXCEPT ![i] = FALSE]
  /\ UNCHANGED status

Set(i, s) ==
  /\ status' = [status EXCEPT ![i] = s]
  /\ UNCHANGED enabled

Up(i)   == enabled[i] /\ Set(i, "up")
Down(i) == Set(i, "down")
Park(i) == ~enabled[i] /\ status[i] # "up" /\ Set(i, "disabled")

\* The step that is owed to a disabled instance that is still up.
Stop(i) == ~enabled[i] /\ status[i] = "up" /\ Down(i)

Next == \E i \in Inst : Enable(i) \/ Disable(i) \/ Up(i) \/ Down(i) \/ Park(i)

SafeSpec == Init /\ [][Next]_vars

Spec == SafeSpec /\ \A i \in Inst : WF_vars(Stop(i))

=============================================================================
