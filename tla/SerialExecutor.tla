---------------------------- MODULE SerialExecutor ----------------------------
(***************************************************************************)
(* What the work queue promises: jobs are issued with increasing tickets   *)
(* and performed one at a time in ticket order.                            *)
(***************************************************************************)
EXTENDS Integers

VARIABLES
  issued,    \* number of jobs handed in
  begun,     \* the jobs whose work has begun
  active     \* the jobs being performed

serialVars == <<issued, begun, active>>

SerialInit == issued = 0 /\ begun = {} /\ active = {}

(* A job handed to a busy executor waits. *)
Submit ==
  /\ issued' = issued + 1
  /\ UNCHANGED <<begun, active>>

(* The executor takes up the oldest job that was not begun yet. *)
Begin(t) ==
  /\ active = {}
  /\ t \notin begun
  /\ 1 .. (t - 1) \subseteq begun
  /\ begun' = begun \cup {t}
  /\ active' = {t}
  /\ UNCHANGED issued

(* A job handed to an executor with nothing to do is begun at once. *)
SubmitAndBegin ==
  /\ active = {}
  /\ 1 .. issued \subseteq begun
  /\ issued' = issued + 1
  /\ begun' = begun \cup {issued + 1}
  /\ active' = {issued + 1}

End ==
  /\ active # {}
  /\ active' = {}
  /\ UNCHANGED <<issued, begun>>

SerialNext == Submit \/ (\E t \in 1 .. issued : Begin(t)) \/ SubmitAndBegin \/ End

SerialSpec == SerialInit /\ [][SerialNext]_serialVars
=============================================================================
