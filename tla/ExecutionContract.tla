--------------------------- MODULE ExecutionContract ---------------------------
(***************************************************************************)
(* What an execution of an approved plan promises whoever waits for it,    *)
(* without its commands, the allowlist or the locks:                       *)
(*   - it returns once, in one step, with an outcome its plan allows; this *)
(*     is the step PendingPlans makes of it;                               *)
(*   - it has a process only before it returns, one at a time, and none at *)
(*     all when the guard blocks every command of the plan.                *)
(***************************************************************************)

CONSTANTS
  Job,       \* executions
  possible,  \* for each of them, the outcomes its plan allows
  Runnable   \* those with a command the guard lets through

VARIABLES
  returned,  \* for each execution, {} or what it returned
  busy       \* the executions that have a process

vars == <<returned, busy>>

Init ==
  /\ returned = [j \in Job |-> {}]
  /\ busy = {}

StartProcess(j) ==
  /\ j \in Runnable \ busy
  /\ returned[j] = {}
  /\ busy' = busy \cup {j}
  /\ UNCHANGED returned

EndProcess(j) ==
  /\ j \in busy
  /\ busy' = busy \ {j}
  /\ UNCHANGED returned

Return(j) ==
  /\ j \notin busy
  /\ returned[j] = {}
  /\ \E o \in possible[j] : returned' = [returned EXCEPT ![j] = {o}]
  /\ UNCHANGED busy

Next == \E j \in Job : StartProcess(j) \/ EndProcess(j) \/ Return(j)

Spec == Init /\ [][Next]_vars
================================================================================
