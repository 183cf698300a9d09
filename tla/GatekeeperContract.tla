-------------------------- MODULE GatekeeperContract --------------------------
(***************************************************************************)
(* What the Gatekeeper promises about the plans it lets run, without the   *)
(* task table, statuses, clocks or messages it uses to keep the promise:   *)
(*   - a critical plan runs only when the owner grants the hold on that    *)
(*     very plan, and one hold is granted at most once;                    *)
(*   - any other plan runs only under a task id whose delegation window    *)
(*     is over.                                                            *)
(* A hold may be given up at any time without running its plan.            *)
(***************************************************************************)
EXTENDS Naturals

CONSTANTS
  TaskId,       \* identifiers of tasks
  Plan,         \* plans that can be submitted
  CriticalPlan  \* those that need the owner

VARIABLES
  held,     \* [TaskId -> SUBSET CriticalPlan]: the plan that awaits the owner
  ripe,     \* the ids whose delegation window is over
  running   \* [TaskId -> [Plan -> Nat]]: executions in flight

vars == <<held, ripe, running>>

Init ==
  /\ held = [t \in TaskId |-> {}]
  /\ ripe = {}
  /\ running = [t \in TaskId |-> [p \in Plan |-> 0]]

Started(t, p) == [running EXCEPT ![t][p] = @ + 1]

-----------------------------------------------------------------------------

\* A critical plan is submitted: it replaces whatever was held under the id and
\* its window starts anew.
Hold(t, p) ==
  /\ held' = [held EXCEPT ![t] = {p}]
  /\ ripe' = ripe \ {t}
  /\ UNCHANGED running

\* The owner grants the held plan, which runs once.
Grant(t) ==
  \E p \in held[t] :
    /\ running' = Started(t, p)
    /\ held' = [held EXCEPT ![t] = {}]
    /\ UNCHANGED ripe

\* The hold ends and its plan does not run.
Release(t) ==
  /\ held' = [held EXCEPT ![t] = {}]
  /\ UNCHANGED <<ripe, running>>

\* Windows end.
Ripen ==
  /\ ripe' \in SUBSET TaskId
  /\ ripe \subseteq ripe'
  /\ UNCHANGED <<held, running>>

\* One plan of each of some ripe ids starts without the owner.
AutoRun ==
  \E due \in SUBSET ripe : \E chosen \in [due -> Plan \ CriticalPlan] :
    /\ running' = [t \in TaskId |->
                     IF t \in due THEN [running[t] EXCEPT ![chosen[t]] = @ + 1]
                                  ELSE running[t]]
    /\ held' = [t \in TaskId |-> IF t \in due THEN {} ELSE held[t]]
    /\ UNCHANGED ripe

\* An execution ends; recording its result may end a hold under the same id.
Finish(t, p) ==
  /\ running[t][p] > 0
  /\ running' = [running EXCEPT ![t][p] = @ - 1]
  /\ held' \in {held, [held EXCEPT ![t] = {}]}
  /\ UNCHANGED ripe

\* The daemon stops and starts again with nothing remembered.
Restart == Init'

Next ==
  \/ \E t \in TaskId, p \in CriticalPlan : Hold(t, p)
  \/ \E t \in TaskId : Grant(t) \/ Release(t)
  \/ Ripen
  \/ AutoRun
  \/ \E t \in TaskId, p \in Plan : Finish(t, p)
  \/ Restart

Spec == Init /\ [][Next]_vars
=============================================================================
