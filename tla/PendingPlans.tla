----------------------------- MODULE PendingPlans -----------------------------
(***************************************************************************)
(* The core of the daemon: the table of tasks (event_loop.rs,              *)
(* PendingPlans), the handlers of the public_maestro channel that change   *)
(* it, the background loop that auto-approves delegable plans, and the     *)
(* executions those two spawn (main.rs).                                   *)
(*                                                                         *)
(* Every handler runs under the mutex of the table from its first read to  *)
(* its last write, the write of the reply included, so one handler is one  *)
(* action.  An execution runs outside the mutex and takes it again only to *)
(* record its outcome: spawning and recording are separate steps and       *)
(* anything may happen in between.                                         *)
(*                                                                         *)
(* Time: only "has the delegation window elapsed since created_at" is ever *)
(* asked, so a record keeps its age in ticks, which stops at Timeout.      *)
(***************************************************************************)
EXTENDS PlanPolicy

CONSTANTS
  TaskId,      \* task identifiers a client may use
  Plan,        \* plans (sequences of commands) a client may submit
  NoPlan,      \* the plan of a task that is not in the table
  Timeout,     \* the delegation window in ticks (120 s in the program)
  Vanishing,   \* ids whose clients may be gone when their replies are written
  MaxSubmits   \* bound: [TaskId -> Nat], submissions per task id

ASSUME PlanAssumption == Plan \subseteq Seq(Command)
ASSUME TimeoutAssumption == Timeout \in Nat  \* an operator may set it to 0
ASSUME AckAssumption == Vanishing \subseteq TaskId

VARIABLES
  tasks,     \* [TaskId -> TaskState], status "Absent" when there is no entry
  inflight,  \* [TaskId -> [Plan -> Nat]]: spawned executions not yet recorded
  submits,   \* history: [TaskId -> Nat], plans ingested under the id
  starts     \* history: [TaskId -> Nat], executions spawned under the id

vars == <<tasks, inflight, submits, starts>>

TaskStatus ==
  {"Pending", "DelegableAutoApproved", "HeldForManualApproval",
   "Executed", "RejectedByOwner", "ExecutionFailed"}

\* execution_result is an option: no outcome yet, or one.
TaskState ==
  [plan : Plan \cup {NoPlan}, decision : PolicyDecision,
   status : TaskStatus \cup {"Absent"}, age : 0..Timeout,
   execution_result : SUBSET Outcome]

TypeOK ==
  /\ tasks \in [TaskId -> TaskState]
  /\ inflight \in [TaskId -> [Plan -> Nat]]
  /\ submits \in [TaskId -> Nat]
  /\ starts \in [TaskId -> Nat]

-----------------------------------------------------------------------------
(* The table *)

Absent == [plan |-> NoPlan, decision |-> "Delegable", status |-> "Absent",
           age |-> 0, execution_result |-> {}]

Known(t) == tasks[t].status # "Absent"
Held(t)  == tasks[t].status = "HeldForManualApproval"

\* The record a first submission creates.
NewTask(p, s) == [plan |-> p, decision |-> decide_policy(p), status |-> s,
                  age |-> 0, execution_result |-> {}]

\* Mutants: the window closes a tick early; a tick late, which is never.
PolicyEarly(decision, elapsed) ==
  IF decision = "NonDelegable" THEN "HeldForManualApproval"
  ELSE IF elapsed + 1 >= Timeout THEN "AutoApproved" ELSE "PendingTimeout"
PolicyLate(decision, elapsed) ==
  IF decision = "NonDelegable" THEN "HeldForManualApproval"
  ELSE IF elapsed > Timeout THEN "AutoApproved" ELSE "PendingTimeout"

apply_gatekeeper_policy(decision, elapsed) ==
  CASE decision = "NonDelegable"                      -> "HeldForManualApproval"
    [] decision = "Delegable" /\ elapsed >= Timeout   -> "AutoApproved"
    [] decision = "Delegable" /\ ~(elapsed >= Timeout) -> "PendingTimeout"

\* What ingest keeps when a delegable plan arrives: the entry that is there,
\* with its old plan, decision and creation time, or else a new one.
EntryOrInsert(t, p) == IF Known(t) THEN tasks[t] ELSE NewTask(p, "Pending")

\* Mutant: check_timeouts does not look at the stored decision.
DueWhateverDecision == {t \in TaskId : /\ tasks[t].status = "Pending"
                                       /\ tasks[t].age >= Timeout}

\* Tasks that check_timeouts moves on.
Due == {t \in TaskId : /\ tasks[t].decision = "Delegable"
                       /\ tasks[t].status = "Pending"
                       /\ apply_gatekeeper_policy(tasks[t].decision, tasks[t].age)
                            = "AutoApproved"}

\* Executions are spawned: of plan chosen[t] for each t in due.
Spawn(due, chosen) ==
  /\ inflight' = [t \in TaskId |->
                    IF t \in due THEN [inflight[t] EXCEPT ![chosen[t]] = @ + 1]
                                 ELSE inflight[t]]
  /\ starts' = [t \in TaskId |-> IF t \in due THEN starts[t] + 1 ELSE starts[t]]

-----------------------------------------------------------------------------
(* Handlers of the public_maestro channel; acked: the reply was written.   *)
(* When the write fails the handler returns an error after the table has   *)
(* changed, and the plan it would have run is dropped.                     *)

\* Ingest of a delegable plan.  The status is overwritten whatever it was; when
\* the window of the entry is over, the plan in the message runs at once.
SubmitDelegable(t, p, acked) ==
  /\ decide_policy(p) = "Delegable"
  /\ submits[t] < MaxSubmits[t]
  /\ submits' = [submits EXCEPT ![t] = @ + 1]
  /\ LET entry   == EntryOrInsert(t, p)
         verdict == apply_gatekeeper_policy("Delegable", entry.age)
         status  == IF verdict = "AutoApproved" THEN "DelegableAutoApproved"
                                                ELSE "Pending"
     IN /\ tasks' = [tasks EXCEPT ![t] = [entry EXCEPT !.status = status]]
        /\ Spawn(IF verdict = "AutoApproved" /\ acked THEN {t} ELSE {},
                 [i \in {t} |-> p])

\* Ingest of a critical plan: a new record, held for the owner, replaces the
\* entry; executions in flight under the id go on.
SubmitCritical(t, p) ==
  /\ decide_policy(p) = "NonDelegable"
  /\ submits[t] < MaxSubmits[t]
  /\ submits' = [submits EXCEPT ![t] = @ + 1]
  /\ tasks' = [tasks EXCEPT ![t] = NewTask(p, "HeldForManualApproval")]
  /\ UNCHANGED <<inflight, starts>>

\* Mutant: the status of the task is not checked, so an approval counts twice.
OwnerApprovesAnyStatus(t, acked) ==
  /\ Known(t)
  /\ tasks' = [tasks EXCEPT ![t].status = "Pending"]
  /\ Spawn(IF acked THEN {t} ELSE {}, [i \in {t} |-> tasks[t].plan])
  /\ UNCHANGED submits

\* The owner's decision.  For an unknown task, or one that is not held, the
\* handler changes nothing (and still acknowledges), which is a stutter here.
OwnerApproves(t, acked) ==
  /\ Held(t)
  /\ tasks' = [tasks EXCEPT ![t].status = "Pending"]
  /\ Spawn(IF acked THEN {t} ELSE {}, [i \in {t} |-> tasks[t].plan])
  /\ UNCHANGED submits

\* Mutant: a rejected task is dropped from the table.
OwnerRejectsRemoves(t) ==
  /\ Held(t)
  /\ tasks' = [tasks EXCEPT ![t] = Absent]
  /\ UNCHANGED <<inflight, submits, starts>>

OwnerRejects(t) ==
  /\ Held(t)
  /\ tasks' = [tasks EXCEPT ![t].status = "RejectedByOwner"]
  /\ UNCHANGED <<inflight, submits, starts>>

-----------------------------------------------------------------------------
(* The background loop, the executions, time and restarts *)

\* One round of the 200 ms loop that finds work to do.
CheckTimeouts ==
  /\ Due # {}
  /\ tasks' = [t \in TaskId |->
                 IF t \in Due
                 THEN [tasks[t] EXCEPT !.status = "DelegableAutoApproved"]
                 ELSE tasks[t]]
  /\ Spawn(Due, [t \in Due |-> tasks[t].plan])
  /\ UNCHANGED submits

\* Mutants of recording: the first result is kept; only successes are recorded;
\* an outcome is recorded twice.
RecordFirstResult(t, p) ==
  /\ inflight[t][p] > 0
  /\ inflight' = [inflight EXCEPT ![t][p] = @ - 1]
  /\ \E o \in execute_plan(p) :
       tasks' = [tasks EXCEPT
                   ![t].status = IF o.success THEN "Executed" ELSE "ExecutionFailed",
                   ![t].execution_result = IF @ = {} THEN {o} ELSE @]
  /\ UNCHANGED <<submits, starts>>
RecordSuccessOnly(t, p) ==
  /\ inflight[t][p] > 0
  /\ inflight' = [inflight EXCEPT ![t][p] = @ - 1]
  /\ \E o \in execute_plan(p) :
       tasks' = IF o.success
                THEN [tasks EXCEPT ![t].status = "Executed",
                                   ![t].execution_result = {o}]
                ELSE tasks
  /\ UNCHANGED <<submits, starts>>
RecordTwice(t, p) ==
  /\ inflight[t][p] > 0
  /\ inflight' = [inflight EXCEPT ![t][p] = @ - 2]
  /\ \E o \in execute_plan(p) :
       tasks' = [tasks EXCEPT
                   ![t].status = IF o.success THEN "Executed" ELSE "ExecutionFailed",
                   ![t].execution_result = {o}]
  /\ UNCHANGED <<submits, starts>>

\* An execution ends and records its outcome, under whatever record the id has
\* by then; without one the error is dropped.
RecordExecution(t, p) ==
  /\ inflight[t][p] > 0
  /\ inflight' = [inflight EXCEPT ![t][p] = @ - 1]
  /\ \E o \in execute_plan(p) :
       tasks' = IF Known(t)
                THEN [tasks EXCEPT
                        ![t].status = IF o.success THEN "Executed"
                                                   ELSE "ExecutionFailed",
                        ![t].execution_result = {o}]
                ELSE tasks
  /\ UNCHANGED <<submits, starts>>

\* Time passes for every record.
Tick ==
  /\ \E t \in TaskId : Known(t) /\ tasks[t].age < Timeout
  /\ tasks' = [t \in TaskId |->
                 IF Known(t) /\ tasks[t].age < Timeout
                 THEN [tasks[t] EXCEPT !.age = @ + 1]
                 ELSE tasks[t]]
  /\ UNCHANGED <<inflight, submits, starts>>

\* The daemon stops and starts again: the table and the tasks that would have
\* recorded results live in its memory only.
Restart ==
  /\ tasks' = [t \in TaskId |-> Absent]
  /\ inflight' = [t \in TaskId |-> [p \in Plan |-> 0]]
  /\ UNCHANGED <<submits, starts>>

-----------------------------------------------------------------------------

Init ==
  /\ tasks = [t \in TaskId |-> Absent]
  /\ inflight = [t \in TaskId |-> [p \in Plan |-> 0]]
  /\ submits = [t \in TaskId |-> 0]
  /\ starts = [t \in TaskId |-> 0]

\* Whether a reply to a client of task t gets through.
Acked(t) == IF t \in Vanishing THEN BOOLEAN ELSE {TRUE}

Next ==
  \/ \E t \in TaskId : \E p \in Plan, acked \in Acked(t) : SubmitDelegable(t, p, acked)
  \/ \E t \in TaskId, p \in Plan : SubmitCritical(t, p)
  \/ \E t \in TaskId : \E acked \in Acked(t) : OwnerApproves(t, acked)
  \/ \E t \in TaskId : OwnerRejects(t)
  \/ CheckTimeouts
  \/ \E t \in TaskId, p \in Plan : RecordExecution(t, p)
  \/ Tick
  \/ Restart

Spec == Init /\ [][Next]_vars

\* Time passes, the background loop keeps running, and a process the executor
\* has spawned comes to an end.  Clients and the owner owe nothing.
Fairness ==
  /\ WF_vars(Tick)
  /\ WF_vars(CheckTimeouts)
  /\ \A t \in TaskId, p \in Plan : WF_vars(RecordExecution(t, p))

FairSpec == Spec /\ Fairness
-----------------------------------------------------------------------------
(* Properties *)

\* Every submission buys at most one execution: whatever the order of timeouts,
\* resubmissions, repeated owner decisions and lost replies, an id has never been
\* run more often than plans were submitted under it (check_timeouts and ingest
\* both start plans of the same record; TaskResolved may be delivered twice).
NoMoreRunsThanSubmissions == \A t \in TaskId : starts[t] <= submits[t]

\* The result a query returns agrees with the status it returns: a final status
\* comes with its outcome, whichever execution was the last to record one.
ResultMatchesStatus ==
  \A t \in TaskId :
    tasks[t].status \in {"Executed", "ExecutionFailed"} =>
      \E o \in Outcome : /\ tasks[t].execution_result = {o}
                         /\ o.success <=> tasks[t].status = "Executed"

\* An execution in flight finds its task when it ends: record_execution never
\* fails with TaskNotFound, whose error the daemon throws away.
InFlightIsKnown ==
  \A t \in TaskId, p \in Plan : inflight[t][p] > 0 => Known(t)

\* The decision stored with a record is that of the plan stored with it.
DecisionMatchesPlan ==
  \A t \in TaskId : Known(t) => /\ tasks[t].plan \in Plan
                                /\ tasks[t].decision = decide_policy(tasks[t].plan)

\* A plan that waits for the owner is a critical one without a result.
HeldIsCritical ==
  \A t \in TaskId : Held(t) => /\ tasks[t].decision = "NonDelegable"
                               /\ tasks[t].execution_result = {}

\* The execution a record may still start without a further submission.
Owed(t) ==
  IF Held(t) \/ (tasks[t].decision = "Delegable" /\ tasks[t].status = "Pending")
  THEN 1 ELSE 0

RunCredit == \A t \in TaskId : starts[t] + Owed(t) <= submits[t]

\* The inductive invariant: check_timeouts trusts the decision stored with a
\* record when it runs the plan stored with it, ingest may leave a held record
\* Pending with its old decision, and only what is owed is ever started.
IInv ==
  /\ TypeOK
  /\ DecisionMatchesPlan
  /\ HeldIsCritical
  /\ ResultMatchesStatus
  /\ InFlightIsKnown
  /\ RunCredit

\* A critical plan starts only in a step in which the owner's approval takes that
\* very plan out of the held state: one approval starts it once, a second one, a
\* timeout or a resubmission never does (main.rs, event_loop.rs:203-218).
CriticalRunsOnlyOnApproval ==
  [][\A t \in TaskId, p \in Plan :
       /\ decide_policy(p) = "NonDelegable"
       /\ inflight'[t][p] > inflight[t][p]
       => /\ Held(t) /\ tasks[t].plan = p
          /\ ~Held(t)']_vars

\* The table keeps the Gatekeeper's promise: held plans, elapsed windows and
\* executions in flight behave as GatekeeperContract allows.
Contract ==
  INSTANCE GatekeeperContract WITH
    CriticalPlan <- {p \in Plan : decide_policy(p) = "NonDelegable"},
    held    <- [t \in TaskId |-> IF Held(t) THEN {tasks[t].plan} ELSE {}],
    ripe    <- {t \in TaskId : Known(t) /\ tasks[t].age = Timeout},
    running <- inflight

GatekeeperSpec == Contract!Spec

\* A record that no longer waits and whose executions have ended, or that another
\* submission or a restart has replaced.
Settled(t) ==
  tasks[t].status \in {"Executed", "ExecutionFailed", "RejectedByOwner",
                       "HeldForManualApproval", "Absent"}

\* A delegable plan that waits for its window is run and gets its result, unless
\* a critical plan takes its place or the daemon stops.  A resubmission whose reply
\* is lost drops the plan it would have run (main.rs:394), so of the ids nobody
\* vanishes from, whatever happens under the others.
WaitingDelegableSettles ==
  \A t \in TaskId \ Vanishing :
    tasks[t].status = "Pending" /\ tasks[t].decision = "Delegable" ~> Settled(t)

\* An auto-approved record does not stay so: the execution that was announced is
\* recorded, also when the same id is submitted again while it runs (with the same
\* exception).
AutoApprovedSettles ==
  \A t \in TaskId \ Vanishing : tasks[t].status = "DelegableAutoApproved" ~> Settled(t)

\* Every accepted task settles: the reading of the daemon's own messages, that a
\* pending plan is auto-approved in <= 120s (main.rs:364) and that an approved one
\* is picked up by check_timeouts or executed at once (event_loop.rs:212).
PendingSettles == \A t \in TaskId : tasks[t].status = "Pending" ~> Settled(t)

\* A critical task stays held until the owner decides on it (event_loop.rs:90:
\* "held forever, awaiting owner approval") or the daemon stops.
HeldUntilOwnerDecides ==
  [][\A t \in TaskId :
       Held(t) => \/ Held(t)'
                  \/ \E acked \in BOOLEAN : OwnerApproves(t, acked)
                  \/ OwnerRejects(t)
                  \/ Restart]_vars
=============================================================================
