-------------------------- MODULE PendingPlans_proofs --------------------------
(***************************************************************************)
(* The table of tasks keeps its invariants, and the Gatekeeper's contract, *)
(* for any set of task ids, any set of plans and any delegation window;    *)
(* and first what holds of the classification of plans and their           *)
(* execution (PlanPolicy), for every plan.                                 *)
(***************************************************************************)
EXTENDS PendingPlans, TLAPS

USE PlanAssumption, TimeoutAssumption, AckAssumption

-----------------------------------------------------------------------------
(* The classification of plans and their execution *)

\* A plan is decided one way or the other.
LEMMA DecisionType == \A plan : decide_policy(plan) \in PolicyDecision
  BY DEF decide_policy, evaluate_criteria, PolicyDecision

\* What execute_plan returns is an outcome.
LEMMA OutcomeType ==
  ASSUME NEW plan \in Seq(Command)
  PROVE  execute_plan(plan) \subseteq Outcome
<1>1. ASSUME NEW r PROVE OutcomeOf(r) \in Outcome
  BY DEF OutcomeOf, Outcome
<1> QED
  BY <1>1 DEF execute_plan

\* Classification and safety lock agree: what the Gatekeeper lets run without the
\* owner (policy.rs, criteria.rs) is never stopped by the executor's armed guard
\* (executor.rs:62, safety_guard.rs:109-124), although the two read the command
\* line on their own.
THEOREM DelegableIsNeverBlocked ==
  ASSUME NEW plan \in Seq(Command), decide_policy(plan) = "Delegable",
         NEW armed \in BOOLEAN
  PROVE  \A c \in CommandsOf(plan) : evaluate_for_command(armed, c) = "Allow"
<1> SUFFICES ASSUME NEW c \in CommandsOf(plan)
             PROVE  evaluate_for_command(armed, c) = "Allow"
  OBVIOUS
<1>1. c \in Command
  BY DEF CommandsOf
<1>2. has_valid_tag(c) /\ classification(c.tag) # "Critical"
  BY DEF decide_policy, evaluate_criteria
<1>3. extract_from_command(c) = c.tag
  BY <1>2 DEF has_valid_tag, extract_from_command
<1> QED
  BY <1>2, <1>3 DEF evaluate_for_command

\* No plan with a command under a critical symbol, or without a valid tag, can
\* come to a successful end, whoever approved it: the executor asks a guard of its
\* own that is always armed.
THEOREM CriticalSymbolNeverSucceeds ==
  ASSUME NEW plan \in Seq(Command),
         NEW i \in 1..Len(plan),
         classification(extract_from_command(plan[i])) = "Critical",
         NEW o \in execute_plan(plan)
  PROVE  ~o.success
<1>1. ~ReachesSpawn(plan[i])
  BY DEF ReachesSpawn, evaluate_for_command
<1>2. PICK r \in [1..Len(plan) -> BOOLEAN] :
        /\ \A j \in 1..Len(plan) : r[j] \in execute_approved_task(plan[j])
        /\ o = OutcomeOf(r)
  BY DEF execute_plan
<1>3. ~r[i]
  BY <1>1, <1>2 DEF execute_approved_task
<1>4. i \in DOMAIN r
  BY <1>2
<1> QED
  BY <1>2, <1>3, <1>4 DEF OutcomeOf

\* A plan can come to a successful end, which has the exit code 0, if and only if
\* every one of its commands gets as far as the allowlist: one line that does not
\* parse or that the lock blocks is enough to fail the whole (main.rs, execute_plan).
THEOREM SuccessNeedsEveryCommand ==
  ASSUME NEW plan \in Seq(Command)
  PROVE  /\ (\E o \in execute_plan(plan) : o.success)
              <=> (\A i \in 1..Len(plan) : ReachesSpawn(plan[i]))
         /\ \A o \in execute_plan(plan) : o.success => o.exit_code = 0
<1> DEFINE tries == {r \in [1..Len(plan) -> BOOLEAN] :
                       \A i \in 1..Len(plan) : r[i] \in execute_approved_task(plan[i])}
<1>1. execute_plan(plan) = {OutcomeOf(r) : r \in tries}
  BY DEF execute_plan
<1>2. ASSUME NEW o \in execute_plan(plan), o.success
      PROVE  (\A i \in 1..Len(plan) : ReachesSpawn(plan[i])) /\ o.exit_code = 0
  <2>1. PICK r \in tries : o = OutcomeOf(r)
    BY <1>1, <1>2
  <2>2. DOMAIN r = 1..Len(plan) /\ Len(plan) \in Nat
    BY <2>1
  <2>3. \A i \in 1..Len(plan) : r[i] /\ r[i] \in execute_approved_task(plan[i])
    BY <1>2, <2>1, <2>2 DEF OutcomeOf
  <2>4. \A i \in 1..Len(plan) : ReachesSpawn(plan[i])
    BY <2>3 DEF execute_approved_task
  <2>5. r = <<>> \/ r[Len(r)]
    <3>1. r \in Seq(BOOLEAN) /\ Len(r) = Len(plan)
      BY <2>1, <2>2
    <3> QED
      BY <2>2, <2>3, <3>1
  <2> QED
    BY <2>1, <2>4, <2>5 DEF OutcomeOf
<1>3. ASSUME \A i \in 1..Len(plan) : ReachesSpawn(plan[i])
      PROVE  \E o \in execute_plan(plan) : o.success
  <2> DEFINE r == [i \in 1..Len(plan) |-> TRUE]
  <2>1. r \in tries
    BY <1>3 DEF execute_approved_task
  <2>2. OutcomeOf(r).success
    BY DEF OutcomeOf
  <2> QED
    BY <1>1, <2>1, <2>2
<1> QED
  BY <1>2, <1>3

\* Plans are decided line by line: two plans joined are delegable if and only if both
\* are, so that no order of lines and no delegable company makes a critical line pass
\* (criteria.rs, policy.rs).
THEOREM JoinedPlansAreBothDecided ==
  ASSUME NEW p \in Seq(Command), NEW q \in Seq(Command)
  PROVE  decide_policy(p \o q) = "Delegable"
           <=> decide_policy(p) = "Delegable" /\ decide_policy(q) = "Delegable"
<1> DEFINE safe(c) == /\ has_valid_tag(c)
                      /\ classification(c.tag) # "Critical" /\ c.hits = {}
<1>1. ASSUME NEW plan
      PROVE  decide_policy(plan) = "Delegable" <=> \A c \in CommandsOf(plan) : safe(c)
  BY DEF decide_policy, evaluate_criteria
<1>2. CommandsOf(p \o q) = CommandsOf(p) \cup CommandsOf(q)
  <2> DEFINE s == p \o q
  <2>1. /\ DOMAIN p = 1..Len(p) /\ Len(p) \in Nat
        /\ DOMAIN q = 1..Len(q) /\ Len(q) \in Nat
    OBVIOUS
  <2>2. /\ DOMAIN s = 1..Len(p) + Len(q)
        /\ \A i \in 1..Len(p) + Len(q) : s[i] = IF i <= Len(p) THEN p[i] ELSE q[i - Len(p)]
    OBVIOUS
  <2> HIDE DEF s
  <2>3. ASSUME NEW i \in DOMAIN s PROVE s[i] \in CommandsOf(p) \cup CommandsOf(q)
    <3>1. CASE i <= Len(p)
      BY <2>1, <2>2, <3>1 DEF CommandsOf
    <3>2. CASE ~(i <= Len(p))
      <4>1. i - Len(p) \in DOMAIN q
        BY <2>1, <2>2, <3>2
      <4> QED
        BY <2>2, <3>2, <4>1 DEF CommandsOf
    <3> QED
      BY <3>1, <3>2
  <2>4. ASSUME NEW i \in DOMAIN p PROVE p[i] \in CommandsOf(s)
    <3>1. i \in DOMAIN s /\ s[i] = p[i]
      BY <2>1, <2>2
    <3> QED
      BY <3>1 DEF CommandsOf
  <2>5. ASSUME NEW i \in DOMAIN q PROVE q[i] \in CommandsOf(s)
    <3>1. Len(p) + i \in DOMAIN s /\ ~(Len(p) + i <= Len(p)) /\ (Len(p) + i) - Len(p) = i
      BY <2>1, <2>2
    <3>2. s[Len(p) + i] = q[i]
      BY <2>2, <3>1
    <3> QED
      BY <3>1, <3>2 DEF CommandsOf
  <2>6. CommandsOf(s) \subseteq CommandsOf(p) \cup CommandsOf(q)
    BY <2>3 DEF CommandsOf
  <2>7. CommandsOf(p) \subseteq CommandsOf(s) /\ CommandsOf(q) \subseteq CommandsOf(s)
    BY <2>4, <2>5 DEF CommandsOf
  <2> QED
    BY <2>6, <2>7 DEF s
<1> HIDE DEF safe
<1> QED
  BY <1>1, <1>2

-----------------------------------------------------------------------------
(* Facts about the operators *)

\* A new record has the type of a record.
LEMMA NewTaskType ==
  ASSUME NEW p \in Plan, NEW s \in TaskStatus
  PROVE  NewTask(p, s) \in TaskState
  BY DecisionType DEF NewTask, TaskState, Outcome

\* The absent record has the type of a record.
LEMMA AbsentType == Absent \in TaskState
  BY DEF Absent, TaskState, PolicyDecision, Outcome

\* What ingest works on when a delegable plan arrives.
LEMMA EntryType ==
  ASSUME TypeOK, NEW t \in TaskId, NEW p \in Plan
  PROVE  EntryOrInsert(t, p) \in TaskState
  BY NewTaskType DEF EntryOrInsert, TypeOK, TaskStatus

\* Spawning keeps the types of the counters and adds at most one start per task.
LEMMA SpawnType ==
  ASSUME TypeOK, NEW due \in SUBSET TaskId, NEW chosen,
         \A t \in due : chosen[t] \in Plan,
         Spawn(due, chosen)
  PROVE  /\ inflight' \in [TaskId -> [Plan -> Nat]]
         /\ starts' \in [TaskId -> Nat]
         /\ \A t \in TaskId : starts'[t] = IF t \in due THEN starts[t] + 1 ELSE starts[t]
         /\ \A t \in TaskId \ due : inflight'[t] = inflight[t]
<1>1. inflight' \in [TaskId -> [Plan -> Nat]]
  <2>1. ASSUME NEW t \in TaskId
        PROVE  (IF t \in due THEN [inflight[t] EXCEPT ![chosen[t]] = @ + 1]
                             ELSE inflight[t]) \in [Plan -> Nat]
    <3>1. inflight[t] \in [Plan -> Nat]
      BY DEF TypeOK
    <3> QED BY <3>1
  <2> QED BY <2>1 DEF Spawn
<1>2. starts' \in [TaskId -> Nat]
  BY DEF Spawn, TypeOK
<1> QED
  BY <1>1, <1>2 DEF Spawn

-----------------------------------------------------------------------------
(* Type correctness *)

LEMMA InitType == Init => TypeOK
  BY AbsentType DEF Init, TypeOK

LEMMA SubmitDelegableType ==
  ASSUME TypeOK, NEW t \in TaskId, NEW p \in Plan, NEW acked \in BOOLEAN,
         SubmitDelegable(t, p, acked)
  PROVE  TypeOK'
<1> DEFINE entry == EntryOrInsert(t, p)
           verdict == apply_gatekeeper_policy("Delegable", entry.age)
           status == IF verdict = "AutoApproved" THEN "DelegableAutoApproved"
                                                 ELSE "Pending"
           due == IF verdict = "AutoApproved" /\ acked THEN {t} ELSE {}
<1>1. entry \in TaskState
  BY EntryType
<1>2. /\ submits' = [submits EXCEPT ![t] = @ + 1]
      /\ tasks' = [tasks EXCEPT ![t] = [entry EXCEPT !.status = status]]
      /\ Spawn(due, [i \in {t} |-> p])
  BY DEF SubmitDelegable
<1> HIDE DEF entry, verdict, due
<1>3. [entry EXCEPT !.status = status] \in TaskState
  BY <1>1 DEF TaskState, TaskStatus
<1>4. tasks' \in [TaskId -> TaskState]
  BY <1>2, <1>3 DEF TypeOK
<1>5. due \in SUBSET {t}
  BY DEF due
<1>6. /\ inflight' \in [TaskId -> [Plan -> Nat]]
      /\ starts' \in [TaskId -> Nat]
  BY <1>2, <1>5, SpawnType
<1>7. submits' \in [TaskId -> Nat]
  BY <1>2 DEF TypeOK
<1> QED
  BY <1>4, <1>6, <1>7 DEF TypeOK

LEMMA SubmitCriticalType ==
  ASSUME TypeOK, NEW t \in TaskId, NEW p \in Plan, SubmitCritical(t, p)
  PROVE  TypeOK'
<1>1. NewTask(p, "HeldForManualApproval") \in TaskState
  BY NewTaskType DEF TaskStatus
<1> QED
  BY <1>1 DEF SubmitCritical, TypeOK

LEMMA OwnerApprovesType ==
  ASSUME TypeOK, DecisionMatchesPlan, NEW t \in TaskId, NEW acked \in BOOLEAN,
         OwnerApproves(t, acked)
  PROVE  TypeOK'
<1>1. tasks[t] \in TaskState /\ tasks[t].plan \in Plan
  BY DEF TypeOK, DecisionMatchesPlan, OwnerApproves, Held, Known
<1>2. tasks' \in [TaskId -> TaskState]
  BY <1>1 DEF OwnerApproves, TypeOK, TaskState, TaskStatus
<1>3. Spawn(IF acked THEN {t} ELSE {}, [i \in {t} |-> tasks[t].plan])
  BY DEF OwnerApproves
<1>4. /\ inflight' \in [TaskId -> [Plan -> Nat]]
      /\ starts' \in [TaskId -> Nat]
  <2> DEFINE due == IF acked THEN {t} ELSE {}
             chosen == [i \in {t} |-> tasks[t].plan]
  <2>1. due \in SUBSET TaskId /\ \A u \in due : chosen[u] \in Plan
    BY <1>1
  <2>2. Spawn(due, chosen)
    BY <1>3
  <2> HIDE DEF due, chosen
  <2> QED
    BY <2>1, <2>2, SpawnType
<1> QED
  BY <1>2, <1>4 DEF OwnerApproves, TypeOK

LEMMA OwnerRejectsType ==
  ASSUME TypeOK, NEW t \in TaskId, OwnerRejects(t)
  PROVE  TypeOK'
<1>1. tasks[t] \in TaskState
  BY DEF TypeOK
<1>2. tasks' \in [TaskId -> TaskState]
  BY <1>1 DEF OwnerRejects, TypeOK, TaskState, TaskStatus
<1> QED
  BY <1>2 DEF OwnerRejects, TypeOK

LEMMA CheckTimeoutsType ==
  ASSUME TypeOK, DecisionMatchesPlan, CheckTimeouts
  PROVE  TypeOK'
<1>1. \A t \in Due : tasks[t] \in TaskState /\ tasks[t].plan \in Plan
  BY DEF TypeOK, DecisionMatchesPlan, Due, Known
<1>2. \A t \in TaskId : [tasks[t] EXCEPT !.status = "DelegableAutoApproved"] \in TaskState
  BY DEF TypeOK, TaskState, TaskStatus
<1>3. tasks' \in [TaskId -> TaskState]
  BY <1>2 DEF CheckTimeouts, TypeOK
<1>4. /\ inflight' \in [TaskId -> [Plan -> Nat]]
      /\ starts' \in [TaskId -> Nat]
  <2>1. Spawn(Due, [t \in Due |-> tasks[t].plan]) /\ Due \in SUBSET TaskId
    BY DEF CheckTimeouts, Due
  <2>2. \A t \in Due : [u \in Due |-> tasks[u].plan][t] \in Plan
    BY <1>1
  <2> QED BY <2>1, <2>2, SpawnType
<1> QED
  BY <1>3, <1>4 DEF CheckTimeouts, TypeOK

LEMMA RecordExecutionType ==
  ASSUME TypeOK, NEW t \in TaskId, NEW p \in Plan, RecordExecution(t, p)
  PROVE  TypeOK'
<1>1. PICK o \in execute_plan(p) :
        tasks' = IF Known(t)
                 THEN [tasks EXCEPT
                         ![t].status = IF o.success THEN "Executed"
                                                    ELSE "ExecutionFailed",
                         ![t].execution_result = {o}]
                 ELSE tasks
  BY DEF RecordExecution
<1>2. o \in Outcome
  BY OutcomeType
<1>3. tasks' \in [TaskId -> TaskState]
  <2> DEFINE s == IF o.success THEN "Executed" ELSE "ExecutionFailed"
             rec == [tasks[t] EXCEPT !.status = s, !.execution_result = {o}]
  <2>1. s \in TaskStatus
    BY DEF TaskStatus
  <2>2. tasks[t] \in TaskState
    BY DEF TypeOK
  <2>3. rec \in TaskState
    BY <1>2, <2>1, <2>2 DEF TaskState
  <2>4. tasks' = IF Known(t) THEN [tasks EXCEPT ![t] = rec] ELSE tasks
    BY <1>1, <2>2 DEF TypeOK
  <2> QED
    BY <2>3, <2>4 DEF TypeOK
<1>4. inflight' \in [TaskId -> [Plan -> Nat]]
  <2>1. inflight[t] \in [Plan -> Nat] /\ inflight[t][p] > 0
    BY DEF RecordExecution, TypeOK
  <2>2. [inflight[t] EXCEPT ![p] = @ - 1] \in [Plan -> Nat]
    BY <2>1
  <2> QED
    BY <2>2 DEF RecordExecution, TypeOK
<1> QED
  BY <1>3, <1>4 DEF RecordExecution, TypeOK

LEMMA TickType == TypeOK /\ Tick => TypeOK'
<1> SUFFICES ASSUME TypeOK, Tick PROVE TypeOK'
  OBVIOUS
<1>1. ASSUME NEW t \in TaskId, tasks[t].age < Timeout
      PROVE  [tasks[t] EXCEPT !.age = @ + 1] \in TaskState
  <2>1. tasks[t] \in TaskState /\ tasks[t].age \in 0..Timeout
    BY DEF TypeOK, TaskState
  <2>2. tasks[t].age + 1 \in 0..Timeout
    BY <1>1, <2>1
  <2> QED
    BY <2>1, <2>2 DEF TaskState
<1>2. tasks' \in [TaskId -> TaskState]
  BY <1>1 DEF Tick, TypeOK
<1> QED
  BY <1>2 DEF Tick, TypeOK

LEMMA RestartType == Restart /\ TypeOK => TypeOK'
  BY AbsentType DEF Restart, TypeOK

LEMMA NextType == TypeOK /\ DecisionMatchesPlan /\ [Next]_vars => TypeOK'
<1> SUFFICES ASSUME TypeOK, DecisionMatchesPlan, [Next]_vars PROVE TypeOK'
  OBVIOUS
<1>1. \A t \in TaskId : Acked(t) \subseteq BOOLEAN
  BY DEF Acked
<1>2. CASE \E t \in TaskId : \E p \in Plan, acked \in Acked(t) : SubmitDelegable(t, p, acked)
  BY <1>1, <1>2, SubmitDelegableType
<1>3. CASE \E t \in TaskId, p \in Plan : SubmitCritical(t, p)
  BY <1>3, SubmitCriticalType
<1>4. CASE \E t \in TaskId : \E acked \in Acked(t) : OwnerApproves(t, acked)
  BY <1>1, <1>4, OwnerApprovesType
<1>5. CASE \E t \in TaskId : OwnerRejects(t)
  BY <1>5, OwnerRejectsType
<1>6. CASE CheckTimeouts
  BY <1>6, CheckTimeoutsType
<1>7. CASE \E t \in TaskId, p \in Plan : RecordExecution(t, p)
  BY <1>7, RecordExecutionType
<1>8. CASE Tick
  BY <1>8, TickType
<1>9. CASE Restart
  BY <1>9, RestartType
<1>10. CASE UNCHANGED vars
  BY <1>10 DEF vars, TypeOK
<1> QED
  BY <1>2, <1>3, <1>4, <1>5, <1>6, <1>7, <1>8, <1>9, <1>10 DEF Next
-----------------------------------------------------------------------------
(* The inductive invariant *)

\* What IInv says of one record: the record-wise form of DecisionMatchesPlan,
\* HeldIsCritical and ResultMatchesStatus.
RecordOK(r) ==
  /\ r.status # "Absent" => r.plan \in Plan /\ r.decision = decide_policy(r.plan)
  /\ r.status = "HeldForManualApproval" =>
       r.decision = "NonDelegable" /\ r.execution_result = {}
  /\ r.status \in {"Executed", "ExecutionFailed"} =>
       \E o \in Outcome : /\ r.execution_result = {o}
                          /\ o.success <=> r.status = "Executed"

RecordsOK == \A t \in TaskId : RecordOK(tasks[t])

LEMMA RecordsOKSplit ==
  RecordsOK <=> DecisionMatchesPlan /\ HeldIsCritical /\ ResultMatchesStatus
  BY DEF RecordsOK, RecordOK, DecisionMatchesPlan, HeldIsCritical,
         ResultMatchesStatus, Known, Held

LEMMA RecordsOKSplitPrime ==
  RecordsOK' <=> DecisionMatchesPlan' /\ HeldIsCritical' /\ ResultMatchesStatus'
  BY DEF RecordsOK, RecordOK, DecisionMatchesPlan, HeldIsCritical,
         ResultMatchesStatus, Known, Held

\* A step that changes one record only, into a good one that is in the table,
\* keeps all records good and every execution in flight known.
LEMMA OneRecord ==
  ASSUME TypeOK, RecordsOK, InFlightIsKnown,
         NEW t \in TaskId, NEW r,
         RecordOK(r), r.status # "Absent",
         tasks' = [tasks EXCEPT ![t] = r],
         \A u \in TaskId \ {t} : inflight'[u] = inflight[u]
  PROVE  RecordsOK' /\ InFlightIsKnown'
<1>1. \A u \in TaskId : tasks'[u] = IF u = t THEN r ELSE tasks[u]
  BY DEF TypeOK
<1>2. RecordsOK'
  BY <1>1 DEF RecordsOK
<1>3. InFlightIsKnown'
  BY <1>1 DEF InFlightIsKnown, Known
<1> QED
  BY <1>2, <1>3

\* A step keeps RunCredit if, task by task, it starts no more than was owed and
\* is then no longer owed, or what it adds was submitted in the same step.
LEMMA KeepsCredit ==
  ASSUME TypeOK, TypeOK', RunCredit,
         \A t \in TaskId : starts'[t] + Owed(t)' - submits'[t]
                             <= starts[t] + Owed(t) - submits[t]
  PROVE  RunCredit'
<1> SUFFICES ASSUME NEW t \in TaskId PROVE (starts[t] + Owed(t) <= submits[t])'
  BY DEF RunCredit
<1>1. /\ starts[t] \in Nat /\ submits[t] \in Nat
      /\ starts'[t] \in Nat /\ submits'[t] \in Nat
      /\ Owed(t) \in {0, 1} /\ Owed(t)' \in {0, 1}
  BY DEF TypeOK, Owed
<1>2. starts[t] + Owed(t) <= submits[t]
  BY DEF RunCredit
<1>3. starts'[t] + Owed(t)' - submits'[t] <= starts[t] + Owed(t) - submits[t]
  OBVIOUS
<1> QED
  BY ONLY <1>1, <1>2, <1>3

LEMMA InitIInv == Init => IInv
<1> SUFFICES ASSUME Init PROVE IInv
  OBVIOUS
<1>1. \A t \in TaskId : tasks[t].status = "Absent"
  BY DEF Init, Absent
<1>2. InFlightIsKnown /\ RunCredit
  BY <1>1 DEF Init, InFlightIsKnown, RunCredit, Owed, Held
<1>3. DecisionMatchesPlan /\ HeldIsCritical /\ ResultMatchesStatus
  BY <1>1 DEF DecisionMatchesPlan, HeldIsCritical, ResultMatchesStatus, Known, Held
<1> QED
  BY <1>2, <1>3, InitType DEF IInv

LEMMA SubmitDelegableIInv ==
  ASSUME IInv, TypeOK', NEW t \in TaskId, NEW p \in Plan, NEW acked \in BOOLEAN,
         SubmitDelegable(t, p, acked)
  PROVE  IInv'
<1> DEFINE entry == EntryOrInsert(t, p)
           verdict == apply_gatekeeper_policy("Delegable", entry.age)
           status == IF verdict = "AutoApproved" THEN "DelegableAutoApproved"
                                                 ELSE "Pending"
           rec == [entry EXCEPT !.status = status]
           due == IF verdict = "AutoApproved" /\ acked THEN {t} ELSE {}
           chosen == [i \in {t} |-> p]
<1>1. TypeOK /\ RecordsOK /\ InFlightIsKnown /\ RunCredit
  BY RecordsOKSplit DEF IInv
<1>2. /\ decide_policy(p) = "Delegable"
      /\ submits' = [submits EXCEPT ![t] = @ + 1]
      /\ tasks' = [tasks EXCEPT ![t] = rec]
      /\ Spawn(due, chosen)
  BY DEF SubmitDelegable
<1>3. entry \in TaskState
  BY <1>1, EntryType
<1>4. entry.plan \in Plan /\ entry.decision = decide_policy(entry.plan)
  BY <1>1 DEF EntryOrInsert, NewTask, RecordsOK, RecordOK, Known
<1> HIDE DEF entry, verdict, chosen
<1>5. /\ rec.plan = entry.plan /\ rec.decision = entry.decision
      /\ rec.status = status
  BY <1>3 DEF TaskState
<1>6. RecordOK(rec) /\ rec.status # "Absent"
  BY <1>4, <1>5 DEF RecordOK
<1>7. /\ \A u \in TaskId : starts'[u] = IF u \in due THEN starts[u] + 1 ELSE starts[u]
      /\ \A u \in TaskId \ {t} : inflight'[u] = inflight[u]
  <2>1. due \in SUBSET TaskId /\ \A u \in due : chosen[u] \in Plan
    BY DEF chosen
  <2>2. due \subseteq {t}
    OBVIOUS
  <2> HIDE DEF due
  <2> QED
    BY <1>1, <1>2, <2>1, <2>2, SpawnType
<1>8. RecordsOK' /\ InFlightIsKnown'
  BY <1>1, <1>2, <1>6, <1>7, OneRecord
<1>9. ASSUME NEW u \in TaskId
      PROVE  starts'[u] + Owed(u)' - submits'[u] <= starts[u] + Owed(u) - submits[u]
  <2>1. starts[u] \in Nat /\ submits[u] \in Nat
    BY <1>1 DEF TypeOK
  <2>2. Owed(u) \in {0, 1} /\ Owed(u)' \in {0, 1}
    BY DEF Owed
  <2>3. CASE u # t
    <3>1. tasks'[u] = tasks[u] /\ submits'[u] = submits[u] /\ starts'[u] = starts[u]
      BY <1>1, <1>2, <1>7, <2>3 DEF TypeOK
    <3>2. Owed(u)' = Owed(u)
      BY <3>1 DEF Owed, Held
    <3> QED BY <3>1, <3>2, <2>1, <2>2
  <2>4. CASE u = t
    <3>1. submits'[u] = submits[u] + 1
      BY <1>1, <1>2, <2>4 DEF TypeOK
    <3>2. tasks'[u] = rec
      BY <1>1, <1>2, <2>4 DEF TypeOK
    <3>3. CASE verdict = "AutoApproved"
      <4>1. Owed(u)' = 0
        BY <1>5, <3>2, <3>3 DEF Owed, Held
      <4>2. starts'[u] \in {starts[u], starts[u] + 1}
        BY <1>7
      <4> QED BY <2>1, <2>2, <3>1, <4>1, <4>2
    <3>4. CASE verdict # "AutoApproved"
      <4>1. starts'[u] = starts[u]
        BY <1>7, <3>4
      <4> QED BY <2>1, <2>2, <3>1, <4>1
    <3> QED BY <3>3, <3>4
  <2> QED BY <2>3, <2>4
<1> QED
  BY <1>1, <1>8, <1>9, KeepsCredit, RecordsOKSplitPrime DEF IInv

LEMMA SubmitCriticalIInv ==
  ASSUME IInv, TypeOK', NEW t \in TaskId, NEW p \in Plan, SubmitCritical(t, p)
  PROVE  IInv'
<1> DEFINE rec == NewTask(p, "HeldForManualApproval")
<1>1. TypeOK /\ RecordsOK /\ InFlightIsKnown /\ RunCredit
  BY RecordsOKSplit DEF IInv
<1>2. /\ decide_policy(p) = "NonDelegable"
      /\ submits' = [submits EXCEPT ![t] = @ + 1]
      /\ tasks' = [tasks EXCEPT ![t] = rec]
      /\ inflight' = inflight /\ starts' = starts
  BY DEF SubmitCritical
<1>3. RecordOK(rec) /\ rec.status # "Absent"
  BY <1>2 DEF RecordOK, NewTask
<1>4. RecordsOK' /\ InFlightIsKnown'
  BY <1>1, <1>2, <1>3, OneRecord
<1>5. ASSUME NEW u \in TaskId
      PROVE  starts'[u] + Owed(u)' - submits'[u] <= starts[u] + Owed(u) - submits[u]
  <2>1. starts[u] \in Nat /\ submits[u] \in Nat
    BY <1>1 DEF TypeOK
  <2>2. Owed(u) \in {0, 1} /\ Owed(u)' \in {0, 1}
    BY DEF Owed
  <2>3. CASE u # t
    <3>1. tasks'[u] = tasks[u] /\ submits'[u] = submits[u]
      BY <1>1, <1>2, <2>3 DEF TypeOK
    <3>2. Owed(u)' = Owed(u)
      BY <3>1 DEF Owed, Held
    <3> QED BY <1>2, <3>1, <3>2, <2>1, <2>2
  <2>4. CASE u = t
    <3>1. submits'[u] = submits[u] + 1
      BY <1>1, <1>2, <2>4 DEF TypeOK
    <3> QED BY <1>2, <3>1, <2>1, <2>2
  <2> QED BY <2>3, <2>4
<1> QED
  BY <1>1, <1>4, <1>5, KeepsCredit, RecordsOKSplitPrime DEF IInv
LEMMA OwnerApprovesIInv ==
  ASSUME IInv, TypeOK', NEW t \in TaskId, NEW acked \in BOOLEAN,
         OwnerApproves(t, acked)
  PROVE  IInv'
<1> DEFINE rec == [tasks[t] EXCEPT !.status = "Pending"]
           due == IF acked THEN {t} ELSE {}
           chosen == [i \in {t} |-> tasks[t].plan]
<1>1. TypeOK /\ RecordsOK /\ InFlightIsKnown /\ RunCredit
  BY RecordsOKSplit DEF IInv
<1>2. /\ Held(t)
      /\ tasks' = [tasks EXCEPT ![t] = rec]
      /\ Spawn(due, chosen)
      /\ submits' = submits
  BY <1>1 DEF OwnerApproves, TypeOK
<1>3. /\ tasks[t] \in TaskState /\ tasks[t].plan \in Plan
      /\ tasks[t].decision = "NonDelegable"
      /\ tasks[t].decision = decide_policy(tasks[t].plan)
  BY <1>1, <1>2 DEF TypeOK, RecordsOK, RecordOK, Held
<1>4. /\ rec.plan = tasks[t].plan /\ rec.decision = tasks[t].decision
      /\ rec.status = "Pending"
  BY <1>3 DEF TaskState
<1>5. RecordOK(rec) /\ rec.status # "Absent"
  BY <1>3, <1>4 DEF RecordOK
<1>6. /\ \A u \in TaskId : starts'[u] = IF u \in due THEN starts[u] + 1 ELSE starts[u]
      /\ \A u \in TaskId \ {t} : inflight'[u] = inflight[u]
  <2>1. due \in SUBSET TaskId /\ due \subseteq {t} /\ \A u \in due : chosen[u] \in Plan
    BY <1>3
  <2> HIDE DEF due, chosen
  <2> QED
    BY <1>1, <1>2, <2>1, SpawnType
<1>7. RecordsOK' /\ InFlightIsKnown'
  BY <1>1, <1>2, <1>5, <1>6, OneRecord
<1>8. ASSUME NEW u \in TaskId
      PROVE  starts'[u] + Owed(u)' - submits'[u] <= starts[u] + Owed(u) - submits[u]
  <2>1. starts[u] \in Nat /\ submits[u] \in Nat
    BY <1>1 DEF TypeOK
  <2>2. CASE u # t
    <3>1. tasks'[u] = tasks[u] /\ starts'[u] = starts[u]
      BY <1>1, <1>2, <1>6, <2>2 DEF TypeOK
    <3>2. Owed(u)' = Owed(u)
      BY <3>1 DEF Owed, Held
    <3> QED BY <1>2, <3>1, <3>2, <2>1 DEF Owed
  <2>3. CASE u = t
    <3>1. Owed(u) = 1
      BY <1>2, <2>3 DEF Owed
    <3>2. Owed(u)' = 0
      BY <1>1, <1>2, <1>3, <1>4, <2>3 DEF Owed, Held, TypeOK
    <3>3. starts'[u] \in {starts[u], starts[u] + 1}
      BY <1>6
    <3> QED BY <1>2, <2>1, <3>1, <3>2, <3>3
  <2> QED BY <2>2, <2>3
<1> QED
  BY <1>1, <1>7, <1>8, KeepsCredit, RecordsOKSplitPrime DEF IInv

\* A step that spawns nothing and ingests nothing keeps RunCredit if it makes no
\* record owed.
LEMMA IdleKeepsCredit ==
  ASSUME TypeOK, TypeOK', RunCredit, starts' = starts, submits' = submits,
         \A t \in TaskId : Owed(t)' <= Owed(t)
  PROVE  RunCredit'
<1>1. ASSUME NEW t \in TaskId
      PROVE  starts'[t] + Owed(t)' - submits'[t] <= starts[t] + Owed(t) - submits[t]
  <2>1. starts[t] \in Nat /\ submits[t] \in Nat
    BY DEF TypeOK
  <2>2. Owed(t) \in {0, 1} /\ Owed(t)' \in {0, 1}
    BY DEF Owed
  <2> QED BY <2>1, <2>2
<1> QED
  BY <1>1, KeepsCredit

LEMMA OwnerRejectsIInv ==
  ASSUME IInv, TypeOK', NEW t \in TaskId, OwnerRejects(t)
  PROVE  IInv'
<1> DEFINE rec == [tasks[t] EXCEPT !.status = "RejectedByOwner"]
<1>1. TypeOK /\ RecordsOK /\ InFlightIsKnown /\ RunCredit
  BY RecordsOKSplit DEF IInv
<1>2. /\ Held(t)
      /\ tasks' = [tasks EXCEPT ![t] = rec]
      /\ inflight' = inflight /\ submits' = submits /\ starts' = starts
  BY <1>1 DEF OwnerRejects, TypeOK
<1>3. tasks[t] \in TaskState
  BY <1>1 DEF TypeOK
<1>4. RecordOK(rec) /\ rec.status = "RejectedByOwner"
  BY <1>1, <1>2, <1>3 DEF RecordsOK, RecordOK, TaskState, Held
<1>5. RecordsOK' /\ InFlightIsKnown'
  BY <1>1, <1>2, <1>4, OneRecord
<1>6. ASSUME NEW u \in TaskId PROVE Owed(u)' <= Owed(u)
  BY <1>1, <1>2, <1>4 DEF Owed, Held, TypeOK
<1> QED
  BY <1>1, <1>2, <1>5, <1>6, IdleKeepsCredit, RecordsOKSplitPrime DEF IInv

LEMMA CheckTimeoutsIInv ==
  ASSUME IInv, TypeOK', CheckTimeouts
  PROVE  IInv'
<1> DEFINE chosen == [t \in Due |-> tasks[t].plan]
           moved(t) == [tasks[t] EXCEPT !.status = "DelegableAutoApproved"]
<1>1. TypeOK /\ RecordsOK /\ InFlightIsKnown /\ RunCredit
  BY RecordsOKSplit DEF IInv
<1>2. /\ tasks' = [t \in TaskId |-> IF t \in Due THEN moved(t) ELSE tasks[t]]
      /\ Spawn(Due, chosen)
      /\ submits' = submits
  BY DEF CheckTimeouts
<1>3. ASSUME NEW t \in Due
      PROVE  /\ t \in TaskId /\ tasks[t].plan \in Plan
             /\ RecordOK(moved(t)) /\ moved(t).status = "DelegableAutoApproved"
             /\ Owed(t) = 1
  <2>1. /\ tasks[t] \in TaskState /\ RecordOK(tasks[t])
        /\ tasks[t].status = "Pending" /\ tasks[t].decision = "Delegable"
    BY <1>1 DEF Due, RecordsOK, TypeOK
  <2> QED
    BY <2>1 DEF RecordOK, TaskState, Owed, Due
<1>4. /\ \A u \in TaskId : starts'[u] = IF u \in Due THEN starts[u] + 1 ELSE starts[u]
      /\ \A u \in TaskId \ Due : inflight'[u] = inflight[u]
  <2>1. Due \in SUBSET TaskId /\ \A u \in Due : chosen[u] \in Plan
    BY <1>3
  <2> HIDE DEF chosen
  <2> QED
    BY <1>1, <1>2, <2>1, SpawnType
<1>5. RecordsOK'
  BY <1>1, <1>2, <1>3 DEF RecordsOK
<1>6. InFlightIsKnown'
  BY <1>1, <1>2, <1>3, <1>4 DEF InFlightIsKnown, Known
<1>7. ASSUME NEW u \in TaskId
      PROVE  starts'[u] + Owed(u)' - submits'[u] <= starts[u] + Owed(u) - submits[u]
  <2>1. starts[u] \in Nat /\ submits[u] \in Nat
    BY <1>1 DEF TypeOK
  <2>2. CASE u \in Due
    <3>1. Owed(u)' = 0
      BY <1>2, <1>3, <2>2 DEF Owed, Held
    <3> QED BY <1>2, <1>3, <1>4, <2>1, <2>2, <3>1
  <2>3. CASE u \notin Due
    <3>1. Owed(u)' = Owed(u)
      BY <1>2, <2>3 DEF Owed, Held
    <3>2. Owed(u) \in {0, 1}
      BY DEF Owed
    <3> QED BY <1>2, <1>4, <2>1, <2>3, <3>1, <3>2
  <2> QED BY <2>2, <2>3
<1> QED
  BY <1>1, <1>5, <1>6, <1>7, KeepsCredit, RecordsOKSplitPrime DEF IInv

LEMMA RecordExecutionIInv ==
  ASSUME IInv, TypeOK', NEW t \in TaskId, NEW p \in Plan, RecordExecution(t, p)
  PROVE  IInv'
<1>1. TypeOK /\ RecordsOK /\ InFlightIsKnown /\ RunCredit
  BY RecordsOKSplit DEF IInv
<1>2. Known(t)
  BY <1>1 DEF RecordExecution, InFlightIsKnown
<1>3. PICK o \in execute_plan(p) :
        tasks' = [tasks EXCEPT
                    ![t].status = IF o.success THEN "Executed"
                                               ELSE "ExecutionFailed",
                    ![t].execution_result = {o}]
  BY <1>2 DEF RecordExecution
<1> DEFINE s == IF o.success THEN "Executed" ELSE "ExecutionFailed"
           rec == [tasks[t] EXCEPT !.status = s, !.execution_result = {o}]
<1>4. o \in Outcome
  BY OutcomeType
<1>5. tasks[t] \in TaskState /\ RecordOK(tasks[t])
  BY <1>1 DEF TypeOK, RecordsOK
<1>6. tasks' = [tasks EXCEPT ![t] = rec]
  BY <1>1, <1>3 DEF TypeOK
<1>7. /\ rec.plan = tasks[t].plan /\ rec.decision = tasks[t].decision
      /\ rec.status = s /\ rec.execution_result = {o}
  BY <1>5 DEF TaskState
<1>8. RecordOK(rec) /\ rec.status # "Absent"
  <2>1. o.success <=> s = "Executed"
    OBVIOUS
  <2>2. s \in {"Executed", "ExecutionFailed"}
    OBVIOUS
  <2> HIDE DEF s, rec
  <2> QED
    BY <1>2, <1>4, <1>5, <1>7, <2>1, <2>2 DEF RecordOK, Known
<1>9. RecordsOK'
  BY <1>1, <1>6, <1>8 DEF RecordsOK, TypeOK
<1>10. InFlightIsKnown'
  <2> SUFFICES ASSUME NEW u \in TaskId, NEW q \in Plan, inflight'[u][q] > 0
               PROVE  Known(u)'
    BY DEF InFlightIsKnown
  <2>1. tasks'[u].status # "Absent" \/ u # t
    BY <1>1, <1>6, <1>8 DEF TypeOK
  <2>2. CASE u # t
    <3>1. tasks'[u] = tasks[u] /\ inflight'[u] = inflight[u]
      BY <1>1, <1>6, <2>2 DEF TypeOK, RecordExecution
    <3> QED BY <1>1, <3>1 DEF InFlightIsKnown, Known
  <2> QED BY <2>1, <2>2 DEF Known
<1>11. ASSUME NEW u \in TaskId PROVE Owed(u)' <= Owed(u)
  <2>1. CASE u = t
    <3>1. Owed(u)' = 0
      BY <1>1, <1>6, <1>7, <2>1 DEF Owed, Held, TypeOK
    <3> QED BY <3>1 DEF Owed
  <2>2. CASE u # t
    BY <1>1, <1>6, <2>2 DEF Owed, Held, TypeOK
  <2> QED BY <2>1, <2>2
<1> QED
  BY <1>1, <1>9, <1>10, <1>11, IdleKeepsCredit, RecordsOKSplitPrime
  DEF IInv, RecordExecution

LEMMA TickIInv ==
  ASSUME IInv, TypeOK', Tick
  PROVE  IInv'
<1>1. TypeOK /\ RecordsOK /\ InFlightIsKnown /\ RunCredit
  BY RecordsOKSplit DEF IInv
<1>2. ASSUME NEW u \in TaskId
      PROVE  /\ tasks'[u].plan = tasks[u].plan
             /\ tasks'[u].decision = tasks[u].decision
             /\ tasks'[u].status = tasks[u].status
             /\ tasks'[u].execution_result = tasks[u].execution_result
  <2>1. tasks[u] \in TaskState
    BY <1>1 DEF TypeOK
  <2>2. tasks'[u] \in {tasks[u], [tasks[u] EXCEPT !.age = @ + 1]}
    BY DEF Tick
  <2> QED BY <2>1, <2>2 DEF TaskState
<1>3. RecordsOK'
  BY <1>1, <1>2 DEF RecordsOK, RecordOK
<1>4. InFlightIsKnown'
  BY <1>1, <1>2 DEF InFlightIsKnown, Known, Tick
<1>5. ASSUME NEW u \in TaskId PROVE Owed(u)' <= Owed(u)
  BY <1>2 DEF Owed, Held
<1> QED
  BY <1>1, <1>3, <1>4, <1>5, IdleKeepsCredit, RecordsOKSplitPrime DEF IInv, Tick

LEMMA RestartIInv ==
  ASSUME IInv, TypeOK', Restart
  PROVE  IInv'
<1>1. TypeOK /\ RunCredit
  BY DEF IInv
<1>2. \A u \in TaskId : tasks'[u].status = "Absent"
  BY DEF Restart, Absent
<1>3. RecordsOK'
  BY <1>2 DEF RecordsOK, RecordOK
<1>4. InFlightIsKnown'
  BY DEF Restart, InFlightIsKnown
<1>5. ASSUME NEW u \in TaskId PROVE Owed(u)' <= Owed(u)
  BY <1>2 DEF Owed, Held
<1> QED
  BY <1>1, <1>3, <1>4, <1>5, IdleKeepsCredit, RecordsOKSplitPrime DEF IInv, Restart

LEMMA NextIInv == IInv /\ [Next]_vars => IInv'
<1> SUFFICES ASSUME IInv, [Next]_vars PROVE IInv'
  OBVIOUS
<1>1. TypeOK'
  BY NextType DEF IInv
<1>2. \A t \in TaskId : Acked(t) \subseteq BOOLEAN
  BY DEF Acked
<1>3. CASE \E t \in TaskId : \E p \in Plan, acked \in Acked(t) : SubmitDelegable(t, p, acked)
  BY <1>1, <1>2, <1>3, SubmitDelegableIInv
<1>4. CASE \E t \in TaskId, p \in Plan : SubmitCritical(t, p)
  BY <1>1, <1>4, SubmitCriticalIInv
<1>5. CASE \E t \in TaskId : \E acked \in Acked(t) : OwnerApproves(t, acked)
  BY <1>1, <1>2, <1>5, OwnerApprovesIInv
<1>6. CASE \E t \in TaskId : OwnerRejects(t)
  BY <1>1, <1>6, OwnerRejectsIInv
<1>7. CASE CheckTimeouts
  BY <1>1, <1>7, CheckTimeoutsIInv
<1>8. CASE \E t \in TaskId, p \in Plan : RecordExecution(t, p)
  BY <1>1, <1>8, RecordExecutionIInv
<1>9. CASE Tick
  BY <1>1, <1>9, TickIInv
<1>10. CASE Restart
  BY <1>1, <1>10, RestartIInv
<1>11. CASE UNCHANGED vars
  BY <1>11 DEF vars, IInv, TypeOK, DecisionMatchesPlan, HeldIsCritical,
               ResultMatchesStatus, InFlightIsKnown, RunCredit, Owed, Known, Held
<1> QED
  BY <1>3, <1>4, <1>5, <1>6, <1>7, <1>8, <1>9, <1>10, <1>11 DEF Next

-----------------------------------------------------------------------------
(* Theorems about every behaviour *)

\* The invariant is inductive: it holds in every reachable state of the table.
THEOREM Invariance == Spec => []IInv
  BY InitIInv, NextIInv, PTL DEF Spec

\* The table, its counters and the executions in flight keep their types.
THEOREM TypeCorrectness == Spec => []TypeOK
<1>1. IInv => TypeOK
  BY DEF IInv
<1> QED
  BY <1>1, Invariance, PTL

\* No id is ever run more often than plans were submitted under it, whatever the
\* order of timeouts, resubmissions, repeated decisions and lost replies.
THEOREM AtMostOneRunPerSubmission == Spec => []NoMoreRunsThanSubmissions
<1>1. IInv => NoMoreRunsThanSubmissions
  <2> SUFFICES ASSUME IInv, NEW t \in TaskId PROVE starts[t] <= submits[t]
    BY DEF NoMoreRunsThanSubmissions
  <2>1. /\ starts[t] \in Nat /\ submits[t] \in Nat
        /\ Owed(t) \in {0, 1}
        /\ starts[t] + Owed(t) <= submits[t]
    BY DEF IInv, TypeOK, RunCredit, Owed
  <2> QED BY <2>1
<1> QED
  BY <1>1, Invariance, PTL

\* The outcome a query returns agrees with the status it returns.
THEOREM ResultsAgree == Spec => []ResultMatchesStatus
<1>1. IInv => ResultMatchesStatus
  BY DEF IInv
<1> QED
  BY <1>1, Invariance, PTL

\* record_execution always finds its task.
THEOREM NoResultIsLost == Spec => []InFlightIsKnown
<1>1. IInv => InFlightIsKnown
  BY DEF IInv
<1> QED
  BY <1>1, Invariance, PTL
=============================================================================
