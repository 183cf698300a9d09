---------------------- MODULE PendingPlansContract_proofs ----------------------
(***************************************************************************)
(* The table of tasks implements the Gatekeeper's contract: every step of  *)
(* the daemon is a step of GatekeeperContract or changes nothing of it.    *)
(* From the same invariant, critical plans start only when the owner       *)
(* approves them.                                                          *)
(***************************************************************************)
EXTENDS PendingPlans_proofs

USE PlanAssumption, TimeoutAssumption, AckAssumption

HeldPlan == [t \in TaskId |-> IF Held(t) THEN {tasks[t].plan} ELSE {}]
Ripe     == {t \in TaskId : Known(t) /\ tasks[t].age = Timeout}
Critical == {p \in Plan : decide_policy(p) = "NonDelegable"}

-----------------------------------------------------------------------------
(* What the invariant says about one record *)

\* A record that check_timeouts runs holds a delegable plan, and its window is
\* over; so does one whose plan ingest runs at once.
LEMMA DueIsRipe ==
  ASSUME IInv, NEW t \in Due
  PROVE  t \in Ripe /\ tasks[t].plan \in Plan \ Critical
<1>1. t \in TaskId /\ tasks[t] \in TaskState /\ Known(t)
  BY DEF IInv, TypeOK, Due, Known
<1>2. /\ tasks[t].decision = "Delegable"
      /\ tasks[t].age >= Timeout
  BY DEF Due, apply_gatekeeper_policy
<1>3. tasks[t].age = Timeout
  BY <1>1, <1>2 DEF TaskState
<1> QED
  BY <1>1, <1>2, <1>3 DEF Ripe, Critical, IInv, DecisionMatchesPlan

LEMMA ElapsedEntryIsRipe ==
  ASSUME IInv, Timeout > 0, NEW t \in TaskId, NEW p \in Plan,
         apply_gatekeeper_policy("Delegable", EntryOrInsert(t, p).age) = "AutoApproved"
  PROVE  t \in Ripe
<1>1. EntryOrInsert(t, p).age >= Timeout /\ EntryOrInsert(t, p) \in TaskState
  BY EntryType DEF apply_gatekeeper_policy, IInv
<1>2. EntryOrInsert(t, p).age = Timeout
  BY <1>1 DEF TaskState
<1>3. Known(t)
  BY <1>2 DEF EntryOrInsert, NewTask
<1> QED
  BY <1>2, <1>3 DEF Ripe, EntryOrInsert

-----------------------------------------------------------------------------
(* Every step is a step of the contract *)

LEMMA InitContract == Init => Contract!Init
  BY DEF Init, Contract!Init, Absent, Held, Known

LEMMA SubmitDelegableContract ==
  ASSUME IInv, Timeout > 0, NEW t \in TaskId, NEW p \in Plan, NEW acked \in BOOLEAN,
         SubmitDelegable(t, p, acked)
  PROVE  Contract!Next
<1> DEFINE entry == EntryOrInsert(t, p)
           verdict == apply_gatekeeper_policy("Delegable", entry.age)
           status == IF verdict = "AutoApproved" THEN "DelegableAutoApproved"
                                                 ELSE "Pending"
           due == IF verdict = "AutoApproved" /\ acked THEN {t} ELSE {}
<1>1. entry \in TaskState /\ tasks \in [TaskId -> TaskState]
      /\ inflight \in [TaskId -> [Plan -> Nat]]
  BY EntryType DEF IInv, TypeOK
<1>2. /\ decide_policy(p) = "Delegable"
      /\ tasks' = [tasks EXCEPT ![t] = [entry EXCEPT !.status = status]]
      /\ Spawn(due, [i \in {t} |-> p])
  BY DEF SubmitDelegable
<1>3. entry.age = IF Known(t) THEN tasks[t].age ELSE 0
  BY DEF EntryOrInsert, NewTask
<1>4. verdict = "AutoApproved" => t \in Ripe
  BY ElapsedEntryIsRipe
<1> HIDE DEF entry, verdict
<1>5. /\ tasks'[t].status = status /\ tasks'[t].age = entry.age
      /\ \A u \in TaskId \ {t} : tasks'[u] = tasks[u]
  BY <1>1, <1>2 DEF TaskState
<1>6. HeldPlan' = [HeldPlan EXCEPT ![t] = {}]
  BY <1>5 DEF HeldPlan, Held
<1>7. Ripe' = Ripe
  BY <1>3, <1>5 DEF Ripe, Known
<1>8. CASE due = {t}
  <2>1. t \in Ripe
    BY <1>4, <1>8
  <2>2. inflight' = [u \in TaskId |->
                       IF u \in {t} THEN [inflight[u] EXCEPT ![[i \in {t} |-> p][u]] = @ + 1]
                                    ELSE inflight[u]]
    BY <1>2, <1>8 DEF Spawn
  <2>3. [i \in {t} |-> p] \in [{t} -> Plan \ Critical] /\ {t} \in SUBSET Ripe
    BY <1>2, <2>1 DEF Critical
  <2>4. HeldPlan' = [u \in TaskId |-> IF u \in {t} THEN {} ELSE HeldPlan[u]]
    BY <1>6 DEF HeldPlan
  <2>5. Contract!AutoRun
    BY <1>7, <2>2, <2>3, <2>4 DEF Contract!AutoRun, HeldPlan, Ripe, Critical
  <2> QED BY <2>5 DEF Contract!Next
<1>9. CASE due = {}
  <2>1. inflight' = inflight
    BY <1>1, <1>2, <1>9 DEF Spawn
  <2>2. Contract!Release(t)
    BY <1>6, <1>7, <2>1 DEF Contract!Release, HeldPlan, Ripe
  <2> QED BY <2>2 DEF Contract!Next
<1> QED BY <1>8, <1>9

LEMMA SubmitCriticalContract ==
  ASSUME IInv, Timeout > 0, NEW t \in TaskId, NEW p \in Plan, SubmitCritical(t, p)
  PROVE  Contract!Next
<1>1. /\ tasks \in [TaskId -> TaskState] /\ p \in Critical
      /\ tasks' = [tasks EXCEPT ![t] = NewTask(p, "HeldForManualApproval")]
      /\ inflight' = inflight
  BY DEF IInv, TypeOK, SubmitCritical, Critical
<1>2. HeldPlan' = [HeldPlan EXCEPT ![t] = {p}]
  BY <1>1 DEF HeldPlan, Held, NewTask
<1>3. Ripe' = Ripe \ {t}
  BY <1>1 DEF Ripe, Known, NewTask
<1>4. Contract!Hold(t, p)
  BY <1>1, <1>2, <1>3 DEF Contract!Hold, HeldPlan, Ripe
<1> QED
  BY <1>1, <1>4 DEF Contract!Next, Critical

\* A status that is not held: the record keeps its window, and its hold is gone.
LEMMA ReleasesHold ==
  ASSUME IInv, NEW t \in TaskId, Known(t),
         NEW s \in TaskStatus \ {"HeldForManualApproval"},
         tasks'[t].status = s, tasks'[t].age = tasks[t].age,
         \A u \in TaskId \ {t} : tasks'[u] = tasks[u]
  PROVE  HeldPlan' = [HeldPlan EXCEPT ![t] = {}] /\ Ripe' = Ripe
<1>1. HeldPlan' = [HeldPlan EXCEPT ![t] = {}]
  BY DEF HeldPlan, Held
<1>2. Ripe' = Ripe
  BY DEF Ripe, Known, TaskStatus
<1> QED BY <1>1, <1>2

LEMMA OwnerApprovesContract ==
  ASSUME IInv, NEW t \in TaskId, NEW acked \in BOOLEAN, OwnerApproves(t, acked)
  PROVE  Contract!Next
<1> DEFINE due == IF acked THEN {t} ELSE {}
           p == tasks[t].plan
<1>1. /\ Held(t) /\ Known(t) /\ p \in Plan
      /\ tasks \in [TaskId -> TaskState] /\ inflight \in [TaskId -> [Plan -> Nat]]
      /\ tasks' = [tasks EXCEPT ![t].status = "Pending"]
      /\ Spawn(due, [i \in {t} |-> p])
  BY DEF IInv, TypeOK, DecisionMatchesPlan, OwnerApproves, Held, Known
<1>2. HeldPlan' = [HeldPlan EXCEPT ![t] = {}] /\ Ripe' = Ripe
  <2>1. /\ tasks'[t].status = "Pending" /\ tasks'[t].age = tasks[t].age
        /\ \A u \in TaskId \ {t} : tasks'[u] = tasks[u]
    BY <1>1 DEF TaskState, TaskStatus
  <2> QED BY <1>1, <2>1, ReleasesHold DEF TaskStatus
<1>3. HeldPlan[t] = {p}
  BY <1>1 DEF HeldPlan
<1> HIDE DEF p
<1>4. CASE acked
  <2>1. inflight' = [inflight EXCEPT ![t][p] = @ + 1]
    BY <1>1, <1>4 DEF Spawn
  <2>2. Contract!Grant(t)
    BY <1>2, <1>3, <2>1 DEF Contract!Grant, Contract!Started, HeldPlan, Ripe
  <2> QED BY <2>2 DEF Contract!Next
<1>5. CASE ~acked
  <2>1. inflight' = inflight
    BY <1>1, <1>5 DEF Spawn
  <2>2. Contract!Release(t)
    BY <1>2, <2>1 DEF Contract!Release, HeldPlan, Ripe
  <2> QED BY <2>2 DEF Contract!Next
<1> QED BY <1>4, <1>5

LEMMA OwnerRejectsContract ==
  ASSUME IInv, NEW t \in TaskId, OwnerRejects(t)
  PROVE  Contract!Next
<1>1. /\ Known(t) /\ tasks \in [TaskId -> TaskState]
      /\ tasks' = [tasks EXCEPT ![t].status = "RejectedByOwner"]
      /\ inflight' = inflight
  BY DEF IInv, TypeOK, OwnerRejects, Held, Known
<1>2. /\ tasks'[t].status = "RejectedByOwner" /\ tasks'[t].age = tasks[t].age
      /\ \A u \in TaskId \ {t} : tasks'[u] = tasks[u]
  BY <1>1 DEF TaskState, TaskStatus
<1>3. HeldPlan' = [HeldPlan EXCEPT ![t] = {}] /\ Ripe' = Ripe
  BY <1>1, <1>2, ReleasesHold DEF TaskStatus
<1>4. Contract!Release(t)
  BY <1>1, <1>3 DEF Contract!Release, HeldPlan, Ripe
<1> QED BY <1>4 DEF Contract!Next

LEMMA CheckTimeoutsContract ==
  ASSUME IInv, CheckTimeouts
  PROVE  Contract!Next
<1> DEFINE chosen == [t \in Due |-> tasks[t].plan]
<1>1. /\ tasks \in [TaskId -> TaskState]
      /\ tasks' = [t \in TaskId |->
                     IF t \in Due
                     THEN [tasks[t] EXCEPT !.status = "DelegableAutoApproved"]
                     ELSE tasks[t]]
      /\ inflight' = [t \in TaskId |->
                        IF t \in Due THEN [inflight[t] EXCEPT ![chosen[t]] = @ + 1]
                                     ELSE inflight[t]]
  BY DEF IInv, TypeOK, CheckTimeouts, Spawn
<1>2. Due \in SUBSET Ripe /\ chosen \in [Due -> Plan \ Critical]
  BY DueIsRipe
<1>3. \A t \in Due : t \in TaskId /\ Known(t) /\ ~Held(t)
  BY DEF Due, Known, Held
<1>4. HeldPlan' = [t \in TaskId |-> IF t \in Due THEN {} ELSE HeldPlan[t]]
  BY <1>1 DEF HeldPlan, Held, TaskState
<1>5. Ripe' = Ripe
  <2>1. \A t \in TaskId : Known(t)' = Known(t) /\ tasks'[t].age = tasks[t].age
    BY <1>1, <1>3 DEF Known, TaskState
  <2> QED BY <2>1 DEF Ripe
<1> HIDE DEF chosen
<1>6. Contract!AutoRun
  BY <1>1, <1>2, <1>4, <1>5 DEF Contract!AutoRun, HeldPlan, Ripe, Critical
<1> QED BY <1>6 DEF Contract!Next

LEMMA RecordExecutionContract ==
  ASSUME IInv, NEW t \in TaskId, NEW p \in Plan, RecordExecution(t, p)
  PROVE  Contract!Next
<1>1. Known(t) /\ inflight[t][p] > 0
  BY DEF IInv, InFlightIsKnown, RecordExecution
<1>2. PICK o \in execute_plan(p) :
        tasks' = [tasks EXCEPT ![t].status = IF o.success THEN "Executed"
                                                          ELSE "ExecutionFailed",
                               ![t].execution_result = {o}]
  BY <1>1 DEF RecordExecution
<1>3. /\ inflight' = [inflight EXCEPT ![t][p] = @ - 1]
      /\ tasks \in [TaskId -> TaskState]
  BY DEF RecordExecution, IInv, TypeOK
<1> DEFINE s == IF o.success THEN "Executed" ELSE "ExecutionFailed"
           rec == [tasks[t] EXCEPT !.status = s, !.execution_result = {o}]
<1>4. tasks' = [tasks EXCEPT ![t] = rec]
  BY <1>2, <1>3
<1>5. /\ s \in TaskStatus \ {"HeldForManualApproval"}
      /\ tasks'[t].status = s /\ tasks'[t].age = tasks[t].age
      /\ \A u \in TaskId \ {t} : tasks'[u] = tasks[u]
  <2>1. tasks[t] \in TaskState
    BY <1>3
  <2>2. rec.status = s /\ rec.age = tasks[t].age
    BY <2>1 DEF TaskState
  <2>3. s \in TaskStatus \ {"HeldForManualApproval"}
    BY DEF TaskStatus
  <2> HIDE DEF rec, s
  <2> QED
    BY <1>3, <1>4, <2>2, <2>3
<1> HIDE DEF s
<1>6. HeldPlan' = [HeldPlan EXCEPT ![t] = {}] /\ Ripe' = Ripe
  BY <1>1, <1>5, ReleasesHold
<1>7. Contract!Finish(t, p)
  BY <1>1, <1>3, <1>6 DEF Contract!Finish, HeldPlan, Ripe
<1> QED BY <1>7 DEF Contract!Next

LEMMA TickContract ==
  ASSUME IInv, Tick
  PROVE  Contract!Next
<1>1. /\ tasks \in [TaskId -> TaskState]
      /\ inflight' = inflight
      /\ tasks' = [t \in TaskId |->
                     IF Known(t) /\ tasks[t].age < Timeout
                     THEN [tasks[t] EXCEPT !.age = @ + 1]
                     ELSE tasks[t]]
  BY DEF IInv, TypeOK, Tick
<1>2. \A t \in TaskId : /\ tasks'[t].status = tasks[t].status
                        /\ tasks'[t].plan = tasks[t].plan
                        /\ tasks[t].age = Timeout => tasks'[t].age = Timeout
  BY <1>1 DEF TaskState
<1>3. HeldPlan' = HeldPlan
  BY <1>2 DEF HeldPlan, Held
<1>4. Ripe \subseteq Ripe' /\ Ripe' \in SUBSET TaskId
  BY <1>2 DEF Ripe, Known
<1>5. Contract!Ripen
  BY <1>1, <1>3, <1>4 DEF Contract!Ripen, HeldPlan, Ripe
<1> QED BY <1>5 DEF Contract!Next

LEMMA RestartContract ==
  ASSUME Restart
  PROVE  Contract!Next
<1>1. Contract!Restart
  BY DEF Restart, Contract!Restart, Contract!Init, Absent, Held, Known
<1> QED BY <1>1 DEF Contract!Next

LEMMA NextContract ==
  ASSUME Timeout > 0
  PROVE  IInv /\ [Next]_vars => [Contract!Next]_(Contract!vars)
<1> SUFFICES ASSUME IInv, [Next]_vars PROVE [Contract!Next]_(Contract!vars)
  OBVIOUS
<1>1. CASE \E t \in TaskId : \E p \in Plan, acked \in Acked(t) : SubmitDelegable(t, p, acked)
  BY <1>1, SubmitDelegableContract DEF Acked
<1>2. CASE \E t \in TaskId, p \in Plan : SubmitCritical(t, p)
  BY <1>2, SubmitCriticalContract
<1>3. CASE \E t \in TaskId : \E acked \in Acked(t) : OwnerApproves(t, acked)
  BY <1>3, OwnerApprovesContract DEF Acked
<1>4. CASE \E t \in TaskId : OwnerRejects(t)
  BY <1>4, OwnerRejectsContract
<1>5. CASE CheckTimeouts
  BY <1>5, CheckTimeoutsContract
<1>6. CASE \E t \in TaskId, p \in Plan : RecordExecution(t, p)
  BY <1>6, RecordExecutionContract
<1>7. CASE Tick
  BY <1>7, TickContract
<1>8. CASE Restart
  BY <1>8, RestartContract
<1>9. CASE UNCHANGED vars
  BY <1>9 DEF vars, Contract!vars, Held, Known
<1> QED
  BY <1>1, <1>2, <1>3, <1>4, <1>5, <1>6, <1>7, <1>8, <1>9 DEF Next

\* The daemon's table implements the Gatekeeper's contract (GatekeeperContract):
\* critical plans run when the owner grants the hold on them, all others only
\* under an id whose delegation window is over.  An operator who sets the window
\* to 0 gives that up: a plan is then run by the very step that submits it.
THEOREM ImplementsContract ==
  ASSUME Timeout > 0
  PROVE  Spec => GatekeeperSpec
<1>1. Init => Contract!Init
  BY InitContract
<1>2. IInv /\ [Next]_vars => [Contract!Next]_(Contract!vars)
  BY NextContract
<1> QED
  BY <1>1, <1>2, Invariance, PTL DEF Spec, GatekeeperSpec, Contract!Spec

-----------------------------------------------------------------------------
(* Critical plans start only when the owner approves them *)

\* A step that starts a plan of Spawn starts the chosen one of a task in due.
LEMMA SpawnStarts ==
  ASSUME TypeOK, NEW due, NEW chosen, Spawn(due, chosen),
         NEW t \in TaskId, NEW p \in Plan, inflight'[t][p] > inflight[t][p]
  PROVE  t \in due /\ chosen[t] = p
<1>1. inflight[t] \in [Plan -> Nat]
  BY DEF TypeOK
<1>2. inflight'[t] = IF t \in due THEN [inflight[t] EXCEPT ![chosen[t]] = @ + 1]
                                  ELSE inflight[t]
  BY DEF Spawn
<1>3. t \in due
  BY <1>1, <1>2
<1>4. chosen[t] = p
  <2> SUFFICES ASSUME chosen[t] # p PROVE FALSE
    OBVIOUS
  <2>1. inflight'[t][p] = inflight[t][p]
    BY <1>1, <1>2, <1>3
  <2> QED BY <1>1, <2>1
<1> QED BY <1>3, <1>4

\* The body of CriticalRunsOnlyOnApproval.
CriticalStartIsApproval ==
  \A t \in TaskId, p \in Plan :
    /\ decide_policy(p) = "NonDelegable"
    /\ inflight'[t][p] > inflight[t][p]
    => /\ Held(t) /\ tasks[t].plan = p
       /\ ~Held(t)'

LEMMA NextStartsCritical == IInv /\ [Next]_vars => CriticalStartIsApproval
<1> SUFFICES ASSUME IInv, [Next]_vars,
                    NEW t \in TaskId, NEW p \in Plan,
                    decide_policy(p) = "NonDelegable",
                    inflight'[t][p] > inflight[t][p]
             PROVE  Held(t) /\ tasks[t].plan = p /\ ~Held(t)'
  BY DEF CriticalStartIsApproval
<1>1. TypeOK /\ inflight \in [TaskId -> [Plan -> Nat]]
  BY DEF IInv, TypeOK
<1>2. inflight' # inflight
  BY <1>1
<1>3. ASSUME NEW u \in TaskId, NEW q \in Plan, NEW acked \in Acked(u),
             SubmitDelegable(u, q, acked)
      PROVE  FALSE
  <2> DEFINE due == IF apply_gatekeeper_policy("Delegable", EntryOrInsert(u, q).age)
                          = "AutoApproved" /\ acked THEN {u} ELSE {}
             chosen == [i \in {u} |-> q]
  <2>1. /\ Spawn(due, chosen) /\ decide_policy(q) = "Delegable"
        /\ due \in SUBSET {u}
    BY <1>3 DEF SubmitDelegable
  <2>2. \A v \in due : chosen[v] = q
    BY <2>1
  <2> HIDE DEF due, chosen
  <2>3. t \in due /\ chosen[t] = p
    BY <1>1, <2>1, <2>2, SpawnStarts
  <2> QED BY <2>1, <2>2, <2>3
<1>4. ASSUME NEW u \in TaskId, NEW acked \in Acked(u), OwnerApproves(u, acked)
      PROVE  Held(t) /\ tasks[t].plan = p /\ ~Held(t)'
  <2> DEFINE due == IF acked THEN {u} ELSE {}
             chosen == [i \in {u} |-> tasks[u].plan]
  <2>1. /\ Held(u) /\ Spawn(due, chosen) /\ due \in SUBSET {u}
        /\ tasks' = [tasks EXCEPT ![u].status = "Pending"]
    BY <1>4 DEF OwnerApproves
  <2>2. \A v \in due : chosen[v] = tasks[u].plan
    BY <2>1
  <2>3. tasks[u].plan \in Plan /\ tasks[u] \in TaskState
        /\ tasks \in [TaskId -> TaskState]
    BY <2>1 DEF IInv, TypeOK, DecisionMatchesPlan, Known, Held
  <2>4. tasks'[u].status = "Pending"
    BY <2>1, <2>3 DEF TaskState
  <2> HIDE DEF due, chosen
  <2>5. t \in due /\ chosen[t] = p
    BY <1>1, <2>1, <2>2, <2>3, SpawnStarts
  <2> QED BY <2>1, <2>2, <2>4, <2>5 DEF Held
<1>5. ASSUME CheckTimeouts PROVE FALSE
  <2> DEFINE chosen == [u \in Due |-> tasks[u].plan]
  <2>1. Spawn(Due, chosen)
    BY <1>5 DEF CheckTimeouts
  <2>2. Due \in SUBSET TaskId
    BY DEF Due
  <2>3. \A u \in Due : chosen[u] = tasks[u].plan /\ chosen[u] \in Plan \ Critical
    BY DueIsRipe
  <2> HIDE DEF chosen
  <2>4. t \in Due /\ chosen[t] = p
    BY <1>1, <2>1, <2>2, <2>3, SpawnStarts
  <2> QED BY <2>3, <2>4 DEF Critical
<1>6. ASSUME NEW u \in TaskId, NEW q \in Plan, RecordExecution(u, q)
      PROVE  FALSE
  <2>1. inflight' = [inflight EXCEPT ![u][q] = @ - 1]
    BY <1>6 DEF RecordExecution
  <2>2. inflight[t] \in [Plan -> Nat] /\ inflight[u] \in [Plan -> Nat]
    BY <1>1
  <2>3. inflight'[t][p] \in {inflight[t][p], inflight[t][p] - 1}
    BY <1>1, <2>1, <2>2
  <2> QED BY <2>2, <2>3
<1>7. ASSUME Restart PROVE FALSE
  <2>1. inflight'[t][p] = 0 /\ inflight[t][p] \in Nat
    BY <1>1, <1>7 DEF Restart
  <2> QED BY <2>1
<1> QED
  BY <1>2, <1>3, <1>4, <1>5, <1>6, <1>7
  DEF Next, vars, SubmitCritical, OwnerRejects, Tick

\* A critical plan starts only in a step in which the owner's approval takes that
\* very plan out of the held state.
THEOREM CriticalNeedsOwner == Spec => CriticalRunsOnlyOnApproval
<1>1. IInv /\ [Next]_vars => [CriticalStartIsApproval]_vars
  BY NextStartsCritical
<1> QED
  BY <1>1, Invariance, PTL
  DEF Spec, CriticalRunsOnlyOnApproval, CriticalStartIsApproval
=============================================================================
