---------------------------- MODULE Executor_proofs ----------------------------
(***************************************************************************)
(* Executing a plan command by command returns an outcome that             *)
(* execute_plan allows, for any executions, plans and allowlists: what     *)
(* PendingPlans relies on when it makes an execution a single step.        *)
(***************************************************************************)
EXTENDS Executor, Integers, TLAPS

USE JobAssumption, ProgramAssumption

\* The commands tried so far ended as execute_approved_task allows.
ResultsArePossible ==
  \A j \in Job :
    /\ results[j] \in Seq(BOOLEAN)
    /\ Len(results[j]) <= Len(plan[j])
    /\ \A i \in 1..Len(results[j]) : results[j][i] \in execute_approved_task(plan[j][i])

\* What runs is a command that gets past parsing and the lock.
RunningReachSpawn == \A j \in running : More(j) /\ ReachesSpawn(Cmd(j))

EInv ==
  /\ running \in SUBSET Job
  /\ results \in [Job -> Seq(BOOLEAN)]
  /\ outcome \in [Job -> SUBSET Outcome]
  /\ ResultsArePossible
  /\ RunningReachSpawn
  /\ OutcomeIsPossible

-----------------------------------------------------------------------------

LEMMA InitEInv == Init => EInv
  BY DEF Init, EInv, ResultsArePossible, RunningReachSpawn, OutcomeIsPossible

\* A command that ends as execute_approved_task allows extends the results.
LEMMA EndedKeeps ==
  ASSUME EInv, NEW j \in Job, More(j),
         NEW ok \in execute_approved_task(Cmd(j)), Ended(j, ok),
         running' \in {running, running \ {j}}, j \notin running',
         UNCHANGED outcome
  PROVE  EInv'
<1>1. /\ results[j] \in Seq(BOOLEAN) /\ ok \in BOOLEAN
      /\ results \in [Job -> Seq(BOOLEAN)]
      /\ results' = [results EXCEPT ![j] = Append(results[j], ok)]
  BY DEF EInv, Ended, execute_approved_task
<1>2. /\ results' \in [Job -> Seq(BOOLEAN)]
      /\ results'[j] = Append(results[j], ok)
      /\ \A k \in Job \ {j} : results'[k] = results[k]
  BY <1>1
<1>3. ResultsArePossible'
  <2> SUFFICES ASSUME NEW k \in Job
               PROVE  /\ results'[k] \in Seq(BOOLEAN)
                      /\ Len(results'[k]) <= Len(plan[k])
                      /\ \A i \in 1..Len(results'[k]) :
                           results'[k][i] \in execute_approved_task(plan[k][i])
    BY DEF ResultsArePossible
  <2>1. CASE k # j
    BY <1>2, <2>1 DEF EInv, ResultsArePossible
  <2>2. CASE k = j
    <3>1. /\ Len(results'[j]) = Len(results[j]) + 1
          /\ \A i \in 1..Len(results[j]) : results'[j][i] = results[j][i]
          /\ results'[j][Len(results[j]) + 1] = ok
      BY <1>1, <1>2
    <3>2. Len(results[j]) \in Nat /\ Len(plan[j]) \in Nat
      BY <1>1
    <3>3. Len(results[j]) + 1 <= Len(plan[j])
      BY <3>2 DEF More
    <3>4. ASSUME NEW i \in 1..Len(results'[j])
          PROVE  results'[j][i] \in execute_approved_task(plan[j][i])
      <4>1. CASE i \in 1..Len(results[j])
        BY <3>1, <4>1 DEF EInv, ResultsArePossible
      <4>2. CASE i = Len(results[j]) + 1
        BY <3>1, <4>2 DEF Cmd, Current
      <4> QED BY <3>1, <3>2, <4>1, <4>2
    <3> QED BY <1>2, <2>2, <3>1, <3>3, <3>4
  <2> QED BY <2>1, <2>2
<1>4. RunningReachSpawn'
  BY <1>2 DEF EInv, RunningReachSpawn, More, Cmd, Current
<1> QED
  BY <1>2, <1>3, <1>4 DEF EInv, OutcomeIsPossible

\* The results of all commands make an outcome of the plan.
LEMMA ReturnKeeps ==
  ASSUME EInv, NEW j \in Job, Return(j)
  PROVE  EInv'
<1> DEFINE r == results[j]
<1>1. /\ r \in Seq(BOOLEAN) /\ plan[j] \in Seq(Command)
      /\ Len(r) = Len(plan[j])
      /\ \A i \in 1..Len(r) : r[i] \in execute_approved_task(plan[j][i])
  BY DEF EInv, ResultsArePossible, Return, More
<1>2. r \in [1..Len(plan[j]) -> BOOLEAN]
  BY <1>1
<1> HIDE DEF r
<1>3. OutcomeOf(r) \in execute_plan(plan[j])
  BY <1>1, <1>2 DEF execute_plan
<1>4. OutcomeOf(r) \in Outcome
  BY DEF OutcomeOf, Outcome
<1>5. outcome' = [outcome EXCEPT ![j] = {OutcomeOf(r)}]
  BY DEF Return, r
<1>6. /\ outcome' \in [Job -> SUBSET Outcome] /\ OutcomeIsPossible'
  BY <1>3, <1>4, <1>5 DEF EInv, OutcomeIsPossible
<1> QED
  BY <1>6 DEF EInv, Return, ResultsArePossible, RunningReachSpawn, More, Cmd, Current

LEMMA StepKeeps ==
  ASSUME EInv, NEW j \in Job, Step(j)
  PROVE  EInv'
<1>1. CASE Block(j)
  BY <1>1, EndedKeeps DEF Block, Locked, execute_approved_task
<1>2. CASE FailToLoad(j)
  BY <1>2, EndedKeeps DEF FailToLoad, Locked, execute_approved_task
<1>3. CASE Refuse(j)
  BY <1>3, EndedKeeps DEF Refuse, Locked, execute_approved_task
<1>4. CASE SpawnCommand(j)
  BY <1>4 DEF SpawnCommand, EInv, ResultsArePossible, RunningReachSpawn,
              OutcomeIsPossible, More, Cmd, Current, Locked
<1>5. CASE Exit(j)
  <2>1. PICK ok \in BOOLEAN : Ended(j, ok)
    BY <1>5 DEF Exit
  <2>2. More(j) /\ ok \in execute_approved_task(Cmd(j))
    BY <1>5 DEF Exit, EInv, RunningReachSpawn, execute_approved_task
  <2> QED BY <1>5, <2>1, <2>2, EndedKeeps DEF Exit
<1>6. CASE Return(j)
  BY <1>6, ReturnKeeps
<1> QED
  BY <1>1, <1>2, <1>3, <1>4, <1>5, <1>6 DEF Step

LEMMA NextEInv == EInv /\ [Next]_vars => EInv'
<1> SUFFICES ASSUME EInv, [Next]_vars PROVE EInv'
  OBVIOUS
<1>1. CASE \E j \in Job : Step(j)
  BY <1>1, StepKeeps
<1>2. CASE BeginEdit \/ EndEdit \/ SetLock \/ UNCHANGED vars
  BY <1>2 DEF BeginEdit, EndEdit, SetLock, vars, EInv, ResultsArePossible,
              RunningReachSpawn, OutcomeIsPossible, More, Cmd, Current
<1> QED
  BY <1>1, <1>2 DEF Next

-----------------------------------------------------------------------------

\* Whatever happens to the allowlist and the daemon's lock meanwhile, an execution
\* returns an outcome execute_plan allows.
THEOREM OutcomesArePossible == Spec => []OutcomeIsPossible
<1>1. EInv => OutcomeIsPossible
  BY DEF EInv
<1> QED
  BY <1>1, InitEInv, NextEInv, PTL DEF Spec

\* The type of the executor's state: EInv and what the file and the lock can hold.
THEOREM TypeCorrectness == Spec => []TypeOK
<1> DEFINE Surroundings == allowlist \in SUBSET SUBSET Program /\ armed \in BOOLEAN
<1>1. Init => Surroundings
  BY DEF Init
<1>2. Surroundings /\ [Next]_vars => Surroundings'
  BY DEF Next, Step, Block, FailToLoad, Refuse, SpawnCommand, Exit, Return,
         BeginEdit, EndEdit, SetLock, vars
<1>3. EInv /\ Surroundings => TypeOK
  BY DEF EInv, ResultsArePossible, TypeOK
<1> HIDE DEF Surroundings
<1> QED
  BY <1>1, <1>2, <1>3, InitEInv, NextEInv, PTL DEF Spec

-----------------------------------------------------------------------------
(* Every step is a step of the contract *)

\* An execution that has returned has tried all its commands.
ReturnedIsDone == \A j \in Job : outcome[j] # {} => ~More(j)

LEMMA NextReturnedIsDone ==
  ASSUME EInv, ReturnedIsDone, [Next]_vars
  PROVE  ReturnedIsDone'
<1> SUFFICES ASSUME NEW j \in Job, outcome'[j] # {}
             PROVE  ~More(j)'
  BY DEF ReturnedIsDone
<1>1. CASE outcome'[j] = outcome[j]
  <2>1. ~More(j)
    BY <1>1 DEF ReturnedIsDone
  <2>2. results'[j] = results[j]
    <3>1. ASSUME NEW k \in Job, Step(k)
          PROVE  results' = results \/ (More(k) /\ \E ok \in BOOLEAN : Ended(k, ok))
      BY <3>1 DEF Step, Block, FailToLoad, Refuse, SpawnCommand, Exit, Return, EInv,
                  RunningReachSpawn
    <3>2. ASSUME NEW k \in Job, NEW ok \in BOOLEAN, More(k), Ended(k, ok)
          PROVE  results'[j] = results[j]
      BY <2>1, <3>2 DEF Ended, EInv
    <3> QED
      BY <3>1, <3>2 DEF Next, BeginEdit, EndEdit, SetLock, vars
  <2> QED
    BY <2>1, <2>2 DEF More
<1>2. CASE outcome'[j] # outcome[j]
  <2>1. PICK k \in Job : Return(k)
    BY <1>2 DEF Next, Step, Block, FailToLoad, Refuse, SpawnCommand, Exit, BeginEdit,
                EndEdit, SetLock, vars
  <2>2. k = j
    BY <1>2, <2>1 DEF Return, EInv
  <2> QED
    BY <2>1, <2>2 DEF Return, More
<1> QED
  BY <1>1, <1>2

LEMMA StepContract ==
  ASSUME EInv, ReturnedIsDone, NEW j \in Job, Step(j)
  PROVE  [Contract!Next]_(Contract!vars)
<1> USE DEF Contract!vars
<1>1. CASE Block(j) \/ FailToLoad(j) \/ Refuse(j)
  BY <1>1 DEF Block, FailToLoad, Refuse
<1>2. CASE SpawnCommand(j)
  <2>1. /\ More(j) /\ j \notin running /\ ReachesSpawn(Cmd(j))
        /\ running' = running \cup {j} /\ outcome' = outcome
    BY <1>2 DEF SpawnCommand, Locked
  <2>2. Current(j) \in DOMAIN plan[j]
    BY <2>1 DEF EInv, More, Current
  <2>3. outcome[j] = {}
    BY <2>1 DEF ReturnedIsDone
  <2>4. Contract!StartProcess(j)
    BY <2>1, <2>2, <2>3 DEF Contract!StartProcess, Cmd
  <2> QED
    BY <2>4 DEF Contract!Next
<1>3. CASE Exit(j)
  BY <1>3 DEF Exit, Contract!EndProcess, Contract!Next
<1>4. CASE Return(j)
  <2> DEFINE o == OutcomeOf(results[j])
  <2>1. outcome' = [outcome EXCEPT ![j] = {o}]
    BY <1>4 DEF Return
  <2>2. OutcomeIsPossible' /\ outcome'[j] = {o}
    BY <1>4, <2>1, ReturnKeeps DEF EInv
  <2> HIDE DEF o
  <2>3. o \in execute_plan(plan[j])
    BY <2>2 DEF OutcomeIsPossible
  <2>4. Contract!Return(j)
    BY <1>4, <2>1, <2>3 DEF Return, Contract!Return
  <2> QED
    BY <2>4 DEF Contract!Next
<1> QED
  BY <1>1, <1>2, <1>3, <1>4 DEF Step

\* Command by command, with a file and locks that change, an execution is one of
\* ExecutionContract: it returns once, with an outcome execute_plan allows, and has a
\* process only before (main.rs, execute_plan).
THEOREM ImplementsContract == Spec => ExecutionSpec
<1>1. Init => Contract!Init /\ ReturnedIsDone
  BY DEF Init, Contract!Init, ReturnedIsDone
<1>2. EInv /\ ReturnedIsDone /\ [Next]_vars => [Contract!Next]_(Contract!vars)
  <2>1. BeginEdit \/ EndEdit \/ SetLock \/ UNCHANGED vars => UNCHANGED Contract!vars
    BY DEF BeginEdit, EndEdit, SetLock, vars, Contract!vars
  <2> QED
    BY <2>1, StepContract DEF Next
<1> QED
  BY <1>1, <1>2, InitEInv, NextEInv, NextReturnedIsDone, PTL
  DEF Spec, ExecutionSpec, Contract!Spec

-----------------------------------------------------------------------------
(* Executions are short *)

\* What execution j may still do: two steps for each command that is left, one less
\* when it has been spawned, and the return.
Budget(j) ==
  2 * (Len(plan[j]) - Len(results[j])) + (IF outcome[j] = {} THEN 1 ELSE 0)
    - (IF j \in running THEN 1 ELSE 0)

BudgetIsSpent ==
  \A j \in Job : /\ Budget(j)' <= Budget(j)
                 /\ Step(j) => Budget(j)' < Budget(j)

LEMMA BudgetType ==
  ASSUME EInv, NEW j \in Job
  PROVE  Budget(j) \in 0..2 * Len(plan[j]) + 1
<1> DEFINE R == Len(results[j])
           P == Len(plan[j])
           owed == IF outcome[j] = {} THEN 1 ELSE 0
           spawned == IF j \in running THEN 1 ELSE 0
<1>1. R \in Nat /\ P \in Nat /\ R <= P /\ (spawned = 1 => R < P)
  BY DEF EInv, ResultsArePossible, RunningReachSpawn, More
<1>2. owed \in {0, 1} /\ spawned \in {0, 1}
  OBVIOUS
<1>3. Budget(j) = 2 * (P - R) + owed - spawned
  BY DEF Budget
<1> HIDE DEF R, P, owed, spawned
<1>4. 2 * (P - R) + owed - spawned \in 0..2 * P + 1
  BY <1>1, <1>2
<1> QED
  BY <1>3, <1>4 DEF P

\* A step of one execution spends of its own budget and leaves the others'.
LEMMA StepSpends ==
  ASSUME EInv, NEW k \in Job, Step(k)
  PROVE  BudgetIsSpent
<1> SUFFICES ASSUME NEW j \in Job
             PROVE  /\ Budget(j)' <= Budget(j)
                    /\ j = k => Budget(j)' < Budget(j)
                    /\ Step(j) => Budget(j)' < Budget(j)
  BY DEF BudgetIsSpent
<1> DEFINE R == Len(results[j])
           P == Len(plan[j])
<1>1. R \in Nat /\ P \in Nat
  BY DEF EInv, ResultsArePossible
<1>2. ASSUME NEW i \in Job, Step(i)
      PROVE  /\ i = j => \/ /\ Len(results'[j]) = R + 1 /\ outcome'[j] = outcome[j]
                            /\ ~(j \in running')
                         \/ /\ results'[j] = results[j] /\ outcome'[j] = outcome[j]
                            /\ ~(j \in running) /\ j \in running'
                         \/ /\ results'[j] = results[j] /\ outcome[j] = {}
                            /\ outcome'[j] # {} /\ (j \in running <=> j \in running')
             /\ i # j => /\ results'[j] = results[j] /\ outcome'[j] = outcome[j]
                         /\ (j \in running <=> j \in running')
  <2>1. ASSUME NEW ok \in BOOLEAN, Ended(i, ok)
        PROVE  /\ i = j => Len(results'[j]) = R + 1
               /\ i # j => results'[j] = results[j]
    BY <2>1 DEF Ended, EInv
  <2>2. CASE Block(i) \/ FailToLoad(i) \/ Refuse(i)
    BY <2>1, <2>2 DEF Block, FailToLoad, Refuse
  <2>3. CASE SpawnCommand(i)
    BY <2>3 DEF SpawnCommand
  <2>4. CASE Exit(i)
    BY <2>1, <2>4 DEF Exit
  <2>5. CASE Return(i)
    <3>1. /\ results' = results /\ running' = running /\ outcome[i] = {}
          /\ outcome' = [outcome EXCEPT ![i] = {OutcomeOf(results[i])}]
      BY <2>5 DEF Return
    <3> QED
      BY <3>1 DEF EInv
  <2> QED
    BY <1>2, <2>2, <2>3, <2>4, <2>5 DEF Step
<1>3. ASSUME NEW i \in Job, Step(i)
      PROVE  /\ Budget(j)' <= Budget(j)
             /\ i = j => Budget(j)' < Budget(j)
  <2> DEFINE Q == Len(results'[j])
             o1 == IF outcome[j] = {} THEN 1 ELSE 0
             o2 == IF outcome'[j] = {} THEN 1 ELSE 0
             s1 == IF j \in running THEN 1 ELSE 0
             s2 == IF j \in running' THEN 1 ELSE 0
  <2>1. Budget(j) = 2 * (P - R) + o1 - s1 /\ Budget(j)' = 2 * (P - Q) + o2 - s2
    BY DEF Budget
  <2>2. o1 \in {0, 1} /\ o2 \in {0, 1} /\ s1 \in {0, 1} /\ s2 \in {0, 1}
    OBVIOUS
  <2>3. /\ i = j => \/ Q = R + 1 /\ o2 = o1 /\ s2 = 0
                    \/ Q = R /\ o2 = o1 /\ s1 = 0 /\ s2 = 1
                    \/ Q = R /\ o1 = 1 /\ o2 = 0 /\ s2 = s1
        /\ i # j => Q = R /\ o2 = o1 /\ s2 = s1
    BY <1>2, <1>3
  <2> HIDE DEF R, P, Q, o1, o2, s1, s2
  <2>4. /\ 2 * (P - Q) + o2 - s2 <= 2 * (P - R) + o1 - s1
        /\ i = j => 2 * (P - Q) + o2 - s2 < 2 * (P - R) + o1 - s1
    <3>1. P \in Nat /\ R \in Nat /\ P - R \in Int
      BY <1>1
    <3>2. CASE Q = R + 1 /\ o2 = o1 /\ s2 = 0
      BY <2>2, <3>1, <3>2
    <3>3. CASE Q = R /\ o2 = o1 /\ s1 = 0 /\ s2 = 1
      BY <2>2, <3>1, <3>3
    <3>4. CASE Q = R /\ o1 = 1 /\ o2 = 0 /\ s2 = s1
      BY <2>2, <3>1, <3>4
    <3>5. CASE i # j /\ Q = R /\ o2 = o1 /\ s2 = s1
      BY <2>2, <3>1, <3>5
    <3> QED
      BY ONLY <2>3, <3>2, <3>3, <3>4, <3>5
  <2> QED
    BY <2>1, <2>4
<1> QED
  BY <1>3

\* No execution goes on for ever: every step it takes uses up a part of a budget of
\* at most twice its commands and one, and no edit of the allowlist, no lock and no
\* other execution gives any back (main.rs, execute_plan; EveryExecutionReturns adds
\* that it does take its steps).
THEOREM ExecutionsAreShort ==
  Spec => /\ [](\A j \in Job : Budget(j) \in 0..2 * Len(plan[j]) + 1)
          /\ [][BudgetIsSpent]_vars
<1>1. EInv => \A j \in Job : Budget(j) \in 0..2 * Len(plan[j]) + 1
  BY BudgetType
<1>2. EInv /\ [Next]_vars => [BudgetIsSpent]_vars
  <2> SUFFICES ASSUME EInv, Next PROVE BudgetIsSpent
    OBVIOUS
  <2>1. CASE \E k \in Job : Step(k)
    BY <2>1, StepSpends
  <2>2. CASE ~ (\E k \in Job : Step(k))
    <3>1. UNCHANGED <<running, results, outcome>>
      BY <2>2 DEF Next, BeginEdit, EndEdit, SetLock
    <3>2. ASSUME NEW j \in Job PROVE Budget(j)' = Budget(j) /\ Budget(j) \in Int
      BY <3>1, BudgetType DEF Budget
    <3> QED
      BY <2>2, <3>2 DEF BudgetIsSpent
  <2> QED
    BY <2>1, <2>2
<1> QED
  BY <1>1, <1>2, InitEInv, NextEInv, PTL DEF Spec
=============================================================================
