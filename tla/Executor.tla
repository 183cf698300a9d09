------------------------------- MODULE Executor -------------------------------
(***************************************************************************)
(* Executions of approved plans, command by command (execute_plan in       *)
(* main.rs, execute_approved_task in the gatekeeper daemon's executor.rs), *)
(* beside everything that can change under them: the other executions, the *)
(* owner's safety lock and config/executor_allowlist.toml, a file that is  *)
(* edited by hand (the admin panel writes another one, see AdminPanel).    *)
(*                                                                         *)
(* PendingPlans treats an execution as one step that returns any outcome   *)
(* in execute_plan(plan); here it takes one or two steps per command.      *)
(***************************************************************************)
EXTENDS PlanPolicy

CONSTANTS
  Job,      \* executions in flight
  Program,  \* programs commands may name
  plan,     \* [Job -> Seq(Command)]
  program   \* [Job -> Seq(Program)]: the first token of each command

ASSUME JobAssumption == plan \in [Job -> Seq(Command)]
ASSUME ProgramAssumption ==
  program \in [Job -> Seq(Program)] /\ \A j \in Job : Len(program[j]) = Len(plan[j])

VARIABLES
  allowlist,  \* the file: {} while it is being written, else {what it allows}
  armed,      \* the daemon's own safety lock; executions do not read it (executor.rs:62)
  running,    \* the executions whose current command has been spawned
  results,    \* [Job -> Seq(BOOLEAN)]: how the commands so far ended
  outcome     \* [Job -> SUBSET Outcome]: what execute_plan returned, if it did

vars == <<allowlist, armed, running, results, outcome>>

TypeOK ==
  /\ allowlist \in SUBSET SUBSET Program
  /\ armed \in BOOLEAN
  /\ running \in SUBSET Job
  /\ results \in [Job -> Seq(BOOLEAN)]
  /\ \A j \in Job : Len(results[j]) <= Len(plan[j])
  /\ outcome \in [Job -> SUBSET Outcome]

-----------------------------------------------------------------------------
(* One command *)

\* The file cannot be parsed: it has been truncated and not yet written.
Torn == allowlist = {}

\* The command execution j is at, and the program it names.
More(j)    == Len(results[j]) < Len(plan[j])
Current(j) == Len(results[j]) + 1
Cmd(j)     == plan[j][Current(j)]
Prog(j)    == program[j][Current(j)]

\* Mutant: the lock consulted is the daemon's.
LockedByDaemon(j) == ~(Cmd(j).parses /\ evaluate_for_command(armed, Cmd(j)) = "Allow")

\* The command does not get as far as the allowlist; it gets past it.
Locked(j) == ~ReachesSpawn(Cmd(j))
Allowed(j) == \E listed \in allowlist : Prog(j) \in listed

Ended(j, ok) == results' = [results EXCEPT ![j] = Append(@, ok)]

\* The line does not parse, or the lock blocks it: the allowlist is not read.
Block(j) ==
  /\ More(j) /\ j \notin running
  /\ Locked(j)
  /\ Ended(j, FALSE)
  /\ UNCHANGED <<allowlist, armed, running, outcome>>

\* Mutant: it is tried again until it can be read.
WaitToLoad(j) ==
  /\ More(j) /\ j \notin running
  /\ ~Locked(j) /\ Torn
  /\ UNCHANGED vars

\* The allowlist, read anew for this command, cannot be read.
FailToLoad(j) ==
  /\ More(j) /\ j \notin running
  /\ ~Locked(j) /\ Torn
  /\ Ended(j, FALSE)
  /\ UNCHANGED <<allowlist, armed, running, outcome>>

\* It does not list the program.
Refuse(j) ==
  /\ More(j) /\ j \notin running
  /\ ~Locked(j) /\ ~Torn /\ ~Allowed(j)
  /\ Ended(j, FALSE)
  /\ UNCHANGED <<allowlist, armed, running, outcome>>

SpawnCommand(j) ==
  /\ More(j) /\ j \notin running
  /\ ~Locked(j) /\ ~Torn /\ Allowed(j)
  /\ running' = running \cup {j}
  /\ UNCHANGED <<allowlist, armed, results, outcome>>

\* Mutant: the command is given up as failed and its process left running.
ExitKeepsProcess(j) ==
  /\ j \in running
  /\ \E ok \in BOOLEAN : Ended(j, ok)
  /\ UNCHANGED <<allowlist, armed, running, outcome>>

\* The process ends, well or not (or could not be started at all).
Exit(j) ==
  /\ j \in running
  /\ running' = running \ {j}
  /\ \E ok \in BOOLEAN : Ended(j, ok)
  /\ UNCHANGED <<allowlist, armed, outcome>>

\* Mutant: success is that of the last command.
ReturnLast(j) ==
  /\ ~More(j) /\ j \notin running /\ outcome[j] = {}
  /\ outcome' = [outcome EXCEPT ![j] = {OutcomeOf(<<results[j][Len(results[j])]>>)}]
  /\ UNCHANGED <<allowlist, armed, running, results>>

\* All commands were tried: execute_plan returns.
Return(j) ==
  /\ ~More(j) /\ j \notin running /\ outcome[j] = {}
  /\ outcome' = [outcome EXCEPT ![j] = {OutcomeOf(results[j])}]
  /\ UNCHANGED <<allowlist, armed, running, results>>

-----------------------------------------------------------------------------
(* What changes under the executions *)

\* The file is edited in place: it is truncated first, written next.
BeginEdit ==
  /\ ~Torn
  /\ allowlist' = {}
  /\ UNCHANGED <<armed, running, results, outcome>>

EndEdit ==
  /\ Torn
  /\ \E listed \in SUBSET Program : allowlist' = {listed}
  /\ UNCHANGED <<armed, running, results, outcome>>

\* safety_arm and safety_disarm set the daemon's lock.
SetLock ==
  /\ armed' = ~armed
  /\ UNCHANGED <<allowlist, running, results, outcome>>

-----------------------------------------------------------------------------

Init ==
  /\ \E listed \in SUBSET Program : allowlist = {listed}
  /\ armed = TRUE
  /\ running = {}
  /\ results = [j \in Job |-> <<>>]
  /\ outcome = [j \in Job |-> {}]

Step(j) ==
  \/ Block(j) \/ FailToLoad(j) \/ Refuse(j) \/ SpawnCommand(j)
  \/ Exit(j)
  \/ Return(j)

Next == \/ \E j \in Job : Step(j)
        \/ BeginEdit \/ EndEdit
        \/ SetLock

Spec == Init /\ [][Next]_vars

\* The executor goes on, and a process it has spawned ends.
FairSpec == Spec /\ \A j \in Job : WF_vars(Step(j))

-----------------------------------------------------------------------------
(* Properties *)

\* Whatever happens to the file and the lock while it runs, an execution returns
\* an outcome that execute_plan of PlanPolicy allows for its plan: no failed
\* command is forgotten, and none the lock blocks has run.
OutcomeIsPossible == \A j \in Job : outcome[j] \subseteq execute_plan(plan[j])

\* An execution behaves as ExecutionContract says, whatever happens to the file and
\* the lock meanwhile: who waits for it sees one process at a time and then, once,
\* an outcome of its plan.
Contract ==
  INSTANCE ExecutionContract WITH
    possible <- [j \in Job |-> execute_plan(plan[j])],
    Runnable <- {j \in Job : \E i \in DOMAIN plan[j] : ReachesSpawn(plan[j][i])},
    returned <- outcome,
    busy     <- running

ExecutionSpec == Contract!Spec

\* Every execution comes to an end, also when the allowlist is never whole again.
EveryExecutionReturns == \A j \in Job : <>(outcome[j] # {})
=============================================================================
