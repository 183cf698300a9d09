------------------------------ MODULE PlanPolicy ------------------------------
(***************************************************************************)
(* What the Gatekeeper decides about an execution plan, and what running   *)
(* the plan can produce.  Constant-level: no state, no variables.          *)
(*                                                                         *)
(* A command string is abstracted to what the classification and the       *)
(* executor can tell apart:                                                *)
(*   tag     the symbol written in its [[AB:...]] prefix, or NoTag when    *)
(*           the prefix is missing, unterminated or names no symbol;       *)
(*   hits    the risk criteria whose patterns match the rest of the line;  *)
(*   parses  whether shlex splits the line into at least one token.        *)
(* A plan is a sequence of commands (its description takes no part in any  *)
(* decision).                                                              *)
(***************************************************************************)
EXTENDS Naturals, Sequences

OpsSymbol ==
  {"OpsAppOpen", "OpsAppBrowse", "OpsFileCreate", "OpsFileEdit",
   "OpsFileDeleteRecoverable", "OpsTermRunLocal", "OpsInputHid"}

CritSymbol ==
  {"CritIrreversible", "CritSysSecurity", "CritSecret", "CritEgress",
   "CritFinancial", "CritThirdParty", "CritUnclassified"}

Symbol == OpsSymbol \cup CritSymbol

NoTag == "NoTag"

Criterion ==
  {"Irreversibility", "SystemSecurity", "CredentialsSecrets",
   "DataExfiltration", "Financial", "ThirdPartyImpact"}

Command == [tag : Symbol \cup {NoTag}, hits : SUBSET Criterion, parses : BOOLEAN]

PolicyDecision == {"Delegable", "NonDelegable"}

-----------------------------------------------------------------------------
(* Classification *)

\* The symbol of a line; whatever is not a recognised tag is CritUnclassified.
extract_from_command(c) == IF c.tag \in Symbol THEN c.tag ELSE "CritUnclassified"

classification(s) == IF s \in OpsSymbol THEN "Delegable" ELSE "Critical"

\* A tag counts as valid only if it is not CritUnclassified, written out or not.
has_valid_tag(c) == extract_from_command(c) # "CritUnclassified"

CommandsOf(plan) == {plan[i] : i \in DOMAIN plan}

\* The text scan is consulted only for lines with a valid tag; a line without
\* one makes the plan NonDelegable and contributes no triggered criterion.
evaluate_criteria(plan) ==
  LET tagged == {c \in CommandsOf(plan) : has_valid_tag(c)}
      risky  == {c \in tagged : \/ classification(c.tag) = "Critical"
                                \/ c.hits # {}}
  IN [triggered |-> UNION {c.hits : c \in tagged},
      status    |-> IF tagged = CommandsOf(plan) /\ risky = {}
                    THEN "Delegable" ELSE "NonDelegable"]

decide_policy(plan) == evaluate_criteria(plan).status

-----------------------------------------------------------------------------
(* Execution *)

\* The safety lock's verdict on one command.  (It allows a blank line, which does
\* not parse.)
evaluate_for_command(armed, c) ==
  IF classification(extract_from_command(c)) = "Critical" /\ armed
  THEN "Block" ELSE "Allow"

\* Whether a command gets as far as the allowlist and the spawn.  The executor
\* asks a guard it has just created, and a new guard is armed.
ReachesSpawn(c) == c.parses /\ evaluate_for_command(TRUE, c) = "Allow"

\* TRUE: the process ran and exited with success.  The allowlist file, the
\* spawn and the exit code are outside this program: either result is possible.
execute_approved_task(c) == IF ReachesSpawn(c) THEN BOOLEAN ELSE {FALSE}

\* exit_code 1 stands for every code but 0.
Outcome == [success : BOOLEAN, exit_code : {0, 1}]

\* The plan's outcome for one result per command: all commands are run, also
\* after one failed, and the exit code is that of the last one.
OutcomeOf(results) ==
  [success   |-> \A i \in DOMAIN results : results[i],
   exit_code |-> IF results = <<>> \/ results[Len(results)] THEN 0 ELSE 1]

\* The outcomes execute_plan can return for a plan.
execute_plan(plan) ==
  {OutcomeOf(results) :
     results \in {r \in [1..Len(plan) -> BOOLEAN] :
                    \A i \in 1..Len(plan) : r[i] \in execute_approved_task(plan[i])}}
=============================================================================
