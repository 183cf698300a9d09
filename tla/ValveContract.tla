----------------------------- MODULE ValveContract -----------------------------
(***************************************************************************)
(* What an agent that submits a task to the owner can rely on, whatever    *)
(* becomes of registry, sessions and dashboard:                            *)
(*   - at most one word is given on its task, which then stands: the       *)
(*     owner's, or a refusal when another task takes over its identifier;  *)
(*   - a decision of the owner is the word on one task at most;            *)
(*   - the answer is the word; only a task that is not critical and has    *)
(*     none may pass in silence.                                           *)
(* "Open" is a valve on which no word has been given.                      *)
(***************************************************************************)

CONSTANTS
  Task,      \* tasks
  TaskId,    \* identifiers agents give to them
  id,        \* [Task -> TaskId]
  Critical   \* those that never pass in silence

VARIABLES
  word,   \* per task: "Open" or the word given on it
  answer  \* per task: what its agent has been told

vars == <<word, answer>>

Init ==
  /\ word = [t \in Task |-> "Open"]
  /\ answer = [t \in Task |-> "None"]

Undecided(t) == answer[t] = "Waiting" /\ word[t] = "Open"

\* A task begins to wait; one undecided under the same identifier is refused.
Ask(t) ==
  /\ answer[t] = "None"
  /\ answer' = [answer EXCEPT ![t] = "Waiting"]
  /\ word' = [u \in Task |-> IF Undecided(u) /\ id[u] = id[t] THEN "Dropped"
                                                              ELSE word[u]]

\* The owner's decision reaches a task.
GiveWord(t, verdict) ==
  /\ Undecided(t)
  /\ word' = [word EXCEPT ![t] = verdict]
  /\ UNCHANGED answer

Answer(t) ==
  /\ answer[t] = "Waiting"
  /\ \/ word[t] = "Approved" /\ answer' = [answer EXCEPT ![t] = "Approved"]
     \/ word[t] \in {"Denied", "Dropped"} /\ answer' = [answer EXCEPT ![t] = "Denied"]
  /\ UNCHANGED word

Silence(t) ==
  /\ Undecided(t)
  /\ t \notin Critical
  /\ answer' = [answer EXCEPT ![t] = "Approved"]
  /\ UNCHANGED word

\* A crash: nobody who waits is answered any more.
LoseAll ==
  /\ answer' = [t \in Task |-> IF answer[t] = "Waiting" THEN "Lost" ELSE answer[t]]
  /\ UNCHANGED word

Next ==
  \/ \E t \in Task : Ask(t) \/ Answer(t) \/ Silence(t)
  \/ \E t \in Task, verdict \in {"Approved", "Denied"} : GiveWord(t, verdict)
  \/ LoseAll

Spec == Init /\ [][Next]_vars
================================================================================
