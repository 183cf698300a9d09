------------------------------ MODULE ActiveTasks ------------------------------
(***************************************************************************)
(* Tasks that wait for the owner: the registry and the UI session of the   *)
(* gatekeeper daemon (gatekeeper.rs, ActiveTasks and serve_ui_session),    *)
(* the agents that wait for their answer (timers.rs, await_decision) and   *)
(* the dashboard at the other end of the session (ai-bridge-ui, main.rs    *)
(* and app.rs).  Session after session is served as in the loop of         *)
(* gatekeeper-daemon/tests/ipc_e2e_test.rs.                                *)
(*                                                                         *)
(* A session borrows the registry from its first to its last step: agents  *)
(* register between sessions only.  The one dashboard connects again when  *)
(* its connection breaks; what the daemon has not read of the old one is   *)
(* read before the new one is accepted, so one queue holds both.           *)
(***************************************************************************)
EXTENDS Naturals, Sequences

CONSTANTS
  Task,         \* submissions, each with a command of its own
  TaskId,       \* the identifiers agents give to them
  id,           \* [Task -> TaskId]: agents may use an identifier again
  Critical,     \* the tasks that are never delegable
  MaxRestarts,  \* bound: restarts of the daemon
  MaxExits      \* bound: exits of the dashboard

ASSUME TaskAssumption == id \in [Task -> TaskId] /\ Critical \subseteq Task

VARIABLES
  pending,   \* [TaskId -> SUBSET Task]: the registry's entry, if there is one
  sent,      \* per task: what its one-shot channel holds
  answer,    \* per task: what await_decision has returned
  session,   \* the daemon's side of the dashboard's connection
  uplink,    \* decisions written to the connection, not yet read
  link,      \* the dashboard's side
  wire,      \* the tasks whose task_pending lines are not yet read
  shown,     \* [TaskId -> SUBSET Task]: the dashboard's list
  outbox,    \* decisions not yet written
  judged,    \* history: [Task -> SUBSET Task], what the owner saw when he
             \* gave the decision that reached the task
  restarts, exits  \* history

daemonVars == <<pending, sent, answer, session>>
uiVars     == <<link, wire, shown, outbox>>
vars == <<daemonVars, uplink, uiVars, judged, restarts, exits>>

\* A TaskResolved line; about is the task the owner had before him and is not
\* part of the line.
Decision == [task_id : TaskId, approved : BOOLEAN, about : Task]

Verdict(approved) == IF approved THEN "Approved" ELSE "Denied"

TypeOK ==
  /\ pending \in [TaskId -> SUBSET Task]
  /\ \A i \in TaskId : \A t, u \in pending[i] : t = u /\ id[t] = i
  /\ sent \in [Task -> {"Open", "Approved", "Denied", "Dropped"}]
  /\ answer \in [Task -> {"None", "Waiting", "Approved", "Denied", "Lost"}]
  /\ session \in {"None", "Queued", "Reading"}
  /\ uplink \in Seq(Decision)
  /\ link \in {"None", "Up", "Broken"}
  /\ wire \subseteq Task
  /\ shown \in [TaskId -> SUBSET Task]
  /\ \A i \in TaskId : \A t, u \in shown[i] : t = u /\ id[t] = i
  /\ outbox \in Seq(Decision)
  /\ judged \in [Task -> SUBSET Task]
  /\ restarts \in Nat
  /\ exits \in Nat

Waiting(t) == answer[t] = "Waiting"

Listed == UNION {pending[i] : i \in TaskId}

-----------------------------------------------------------------------------
(* Agents *)

\* Mutant: the registry keeps the task it has.
RegisterFirst(t) ==
  /\ answer[t] = "None"
  /\ session # "Reading"
  /\ answer' = [answer EXCEPT ![t] = "Waiting"]
  /\ pending' = [pending EXCEPT ![id[t]] = IF @ = {} THEN {t} ELSE @]
  /\ UNCHANGED <<sent, session, uplink, uiVars, judged, restarts, exits>>

\* A task is registered; an entry under its id is dropped with its sender.
register(t) ==
  /\ answer[t] = "None"
  /\ session # "Reading"
  /\ answer' = [answer EXCEPT ![t] = "Waiting"]
  /\ pending' = [pending EXCEPT ![id[t]] = {t}]
  /\ sent' = [u \in Task |-> IF u \in pending[id[t]] /\ Waiting(u)
                             THEN "Dropped" ELSE sent[u]]
  /\ UNCHANGED <<session, uplink, uiVars, judged, restarts, exits>>

\* The agent's wait ends with the answer in its channel, or a dropped sender,
\* which is a denial.
Receive(t) ==
  /\ Waiting(t)
  /\ sent[t] # "Open"
  /\ answer' = [answer EXCEPT ![t] = Verdict(sent[t] = "Approved")]
  /\ UNCHANGED <<pending, sent, session, uplink, uiVars, judged, restarts, exits>>

\* Mutant: criticality is not looked at.
SilenceApprovesAll(t) ==
  /\ Waiting(t)
  /\ sent[t] = "Open"
  /\ answer' = [answer EXCEPT ![t] = "Approved"]
  /\ UNCHANGED <<pending, sent, session, uplink, uiVars, judged, restarts, exits>>

\* The delegation window of a task that is not critical ends in silence; its entry
\* stays in the registry.  An answer that has come is taken first.
AutoApprove(t) ==
  /\ Waiting(t)
  /\ t \notin Critical
  /\ sent[t] = "Open"
  /\ answer' = [answer EXCEPT ![t] = "Approved"]
  /\ UNCHANGED <<pending, sent, session, uplink, uiVars, judged, restarts, exits>>

-----------------------------------------------------------------------------
(* The session *)

\* The daemon accepts the connection and writes one line per listed task.  When
\* the dashboard has left meanwhile the write fails, and with it the session, read
\* or not; without a line to write it is read to its end.
Accept ==
  /\ session = "Queued"
  /\ \/ /\ link = "Up"
        /\ session' = "Reading"
        /\ wire' = Listed
        /\ UNCHANGED uplink
     \/ /\ link # "Up" /\ Listed # {}
        /\ session' = "None"
        /\ uplink' = <<>>
        /\ UNCHANGED wire
     \/ /\ link # "Up" /\ Listed = {}
        /\ session' = "Reading"
        /\ UNCHANGED <<uplink, wire>>
  /\ UNCHANGED <<pending, sent, answer, link, shown, outbox, judged, restarts, exits>>

\* Mutant: the decision goes to every listed task.
resolve_all(i, d) ==
  /\ sent' = [t \in Task |-> IF t \in Listed /\ Waiting(t)
                             THEN Verdict(d.approved) ELSE sent[t]]
  /\ judged' = [t \in Task |-> IF t \in Listed /\ Waiting(t)
                               THEN judged[t] \cup {d.about} ELSE judged[t]]
  /\ pending' = [j \in TaskId |-> {}]

\* The entry leaves the registry and its agent, if it still waits, is sent the
\* decision; an unknown id is ignored.
resolve(i, d) ==
  /\ pending' = [pending EXCEPT ![i] = {}]
  /\ sent' = [t \in Task |-> IF t \in pending[i] /\ Waiting(t)
                             THEN Verdict(d.approved) ELSE sent[t]]
  /\ judged' = [t \in Task |-> IF t \in pending[i] /\ Waiting(t)
                               THEN judged[t] \cup {d.about} ELSE judged[t]]

handle_inbound ==
  /\ session = "Reading"
  /\ uplink # <<>>
  /\ resolve(Head(uplink).task_id, Head(uplink))
  /\ uplink' = Tail(uplink)
  /\ UNCHANGED <<answer, session, uiVars, restarts, exits>>

\* The dashboard's side is closed and everything is read.
EndSession ==
  /\ session = "Reading"
  /\ link # "Up"
  /\ uplink = <<>>
  /\ session' = "None"
  /\ UNCHANGED <<pending, sent, answer, uplink, uiVars, judged, restarts, exits>>

\* The daemon stops and starts again: registry and agents are gone.
Restart ==
  /\ restarts < MaxRestarts
  /\ restarts' = restarts + 1
  /\ pending' = [i \in TaskId |-> {}]
  /\ answer' = [t \in Task |-> IF Waiting(t) THEN "Lost" ELSE answer[t]]
  /\ session' = "None"
  /\ uplink' = <<>>
  /\ link' = IF link = "Up" THEN "Broken" ELSE link
  /\ UNCHANGED <<sent, wire, shown, outbox, judged, exits>>

-----------------------------------------------------------------------------
(* The dashboard *)

Connect ==
  /\ link = "None"
  /\ session = "None"
  /\ link' = "Up"
  /\ session' = "Queued"
  /\ UNCHANGED <<pending, sent, answer, uplink, wire, shown, outbox, judged,
                 restarts, exits>>

\* Mutant: the list is not searched first.
ShowAnyway(t) ==
  /\ t \in wire
  /\ wire' = wire \ {t}
  /\ shown' = [shown EXCEPT ![id[t]] = @ \cup {t}]
  /\ UNCHANGED <<daemonVars, uplink, link, outbox, judged, restarts, exits>>

\* A task is put on the list, unless one with its id is there already.
ReadPending(t) ==
  /\ t \in wire
  /\ wire' = wire \ {t}
  /\ shown' = [shown EXCEPT ![id[t]] = IF @ = {} THEN {t} ELSE @]
  /\ UNCHANGED <<daemonVars, uplink, link, outbox, judged, restarts, exits>>

\* Mutant: the id of some row of the list is sent.
DecideOnAnyRow(t, approved) ==
  /\ t \in shown[id[t]]
  /\ shown' = [shown EXCEPT ![id[t]] = {}]
  /\ \E i \in TaskId :
       outbox' = Append(outbox, [task_id |-> i, approved |-> approved, about |-> t])
  /\ UNCHANGED <<daemonVars, uplink, link, wire, judged, restarts, exits>>

\* The owner opens or closes the valve: the decision is queued and the task leaves
\* the list at once.
Decide(t, approved) ==
  /\ t \in shown[id[t]]
  /\ shown' = [shown EXCEPT ![id[t]] = {}]
  /\ outbox' = Append(outbox, [task_id |-> id[t], approved |-> approved, about |-> t])
  /\ UNCHANGED <<daemonVars, uplink, link, wire, judged, restarts, exits>>

\* The next decision is written; on a broken connection it is lost, and so are the
\* lines that were not read.
SendDecision ==
  /\ link # "None"
  /\ outbox # <<>>
  /\ outbox' = Tail(outbox)
  /\ \/ /\ link = "Up"
        /\ uplink' = Append(uplink, Head(outbox))
        /\ UNCHANGED <<link, wire>>
     \/ /\ link = "Broken"
        /\ link' = "None"
        /\ wire' = {}
        /\ UNCHANGED uplink
  /\ UNCHANGED <<daemonVars, shown, judged, restarts, exits>>

\* Mutant: the end of the stream is taken for an empty line.
IgnoreEnd ==
  /\ link = "Broken"
  /\ wire = {}
  /\ UNCHANGED vars

\* All lines are read, then the end of the stream.
NoticeBroken ==
  /\ link = "Broken"
  /\ wire = {}
  /\ link' = "None"
  /\ UNCHANGED <<daemonVars, uplink, wire, shown, outbox, judged, restarts, exits>>

\* The dashboard is closed, and later started again with an empty list.
Exit ==
  /\ exits < MaxExits
  /\ exits' = exits + 1
  /\ link' = "None"
  /\ wire' = {}
  /\ shown' = [i \in TaskId |-> {}]
  /\ outbox' = <<>>
  /\ UNCHANGED <<daemonVars, uplink, judged, restarts>>

-----------------------------------------------------------------------------

Init ==
  /\ pending = [i \in TaskId |-> {}]
  /\ sent = [t \in Task |-> "Open"]
  /\ answer = [t \in Task |-> "None"]
  /\ session = "None"
  /\ uplink = <<>>
  /\ link = "None"
  /\ wire = {}
  /\ shown = [i \in TaskId |-> {}]
  /\ outbox = <<>>
  /\ judged = [t \in Task |-> {}]
  /\ restarts = 0
  /\ exits = 0

Next ==
  \/ \E t \in Task : register(t) \/ Receive(t) \/ AutoApprove(t) \/ ReadPending(t)
  \/ \E t \in Task, approved \in BOOLEAN : Decide(t, approved)
  \/ Accept \/ handle_inbound \/ EndSession
  \/ Restart
  \/ Connect \/ SendDecision \/ NoticeBroken
  \/ Exit

Spec == Init /\ [][Next]_vars

\* Daemon and dashboard go on, windows end, and the owner decides on what he is
\* shown.
Fairness ==
  /\ \A t \in Task : /\ WF_vars(Receive(t)) /\ WF_vars(AutoApprove(t))
                     /\ WF_vars(ReadPending(t))
                     /\ WF_vars(Decide(t, TRUE) \/ Decide(t, FALSE))
  /\ WF_vars(Accept) /\ WF_vars(handle_inbound) /\ WF_vars(EndSession)
  /\ WF_vars(Connect) /\ WF_vars(SendDecision) /\ WF_vars(NoticeBroken)

FairSpec == Spec /\ Fairness

-----------------------------------------------------------------------------
(* Properties *)

\* An agent whose channel is still open is in the registry, however often ids were
\* registered anew, sessions broke off and decisions went astray: the next session
\* shows its task.
WaitingIsListed ==
  \A t \in Task : Waiting(t) /\ sent[t] = "Open" => t \in pending[id[t]]

\* A critical task is let through only by a decision of the owner that reached it,
\* and no task against one that did, also when the answer races the window
\* (timers.rs:39-47).
ApprovedByOwnerOrWindow ==
  \A t \in Task :
    /\ answer[t] = "Approved" => \/ sent[t] = "Approved" /\ judged[t] # {}
                                 \/ sent[t] = "Open" /\ t \notin Critical
    /\ answer[t] = "Denied" => sent[t] \in {"Denied", "Dropped"}

\* A decision reaches its task once and, as long as no other task has its id, is
\* the one the owner gave on that very task: lists, queues and registry do not mix
\* tasks up, before or after a restart of either side.
UniqueIdIsJudgedAsSeen ==
  \A t \in Task : (\A u \in Task : id[u] = id[t] => u = t) => judged[t] \subseteq {t}

\* Agents get what ValveContract promises: registry, sessions and dashboard add
\* nothing to the one word that is given on a task, and take nothing from it.
Contract == INSTANCE ValveContract WITH word <- sent

ValveSpec == Contract!Spec

\* Each task is answered at last when the owner decides on what he is shown,
\* although decisions are lost with connections and tasks hide behind others with
\* their id (a task the daemon forgot in a restart is not).
EveryTaskIsAnswered == \A t \in Task : Waiting(t) ~> ~Waiting(t)

\* The owner decides on the command he has seen (gatekeeper.rs:21-22: "so the
\* operator can review the exact command before opening (approve) or closing
\* (reject) the valve").
JudgedAsSeen == \A t \in Task : judged[t] \subseteq {t}
=============================================================================
