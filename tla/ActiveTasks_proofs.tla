-------------------------- MODULE ActiveTasks_proofs --------------------------
(***************************************************************************)
(* Safety of the active-task registry, its sessions and the dashboard, for *)
(* any tasks, identifiers and numbers of restarts.                         *)
(***************************************************************************)
EXTENDS ActiveTasks, TLAPS

USE TaskAssumption

\* A decision, queued or on its way, names the id of the task it is about.
NamesItsTask(decisions) ==
  \A k \in DOMAIN decisions : decisions[k].task_id = id[decisions[k].about]

QueuesNameTheirTasks == NamesItsTask(outbox) /\ NamesItsTask(uplink)

\* An approval in a channel has come from the owner.
ApprovalIsJudged == \A t \in Task : sent[t] = "Approved" => judged[t] # {}

\* Nothing is sent to a task before it waits, nor to one that stays listed.
ListedIsUndecided ==
  \A t \in Task :
    /\ answer[t] = "None" => sent[t] = "Open"
    /\ Waiting(t) /\ t \in pending[id[t]] => sent[t] = "Open"

\* The inductive invariant: an approval in a channel has come from the owner,
\* decisions keep their ids from the list to the registry, and a task that is
\* listed has not been decided.
IInv ==
  /\ TypeOK
  /\ WaitingIsListed
  /\ ApprovedByOwnerOrWindow
  /\ UniqueIdIsJudgedAsSeen
  /\ QueuesNameTheirTasks
  /\ ApprovalIsJudged
  /\ ListedIsUndecided

-----------------------------------------------------------------------------
(* Queues of decisions *)

\* A queue stays one of decisions that name their tasks when such a decision joins.
LEMMA JoinQueue ==
  ASSUME NEW q \in Seq(Decision), NamesItsTask(q),
         NEW d \in Decision, d.task_id = id[d.about]
  PROVE  Append(q, d) \in Seq(Decision) /\ NamesItsTask(Append(q, d))
<1>1. Append(q, d) \in Seq(Decision)
  OBVIOUS
<1>2. ASSUME NEW k \in DOMAIN Append(q, d)
      PROVE  Append(q, d)[k] = d \/ (k \in DOMAIN q /\ Append(q, d)[k] = q[k])
  OBVIOUS
<1> QED
  BY <1>1, <1>2 DEF NamesItsTask

\* The head of such a queue names its task, and so do the rest.
LEMMA LeaveQueue ==
  ASSUME NEW q \in Seq(Decision), NamesItsTask(q), q # <<>>
  PROVE  /\ Head(q) \in Decision /\ Head(q).task_id = id[Head(q).about]
         /\ Tail(q) \in Seq(Decision) /\ NamesItsTask(Tail(q))
<1>1. Head(q) = q[1] /\ 1 \in DOMAIN q /\ Head(q) \in Decision
  OBVIOUS
<1>2. Tail(q) \in Seq(Decision)
  OBVIOUS
<1>3. ASSUME NEW k \in DOMAIN Tail(q)
      PROVE  k + 1 \in DOMAIN q /\ Tail(q)[k] = q[k + 1]
  OBVIOUS
<1> QED
  BY <1>1, <1>2, <1>3 DEF NamesItsTask

-----------------------------------------------------------------------------

LEMMA InitIInv == Init => IInv
<1> SUFFICES ASSUME Init PROVE IInv
  OBVIOUS
<1>1. TypeOK
  BY DEF Init, TypeOK
<1>2. NamesItsTask(<<>>)
  BY DEF NamesItsTask
<1> QED
  BY <1>1, <1>2 DEF Init, IInv, WaitingIsListed, Waiting, ApprovedByOwnerOrWindow,
     UniqueIdIsJudgedAsSeen, QueuesNameTheirTasks, ApprovalIsJudged, ListedIsUndecided

\* The daemon's steps outside a session, and those of the agents.
LEMMA AgentSteps ==
  ASSUME IInv, NEW t \in Task, register(t) \/ Receive(t) \/ AutoApprove(t)
  PROVE  IInv'
<1> USE DEF IInv
<1>1. CASE register(t)
  <2>1. TypeOK'
    BY <1>1 DEF TypeOK, register, uiVars
  <2>2. WaitingIsListed'
    BY <1>1 DEF TypeOK, register, WaitingIsListed, Waiting
  <2>3. ApprovedByOwnerOrWindow'
    BY <1>1 DEF TypeOK, register, ApprovedByOwnerOrWindow, Waiting
  <2>4. UniqueIdIsJudgedAsSeen' /\ QueuesNameTheirTasks'
    BY <1>1 DEF register, uiVars, UniqueIdIsJudgedAsSeen, QueuesNameTheirTasks,
                NamesItsTask
  <2>5. ApprovalIsJudged'
    BY <1>1 DEF register, TypeOK, ApprovalIsJudged
  <2>6. ListedIsUndecided'
    <3> SUFFICES ASSUME NEW u \in Task
                 PROVE  /\ answer'[u] = "None" => sent'[u] = "Open"
                        /\ answer'[u] = "Waiting" /\ u \in pending'[id[u]]
                           => sent'[u] = "Open"
      BY DEF ListedIsUndecided, Waiting
    <3>1. CASE u = t
      BY <1>1, <3>1 DEF TypeOK, register, ListedIsUndecided, Waiting
    <3>2. CASE u # t
      <4>1. answer'[u] = answer[u] /\ (u \in pending'[id[u]] => id[u] # id[t])
        BY <1>1, <3>2 DEF TypeOK, register
      <4>2. id[u] # id[t] => pending'[id[u]] = pending[id[u]] /\ u \notin pending[id[t]]
        BY <1>1 DEF TypeOK, register
      <4>3. sent'[u] = IF u \in pending[id[t]] /\ Waiting(u) THEN "Dropped" ELSE sent[u]
        BY <1>1 DEF register
      <4> QED
        BY <4>1, <4>2, <4>3 DEF ListedIsUndecided, Waiting
    <3> QED
      BY <3>1, <3>2
  <2> QED
    BY <2>1, <2>2, <2>3, <2>4, <2>5, <2>6
<1>2. ASSUME TypeOK', WaitingIsListed', ApprovedByOwnerOrWindow',
             UNCHANGED <<pending, sent, uplink, outbox, judged>>,
             \A u \in Task : answer'[u] \in {"None", "Waiting"} => answer'[u] = answer[u]
      PROVE  IInv'
  <2>1. UniqueIdIsJudgedAsSeen' /\ ApprovalIsJudged'
    BY <1>2 DEF UniqueIdIsJudgedAsSeen, ApprovalIsJudged
  <2>2. QueuesNameTheirTasks'
    BY <1>2 DEF QueuesNameTheirTasks, NamesItsTask
  <2>3. ListedIsUndecided'
    BY <1>2 DEF ListedIsUndecided, Waiting
  <2> QED
    BY <1>2, <2>1, <2>2, <2>3
<1>3. CASE Receive(t)
  <2> DEFINE v == Verdict(sent[t] = "Approved")
  <2>1. v = IF sent[t] = "Approved" THEN "Approved" ELSE "Denied"
    BY DEF Verdict
  <2>2. /\ v \in {"Approved", "Denied"}
        /\ v = "Approved" => sent[t] = "Approved" /\ judged[t] # {}
        /\ v = "Denied" => sent[t] \in {"Denied", "Dropped"}
    BY <1>3, <2>1 DEF Receive, TypeOK, ApprovalIsJudged
  <2>3. answer' = [answer EXCEPT ![t] = v]
    BY <1>3 DEF Receive
  <2> HIDE DEF v
  <2>4. TypeOK'
    BY <1>3, <2>2, <2>3 DEF TypeOK, Receive, uiVars
  <2>5. ApprovedByOwnerOrWindow'
    BY <1>3, <2>2, <2>3 DEF TypeOK, Receive, ApprovedByOwnerOrWindow
  <2>6. WaitingIsListed'
    BY <1>3, <2>2, <2>3 DEF TypeOK, Receive, WaitingIsListed, Waiting
  <2>7. \A u \in Task : answer'[u] \in {"None", "Waiting"} => answer'[u] = answer[u]
    BY <2>2, <2>3 DEF TypeOK
  <2> QED
    BY <1>2, <1>3, <2>4, <2>5, <2>6, <2>7 DEF Receive, uiVars
<1>4. CASE AutoApprove(t)
  <2>1. TypeOK'
    BY <1>4 DEF TypeOK, AutoApprove, uiVars
  <2>2. ApprovedByOwnerOrWindow'
    BY <1>4 DEF TypeOK, AutoApprove, ApprovedByOwnerOrWindow, Waiting
  <2>3. WaitingIsListed'
    BY <1>4 DEF TypeOK, AutoApprove, WaitingIsListed, Waiting
  <2>4. \A u \in Task : answer'[u] \in {"None", "Waiting"} => answer'[u] = answer[u]
    BY <1>4 DEF TypeOK, AutoApprove
  <2> QED
    BY <1>2, <1>4, <2>1, <2>2, <2>3, <2>4 DEF AutoApprove, uiVars
<1> QED
  BY <1>1, <1>3, <1>4

\* A decision reaches the registry.
LEMMA InboundStep == ASSUME IInv, handle_inbound PROVE IInv'
<1> DEFINE d == Head(uplink)
           i == d.task_id
<1> USE DEF IInv
<1>1. /\ d \in Decision /\ i = id[d.about]
      /\ uplink' \in Seq(Decision) /\ NamesItsTask(uplink')
      /\ resolve(i, d)
  BY LeaveQueue DEF TypeOK, QueuesNameTheirTasks, handle_inbound
<1> HIDE DEF d
<1>2. i \in TaskId /\ d.approved \in BOOLEAN /\ d.about \in Task
  BY <1>1 DEF Decision
<1> HIDE DEF i
<1>3. /\ pending' = [pending EXCEPT ![i] = {}]
      /\ sent' = [t \in Task |-> IF t \in pending[i] /\ Waiting(t)
                                 THEN Verdict(d.approved) ELSE sent[t]]
      /\ judged' = [t \in Task |-> IF t \in pending[i] /\ Waiting(t)
                                   THEN judged[t] \cup {d.about} ELSE judged[t]]
      /\ answer' = answer
      /\ UNCHANGED <<session, uiVars, restarts, exits>>
  BY <1>1 DEF resolve, handle_inbound
<1>4. Verdict(d.approved) \in {"Approved", "Denied"}
  BY DEF Verdict
<1>5. TypeOK'
  BY <1>1, <1>2, <1>3, <1>4 DEF TypeOK, uiVars
<1>6. WaitingIsListed'
  BY <1>2, <1>3, <1>4 DEF TypeOK, WaitingIsListed, Waiting
<1>7. ApprovedByOwnerOrWindow'
  BY <1>2, <1>3 DEF TypeOK, ApprovedByOwnerOrWindow, Waiting
<1>8. UniqueIdIsJudgedAsSeen'
  <2> SUFFICES ASSUME NEW t \in Task, \A u \in Task : id[u] = id[t] => u = t
               PROVE  judged'[t] \subseteq {t}
    BY DEF UniqueIdIsJudgedAsSeen
  <2>1. judged[t] \subseteq {t}
    BY DEF UniqueIdIsJudgedAsSeen
  <2>2. t \in pending[i] => d.about = t
    BY <1>1, <1>2 DEF TypeOK
  <2> QED
    BY <1>3, <2>1, <2>2
<1>9. ApprovalIsJudged'
  BY <1>2, <1>3 DEF TypeOK, ApprovalIsJudged
<1>10. QueuesNameTheirTasks'
  BY <1>1, <1>3 DEF uiVars, QueuesNameTheirTasks, NamesItsTask
<1>11. ListedIsUndecided'
  <2> SUFFICES ASSUME NEW t \in Task
               PROVE  /\ answer[t] = "None" => sent'[t] = "Open"
                      /\ answer[t] = "Waiting" /\ t \in pending'[id[t]]
                         => sent'[t] = "Open"
    BY <1>3 DEF ListedIsUndecided, Waiting
  <2>1. sent'[t] = IF t \in pending[i] /\ Waiting(t) THEN Verdict(d.approved) ELSE sent[t]
    BY <1>3
  <2>2. t \in pending'[id[t]] => t \in pending[id[t]] /\ t \notin pending[i]
    BY <1>2, <1>3 DEF TypeOK
  <2> QED
    BY <2>1, <2>2 DEF ListedIsUndecided, Waiting
<1> QED
  BY <1>5, <1>6, <1>7, <1>8, <1>9, <1>10, <1>11

\* The other steps of the daemon leave the agents' channels alone.
LEMMA DaemonSteps ==
  ASSUME IInv, Accept \/ EndSession \/ Restart
  PROVE  IInv'
<1> USE DEF IInv
<1>1. NamesItsTask(<<>>)
  BY DEF NamesItsTask
<1>2. CASE Accept
  <2>1. Listed \subseteq Task
    BY DEF Listed, TypeOK
  <2>2. (uplink' = uplink \/ uplink' = <<>>) /\ outbox' = outbox
    BY <1>2 DEF Accept
  <2>3. wire' = wire \/ wire' = Listed
    BY <1>2 DEF Accept
  <2>4. wire' \subseteq Task /\ uplink' \in Seq(Decision)
    <3>1. <<>> \in Seq(Decision)
      OBVIOUS
    <3> QED
      BY <2>1, <2>2, <2>3, <3>1 DEF TypeOK
  <2>5. session' \in {"None", "Reading"}
    BY <1>2 DEF Accept
  <2>6. TypeOK'
    <3>1. UNCHANGED <<pending, sent, answer, link, shown, outbox, judged, restarts, exits>>
      BY <1>2 DEF Accept
    <3> QED
      BY <2>4, <2>5, <3>1 DEF TypeOK
  <2>7. QueuesNameTheirTasks'
    BY <1>1, <2>2 DEF QueuesNameTheirTasks, NamesItsTask
  <2>8. UNCHANGED <<pending, sent, answer, judged>>
    BY <1>2 DEF Accept
  <2> QED
    BY <2>6, <2>7, <2>8
       DEF WaitingIsListed, Waiting, ApprovedByOwnerOrWindow, UniqueIdIsJudgedAsSeen,
           ApprovalIsJudged, ListedIsUndecided
<1>3. CASE EndSession
  <2>1. TypeOK'
    BY <1>3 DEF TypeOK, EndSession, uiVars
  <2> QED
    BY <1>3, <2>1
       DEF EndSession, uiVars, WaitingIsListed, Waiting, ApprovedByOwnerOrWindow,
           UniqueIdIsJudgedAsSeen, QueuesNameTheirTasks, NamesItsTask, ApprovalIsJudged,
           ListedIsUndecided
<1>4. CASE Restart
  <2>1. TypeOK'
    BY <1>4 DEF TypeOK, Restart, Waiting
  <2>2. WaitingIsListed'
    BY <1>4 DEF TypeOK, Restart, WaitingIsListed, Waiting
  <2>3. ApprovedByOwnerOrWindow'
    BY <1>4 DEF TypeOK, Restart, ApprovedByOwnerOrWindow, Waiting
  <2>4. ListedIsUndecided'
    BY <1>4 DEF TypeOK, Restart, ListedIsUndecided, Waiting
  <2> QED
    BY <1>1, <1>4, <2>1, <2>2, <2>3, <2>4
       DEF Restart, UniqueIdIsJudgedAsSeen, QueuesNameTheirTasks, NamesItsTask,
           ApprovalIsJudged
<1> QED
  BY <1>2, <1>3, <1>4

\* The dashboard changes nothing of the daemon's.
LEMMA DashboardSteps ==
  ASSUME IInv,
         \/ \E t \in Task : ReadPending(t)
         \/ \E t \in Task, approved \in BOOLEAN : Decide(t, approved)
         \/ Connect \/ SendDecision \/ NoticeBroken \/ Exit
  PROVE  IInv'
<1> USE DEF IInv
<1>1. ASSUME TypeOK', QueuesNameTheirTasks',
             UNCHANGED <<pending, sent, answer, judged>>
      PROVE  IInv'
  BY <1>1 DEF WaitingIsListed, Waiting, ApprovedByOwnerOrWindow, UniqueIdIsJudgedAsSeen,
              ApprovalIsJudged, ListedIsUndecided
<1>2. ASSUME NEW t \in Task, ReadPending(t) PROVE IInv'
  <2>1. TypeOK'
    BY <1>2 DEF TypeOK, ReadPending, daemonVars
  <2> QED
    BY <1>1, <1>2, <2>1 DEF ReadPending, daemonVars, QueuesNameTheirTasks, NamesItsTask
<1>3. ASSUME NEW t \in Task, NEW approved \in BOOLEAN, Decide(t, approved) PROVE IInv'
  <2> DEFINE d == [task_id |-> id[t], approved |-> approved, about |-> t]
  <2>1. d \in Decision /\ d.task_id = id[d.about]
    BY DEF Decision
  <2>2. outbox' = Append(outbox, d)
    BY <1>3 DEF Decide
  <2>3. outbox' \in Seq(Decision) /\ NamesItsTask(outbox')
    <3> HIDE DEF d
    <3> QED BY <2>1, <2>2, JoinQueue DEF TypeOK, QueuesNameTheirTasks
  <2>4. TypeOK'
    BY <1>3, <2>3 DEF TypeOK, Decide, daemonVars
  <2>5. NamesItsTask(uplink)'
    BY <1>3 DEF Decide, QueuesNameTheirTasks, NamesItsTask
  <2> QED
    BY <1>1, <1>3, <2>3, <2>4, <2>5
       DEF Decide, daemonVars, QueuesNameTheirTasks, NamesItsTask
<1>4. CASE Connect
  <2>1. TypeOK'
    BY <1>4 DEF TypeOK, Connect
  <2> QED
    BY <1>1, <1>4, <2>1 DEF Connect, QueuesNameTheirTasks, NamesItsTask
<1>5. CASE SendDecision
  <2> DEFINE d == Head(outbox)
  <2>1. /\ d \in Decision /\ d.task_id = id[d.about]
        /\ outbox' \in Seq(Decision) /\ NamesItsTask(outbox')
    BY <1>5, LeaveQueue DEF TypeOK, QueuesNameTheirTasks, SendDecision
  <2>2. uplink' = Append(uplink, d) \/ uplink' = uplink
    BY <1>5 DEF SendDecision
  <2>3. uplink' \in Seq(Decision) /\ NamesItsTask(uplink')
    <3> HIDE DEF d
    <3>1. uplink \in Seq(Decision) /\ NamesItsTask(uplink)
      BY DEF TypeOK, QueuesNameTheirTasks
    <3>2. Append(uplink, d) \in Seq(Decision) /\ NamesItsTask(Append(uplink, d))
      BY <2>1, <3>1, JoinQueue
    <3> QED
      BY <2>2, <3>1, <3>2 DEF NamesItsTask
  <2>4. TypeOK'
    BY <1>5, <2>1, <2>3 DEF TypeOK, SendDecision, daemonVars
  <2> QED
    BY <1>1, <1>5, <2>1, <2>3, <2>4
       DEF SendDecision, daemonVars, QueuesNameTheirTasks, NamesItsTask
<1>6. CASE NoticeBroken
  <2>1. TypeOK'
    BY <1>6 DEF TypeOK, NoticeBroken, daemonVars
  <2> QED
    BY <1>1, <1>6, <2>1 DEF NoticeBroken, daemonVars, QueuesNameTheirTasks, NamesItsTask
<1>7. CASE Exit
  <2>1. TypeOK'
    BY <1>7 DEF TypeOK, Exit, daemonVars
  <2> QED
    BY <1>1, <1>7, <2>1 DEF Exit, daemonVars, QueuesNameTheirTasks, NamesItsTask
<1> QED
  BY <1>2, <1>3, <1>4, <1>5, <1>6, <1>7

-----------------------------------------------------------------------------

\* The inductive invariant of registry, queues and list holds (gatekeeper.rs,
\* timers.rs:39-69, ai-bridge-ui).
THEOREM Invariance == Spec => []IInv
<1>1. ASSUME IInv, [Next]_vars PROVE IInv'
  <2>1. CASE Next
    BY <1>1, <2>1, AgentSteps, InboundStep, DaemonSteps, DashboardSteps DEF Next
  <2>2. CASE UNCHANGED vars
    BY <1>1, <2>2
       DEF vars, daemonVars, uiVars, IInv, TypeOK, WaitingIsListed, Waiting,
           ApprovedByOwnerOrWindow, UniqueIdIsJudgedAsSeen, QueuesNameTheirTasks,
           NamesItsTask, ApprovalIsJudged, ListedIsUndecided
  <2> QED
    BY <1>1, <2>1, <2>2
<1> QED
  BY <1>1, InitIInv, PTL DEF Spec

\* No agent that still waits is forgotten by the registry: the next session shows
\* its task, after any restarts, re-registrations and lost decisions.
THEOREM NoAgentIsForgotten == Spec => []WaitingIsListed
<1>1. IInv => WaitingIsListed
  BY DEF IInv
<1> QED
  BY <1>1, Invariance, PTL

\* A critical task passes only on a decision of the owner that has reached it, and
\* no decision that has is overruled by the end of the window (timers.rs:48-69).
THEOREM OwnerOrWindow == Spec => []ApprovedByOwnerOrWindow
<1>1. IInv => ApprovedByOwnerOrWindow
  BY DEF IInv
<1> QED
  BY <1>1, Invariance, PTL

\* A task whose identifier no other task has is decided as the owner decided on it,
\* through list, queues, reconnections and registry.
THEOREM UniqueIdsAreSafe == Spec => []UniqueIdIsJudgedAsSeen
<1>1. IInv => UniqueIdIsJudgedAsSeen
  BY DEF IInv
<1> QED
  BY <1>1, Invariance, PTL

\* The type of registry, queues and list.
THEOREM TypeCorrectness == Spec => []TypeOK
<1>1. IInv => TypeOK
  BY DEF IInv
<1> QED
  BY <1>1, Invariance, PTL

-----------------------------------------------------------------------------
(* Every step is a step of the contract *)

\* The registry drops exactly the task that is undecided under the identifier.
LEMMA RegisterContract ==
  ASSUME IInv, NEW t \in Task, register(t)
  PROVE  Contract!Ask(t)
<1>1. ASSUME NEW u \in Task
      PROVE  u \in pending[id[t]] /\ Waiting(u)
               <=> Contract!Undecided(u) /\ id[u] = id[t]
  BY DEF IInv, TypeOK, WaitingIsListed, ListedIsUndecided, Waiting, Contract!Undecided
<1>2. sent' = [u \in Task |-> IF Contract!Undecided(u) /\ id[u] = id[t] THEN "Dropped"
                                                                       ELSE sent[u]]
  BY <1>1 DEF register
<1> QED
  BY <1>2 DEF register, Contract!Ask

\* A decision that comes in is the word on the one task listed under its identifier,
\* if that task still waits, and on no other.
LEMMA InboundContract ==
  ASSUME IInv, handle_inbound
  PROVE  [Contract!Next]_(Contract!vars)
<1> DEFINE d == Head(uplink)
           i == d.task_id
           v == Verdict(d.approved)
<1>1. d \in Decision /\ resolve(i, d) /\ answer' = answer
  BY LeaveQueue DEF IInv, TypeOK, QueuesNameTheirTasks, handle_inbound
<1>2. i \in TaskId /\ v \in {"Approved", "Denied"}
  BY <1>1 DEF Decision, Verdict
<1>3. sent' = [t \in Task |-> IF t \in pending[i] /\ Waiting(t) THEN v ELSE sent[t]]
  BY <1>1 DEF resolve
<1> HIDE DEF d, i, v
<1>4. CASE \E t \in pending[i] : Waiting(t)
  <2>1. PICK t \in pending[i] : Waiting(t)
    BY <1>4
  <2>2. /\ t \in Task /\ id[t] = i
        /\ \A u \in pending[i] : u = t
    BY <1>2, <2>1 DEF IInv, TypeOK
  <2>3. sent' = [sent EXCEPT ![t] = v]
    <3>1. \A u \in Task : u \in pending[i] /\ Waiting(u) <=> u = t
      BY <2>1, <2>2
    <3>2. sent' = [u \in Task |-> IF u = t THEN v ELSE sent[u]]
      BY <1>3, <3>1
    <3>3. sent \in [Task -> {"Open", "Approved", "Denied", "Dropped"}]
      BY DEF IInv, TypeOK
    <3> QED
      BY ONLY <3>2, <3>3
  <2>4. Contract!Undecided(t)
    BY <2>1, <2>2 DEF IInv, ListedIsUndecided, Waiting, Contract!Undecided
  <2>5. Contract!GiveWord(t, v)
    BY <1>1, <2>3, <2>4 DEF Contract!GiveWord
  <2> QED
    BY <1>2, <2>2, <2>5 DEF Contract!Next
<1>5. CASE ~ \E t \in pending[i] : Waiting(t)
  <2>1. sent' = sent
    BY <1>3, <1>5 DEF IInv, TypeOK
  <2> QED
    BY <1>1, <2>1 DEF Contract!vars
<1> QED
  BY <1>4, <1>5

LEMMA AgentContract ==
  ASSUME IInv, NEW t \in Task, register(t) \/ Receive(t) \/ AutoApprove(t)
  PROVE  Contract!Next
<1>1. CASE register(t)
  BY <1>1, RegisterContract DEF Contract!Next
<1>2. CASE Receive(t)
  <2>1. sent[t] \in {"Approved", "Denied", "Dropped"}
    BY <1>2 DEF Receive, IInv, TypeOK
  <2>2. Contract!Answer(t)
    BY <1>2, <2>1 DEF Receive, Waiting, Verdict, Contract!Answer
  <2> QED
    BY <2>2 DEF Contract!Next
<1>3. CASE AutoApprove(t)
  <2>1. Contract!Silence(t)
    BY <1>3 DEF AutoApprove, Waiting, Contract!Silence, Contract!Undecided
  <2> QED
    BY <2>1 DEF Contract!Next
<1> QED
  BY <1>1, <1>2, <1>3

\* Agents get what ValveContract promises, through broken sessions, lost decisions
\* and restarts of either side (gatekeeper.rs, timers.rs, await_decision).
THEOREM ImplementsContract == Spec => ValveSpec
<1>1. Init => Contract!Init
  BY DEF Init, Contract!Init
<1>2. IInv /\ [Next]_vars => [Contract!Next]_(Contract!vars)
  <2> SUFFICES ASSUME IInv, [Next]_vars PROVE [Contract!Next]_(Contract!vars)
    OBVIOUS
  <2>1. ASSUME NEW t \in Task, register(t) \/ Receive(t) \/ AutoApprove(t)
        PROVE  Contract!Next
    BY <2>1, AgentContract
  <2>2. CASE Restart
    <3>1. Contract!LoseAll
      BY <2>2 DEF Restart, Waiting, Contract!LoseAll
    <3> QED
      BY <3>1 DEF Contract!Next
  <2>3. CASE \/ \E t \in Task : ReadPending(t)
             \/ \E t \in Task, approved \in BOOLEAN : Decide(t, approved)
             \/ Accept \/ EndSession \/ Connect \/ SendDecision \/ NoticeBroken \/ Exit
             \/ UNCHANGED vars
    BY <2>3 DEF Contract!vars, ReadPending, Decide, Accept, EndSession, Connect,
                SendDecision, NoticeBroken, Exit, vars, daemonVars
  <2>4. CASE handle_inbound
    BY <2>4, InboundContract
  <2> QED
    BY <2>1, <2>2, <2>3, <2>4 DEF Next
<1> QED
  BY <1>1, <1>2, Invariance, PTL DEF Spec, ValveSpec, Contract!Spec
=============================================================================
