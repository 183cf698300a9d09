----------------------------- MODULE Channel_proofs -----------------------------
(***************************************************************************)
(* Safety of one channel, for any clients, connections and runs of the     *)
(* daemon, in which clients vanish and the daemon stops or is killed at    *)
(* any step.                                                               *)
(***************************************************************************)
EXTENDS Channel, TLAPS

USE NobodyAssumption, BoundsAssumption

\* Nobody of another uid is served.
ServesOwnUser == serving \notin Foreign

\* A connection owes its request until it has sent it, and is owed its action from
\* then on: what the counters of NoActionWithoutRequest leave room for.
RoomForRequest ==
  \A c \in Client :
    conn[c].phase # "None" /\ conn[c].sent < Whole => finished[c] < connects[c]

RoomForAction ==
  \A c \in Tool :
    conn[c].phase # "None" /\ conn[c].sent = Whole => handled[c] < finished[c]

IInv ==
  /\ TypeOK
  /\ EveryConnectionIsQueuedOrServed
  /\ PayloadFromAuthenticated
  /\ NoActionWithoutRequest
  /\ ServesOwnUser
  /\ RoomForRequest
  /\ RoomForAction

\* The parts that look at the daemon's side alone, and those that count.
Counts == NoActionWithoutRequest /\ RoomForRequest /\ RoomForAction

-----------------------------------------------------------------------------

LEMMA InitIInv == Init => IInv
<1> SUFFICES ASSUME Init PROVE IInv
  OBVIOUS
<1>1. TypeOK
  <2>1. epoch \in 1..MaxRuns /\ tokenFile \in 0..epoch /\ stopping \in BOOLEAN
    <3>1. epoch = 1 /\ tokenFile = 0 /\ stopping = FALSE
      BY DEF Init
    <3>2. epoch \in 1..MaxRuns
      BY <3>1
    <3>3. tokenFile \in 0..epoch
      BY <3>1
    <3> QED
      BY <3>1, <3>2, <3>3
  <2>2. /\ backlog \in Seq(Client) /\ serving = Nobody /\ stage = "Accept"
        /\ swallowed \in 0..Whole
    BY DEF Init, Whole
  <2>3. conn \in [Client -> [phase : {"None", "Open", "HalfClosed", "Gone"}, sent : 0..Whole]]
    BY DEF Init, NoConn, Whole
  <2>4. /\ token \in [Client -> 0..epoch]
        /\ connects \in [Client -> Nat] /\ finished \in [Client -> Nat]
        /\ handled \in [Client -> Nat] /\ answered \in [Client -> Nat]
    BY <2>1 DEF Init
  <2> QED
    BY <2>1, <2>2, <2>3, <2>4 DEF TypeOK
<1>2. EveryConnectionIsQueuedOrServed /\ PayloadFromAuthenticated
  BY DEF Init, EveryConnectionIsQueuedOrServed, PayloadFromAuthenticated, Queued, NoConn,
         Client
<1>3. NoActionWithoutRequest
  BY DEF Init, NoActionWithoutRequest
<1>4. ServesOwnUser
  BY ClientAssumption DEF Init, ServesOwnUser
<1>5. RoomForRequest /\ RoomForAction
  BY DEF Init, RoomForRequest, RoomForAction, NoConn, Client
<1> QED
  BY <1>1, <1>2, <1>3, <1>4, <1>5 DEF IInv

\* What is known of one client's end of its connection.
LEMMA ConnType ==
  ASSUME TypeOK, NEW c \in Client
  PROVE  /\ conn[c] = [phase |-> conn[c].phase, sent |-> conn[c].sent]
         /\ conn[c].phase \in {"None", "Open", "HalfClosed", "Gone"}
         /\ conn[c].sent \in 0..Whole
         /\ connects[c] \in Nat /\ finished[c] \in Nat
         /\ handled[c] \in Nat /\ answered[c] \in Nat
  BY DEF TypeOK

-----------------------------------------------------------------------------
(* Clients *)

LEMMA ReadTokenInvariant ==
  ASSUME IInv, NEW c \in Client, ReadTokenFile(c)
  PROVE  IInv'
<1>1. TypeOK /\ EveryConnectionIsQueuedOrServed
  BY DEF IInv
<1>2. /\ token' = [token EXCEPT ![c] = tokenFile] /\ conn[c].phase = "None"
      /\ UNCHANGED <<daemonVars, serverVars, conn, history>>
  BY DEF ReadTokenFile
<1>3. TypeOK'
  BY <1>1, <1>2 DEF TypeOK, daemonVars, serverVars, history
<1>4. serving # c
  BY <1>1, <1>2 DEF EveryConnectionIsQueuedOrServed
<1>5. PayloadFromAuthenticated'
  <2> SUFFICES ASSUME stage = "Payload"
               PROVE  /\ serving \in Tool \ Foreign
                      /\ token'[serving] = epoch
                      /\ swallowed \in 1..conn[serving].sent
    BY <1>2 DEF PayloadFromAuthenticated, daemonVars, serverVars
  <2>1. /\ serving \in Tool \ Foreign /\ token[serving] = epoch
        /\ swallowed \in 1..conn[serving].sent
    BY DEF IInv, PayloadFromAuthenticated
  <2> QED
    BY <1>1, <1>2, <1>4, <2>1 DEF TypeOK, Client
<1>6. EveryConnectionIsQueuedOrServed' /\ ServesOwnUser'
  BY <1>1, <1>2 DEF IInv, EveryConnectionIsQueuedOrServed, ServesOwnUser, Queued, serverVars
<1>7. Counts'
  BY <1>2 DEF IInv, Counts, NoActionWithoutRequest, RoomForRequest, RoomForAction, history
<1> QED
  BY <1>3, <1>5, <1>6, <1>7 DEF IInv, Counts

LEMMA ConnectInvariant ==
  ASSUME IInv, NEW c \in Client, Connect(c)
  PROVE  IInv'
<1> DEFINE n == Len(backlog)
<1>0. /\ TypeOK /\ EveryConnectionIsQueuedOrServed
      /\ NoActionWithoutRequest /\ RoomForRequest /\ RoomForAction
  BY DEF IInv
<1>1. TypeOK /\ EveryConnectionIsQueuedOrServed /\ backlog \in Seq(Client) /\ n \in Nat
      /\ DOMAIN backlog = 1..n /\ NoActionWithoutRequest /\ RoomForRequest /\ RoomForAction
  <2>1. backlog \in Seq(Client)
    BY <1>0 DEF TypeOK
  <2>2. n \in Nat /\ DOMAIN backlog = 1..n
    BY ONLY <2>1
  <2> QED
    BY <1>0, <2>1, <2>2
<1>2. /\ conn[c].phase = "None"
      /\ conn' = [conn EXCEPT ![c] = [phase |-> "Open", sent |-> 0]]
      /\ backlog' = Append(backlog, c)
      /\ connects' = [connects EXCEPT ![c] = @ + 1]
      /\ UNCHANGED <<daemonVars, serving, stage, swallowed, token, finished, handled, answered>>
  BY DEF Connect
<1>3. TypeOK'
  <2>1. backlog' \in Seq(Client)
    BY <1>1, <1>2
  <2>2. conn' \in [Client -> [phase : {"None", "Open", "HalfClosed", "Gone"}, sent : 0..Whole]]
    BY <1>1, <1>2 DEF TypeOK, Whole
  <2>3. connects' \in [Client -> Nat]
    <3>1. connects \in [Client -> Nat]
      BY <1>0 DEF TypeOK
    <3>2. connects[c] + 1 \in Nat
      BY ONLY <3>1, c \in Client
    <3>3. connects' = [connects EXCEPT ![c] = connects[c] + 1]
      BY <1>2
    <3> QED
      BY ONLY <3>1, <3>2, <3>3
  <2>4. UNCHANGED <<epoch, tokenFile, stopping, serving, stage, swallowed, token, finished,
                    handled, answered>>
    BY <1>2 DEF daemonVars
  <2> HIDE DEF n
  <2> QED
    BY <1>0, <2>1, <2>2, <2>3, <2>4 DEF TypeOK
<1>4. /\ ~Queued(c) /\ serving # c
      /\ conn'[c] = [phase |-> "Open", sent |-> 0]
      /\ \A d \in Client \ {c} : conn'[d] = conn[d]
  BY <1>1, <1>2 DEF EveryConnectionIsQueuedOrServed, TypeOK
<1>5. /\ DOMAIN backlog' = 1..n + 1
      /\ backlog'[n + 1] = c
      /\ \A i \in 1..n : backlog'[i] = backlog[i]
  BY <1>1, <1>2
<1> HIDE DEF n
<1>6. \A d : Queued(d)' <=> Queued(d) \/ d = c
  BY <1>1, <1>5 DEF Queued
<1>7. EveryConnectionIsQueuedOrServed'
  <2>1. \A d \in Client : conn'[d].phase # "None" <=> Queued(d)' \/ serving' = d
    BY <1>1, <1>2, <1>4, <1>6 DEF EveryConnectionIsQueuedOrServed
  <2>2. \A i, j \in 1..n + 1 : backlog'[i] = backlog'[j] => i = j
    BY <1>1, <1>4, <1>5 DEF EveryConnectionIsQueuedOrServed, Queued
  <2>3. ~Queued(serving)'
    BY <1>1, <1>2, <1>4, <1>6 DEF EveryConnectionIsQueuedOrServed
  <2> QED
    BY <1>5, <2>1, <2>2, <2>3 DEF EveryConnectionIsQueuedOrServed
<1>8. PayloadFromAuthenticated' /\ ServesOwnUser'
  BY <1>2, <1>4 DEF IInv, PayloadFromAuthenticated, ServesOwnUser, Client, daemonVars
<1>9. Counts'
  <2>1. \A d \in Client : connects'[d] = IF d = c THEN connects[d] + 1 ELSE connects[d]
    BY <1>1, <1>2 DEF TypeOK
  <2>2. /\ finished' = finished /\ handled' = handled /\ answered' = answered
        /\ \A d \in Client : /\ connects[d] \in Nat /\ finished[d] \in Nat
    BY <1>1, <1>2 DEF TypeOK
  <2>3. NoActionWithoutRequest'
    BY <1>1, <2>1, <2>2 DEF NoActionWithoutRequest
  <2>4. RoomForRequest'
    BY <1>1, <1>4, <2>1, <2>2 DEF NoActionWithoutRequest, RoomForRequest
  <2>5. RoomForAction'
    BY <1>1, <1>4, <2>2 DEF RoomForAction, Whole, Client
  <2> QED
    BY <2>3, <2>4, <2>5 DEF Counts
<1> QED
  BY <1>3, <1>7, <1>8, <1>9 DEF IInv, Counts

\* Steps of a client that keep its connection and send no less.
LEMMA ClientKeeps ==
  ASSUME IInv, NEW c \in Client, conn[c].phase # "None",
         NEW phase \in {"Open", "HalfClosed", "Gone"}, NEW sent \in 0..Whole,
         conn' = [conn EXCEPT ![c] = [phase |-> phase, sent |-> sent]],
         conn[c].sent <= sent,
         UNCHANGED <<daemonVars, serverVars, token>>
  PROVE  /\ EveryConnectionIsQueuedOrServed'
         /\ PayloadFromAuthenticated'
         /\ ServesOwnUser'
         /\ conn' \in [Client -> [phase : {"None", "Open", "HalfClosed", "Gone"}, sent : 0..Whole]]
         /\ conn'[c] = [phase |-> phase, sent |-> sent]
         /\ \A d \in Client \ {c} : conn'[d] = conn[d]
<1>1. TypeOK /\ EveryConnectionIsQueuedOrServed
  BY DEF IInv
<1>2. /\ conn' \in [Client -> [phase : {"None", "Open", "HalfClosed", "Gone"}, sent : 0..Whole]]
      /\ conn'[c] = [phase |-> phase, sent |-> sent]
      /\ \A d \in Client \ {c} : conn'[d] = conn[d]
  BY <1>1 DEF TypeOK
<1>3. \A d \in Client : conn'[d].phase # "None" <=> conn[d].phase # "None"
  BY <1>2
<1>4. EveryConnectionIsQueuedOrServed'
  BY <1>1, <1>3 DEF EveryConnectionIsQueuedOrServed, Queued, serverVars
<1>5. ServesOwnUser'
  BY DEF IInv, ServesOwnUser, serverVars
<1>6. PayloadFromAuthenticated'
  <2> SUFFICES ASSUME stage = "Payload"
               PROVE  /\ serving \in Tool \ Foreign
                      /\ token[serving] = epoch
                      /\ swallowed \in 1..conn'[serving].sent
    BY DEF PayloadFromAuthenticated, daemonVars, serverVars
  <2>1. /\ serving \in Tool \ Foreign /\ token[serving] = epoch
        /\ swallowed \in 1..conn[serving].sent
    BY DEF IInv, PayloadFromAuthenticated
  <2>2. conn[serving].sent \in Nat /\ conn[serving].sent <= conn'[serving].sent
        /\ conn'[serving].sent \in Nat
    <3>1. serving \in Client /\ conn[serving].sent \in 0..Whole /\ sent \in Nat
      <4>1. serving \in Client
        BY <2>1 DEF Client
      <4>2. sent \in Nat
        BY DEF Whole
      <4> QED
        BY <1>1, <4>1, <4>2, ConnType
    <3>2. CASE serving = c
      BY <1>2, <3>1, <3>2 DEF Whole
    <3>3. CASE serving # c
      BY <1>2, <3>1, <3>3 DEF Whole
    <3> QED
      BY <3>2, <3>3
  <2> QED
    BY <2>1, <2>2
<1> QED
  BY <1>2, <1>4, <1>5, <1>6

LEMMA SendInvariant ==
  ASSUME IInv, NEW c \in Client, Send(c)
  PROVE  IInv'
<1> DEFINE n == conn[c].sent + 1
<1>1. TypeOK /\ NoActionWithoutRequest /\ RoomForRequest /\ RoomForAction
  BY DEF IInv
<1>2. conn[c].sent \in 0..Whole /\ conn[c].sent < Whole /\ n \in 0..Whole
      /\ conn[c].phase = "Open" /\ conn[c] = [phase |-> conn[c].phase, sent |-> conn[c].sent]
  BY <1>1, ConnType DEF Send, Whole
<1>3. conn' = [conn EXCEPT ![c] = [phase |-> "Open", sent |-> n]]
  <2>1. [conn[c] EXCEPT !.sent = n] = [phase |-> "Open", sent |-> n]
    BY <1>2
  <2>2. conn' = [conn EXCEPT ![c] = [conn[c] EXCEPT !.sent = n]]
    BY DEF Send
  <2> QED
    BY <2>1, <2>2
<1>4. /\ UNCHANGED <<daemonVars, serverVars, token, connects, handled, answered>>
      /\ finished' = IF c \in Tool /\ conn'[c].sent = Whole
                       THEN [finished EXCEPT ![c] = @ + 1] ELSE finished
  BY DEF Send
<1>5. conn[c].sent <= n
  BY <1>2
<1> HIDE DEF n
<1>6. /\ EveryConnectionIsQueuedOrServed'
      /\ PayloadFromAuthenticated'
      /\ ServesOwnUser'
      /\ conn' \in [Client -> [phase : {"None", "Open", "HalfClosed", "Gone"}, sent : 0..Whole]]
      /\ conn'[c] = [phase |-> "Open", sent |-> n]
      /\ \A d \in Client \ {c} : conn'[d] = conn[d]
  BY <1>2, <1>3, <1>4, <1>5, ClientKeeps
<1>7. /\ finished' \in [Client -> Nat]
      /\ \A d \in Client : finished'[d] =
           IF d = c /\ c \in Tool /\ n = Whole THEN finished[d] + 1 ELSE finished[d]
  <2>1. finished \in [Client -> Nat] /\ finished[c] + 1 \in Nat
    <3>1. finished \in [Client -> Nat]
      BY <1>1 DEF TypeOK
    <3> QED
      BY ONLY <3>1, c \in Client
  <2>2. finished' = IF c \in Tool /\ n = Whole THEN [finished EXCEPT ![c] = finished[c] + 1]
                                               ELSE finished
    BY <1>4, <1>6
  <2> QED
    BY <2>1, <2>2
<1>8. TypeOK'
  BY <1>1, <1>4, <1>6, <1>7 DEF TypeOK, daemonVars, serverVars
<1>9. finished[c] < connects[c]
  BY <1>1, <1>2 DEF RoomForRequest
<1>10. \A d \in Client : /\ connects[d] \in Nat /\ finished[d] \in Nat
                         /\ handled[d] \in Nat /\ answered[d] \in Nat
  BY <1>1, ConnType
<1>11. NoActionWithoutRequest'
  BY <1>1, <1>4, <1>7, <1>9, <1>10 DEF NoActionWithoutRequest
<1>12. RoomForRequest'
  <2> SUFFICES ASSUME NEW d \in Client, conn'[d].phase # "None", conn'[d].sent < Whole
               PROVE  finished'[d] < connects[d]
    BY <1>4 DEF RoomForRequest
  <2>1. CASE d = c
    BY <1>6, <1>7, <1>9, <2>1
  <2>2. CASE d # c
    BY <1>1, <1>6, <1>7, <2>2 DEF RoomForRequest
  <2> QED
    BY <2>1, <2>2
<1>13. RoomForAction'
  <2> SUFFICES ASSUME NEW d \in Tool, conn'[d].phase # "None", conn'[d].sent = Whole
               PROVE  handled[d] < finished'[d]
    BY <1>4 DEF RoomForAction
  <2>1. CASE d = c
    BY <1>1, <1>6, <1>7, <1>10, <2>1 DEF NoActionWithoutRequest
  <2>2. CASE d # c
    BY <1>1, <1>6, <1>7, <2>2 DEF RoomForAction, Client
  <2> QED
    BY <2>1, <2>2
<1> QED
  BY <1>6, <1>8, <1>11, <1>12, <1>13 DEF IInv

\* Half-closing and leaving keep what was sent.
LEMMA PhaseInvariant ==
  ASSUME IInv, NEW c \in Client, HalfClose(c) \/ Vanish(c)
  PROVE  IInv'
<1> DEFINE n == conn[c].sent
<1>1. TypeOK /\ NoActionWithoutRequest /\ RoomForRequest /\ RoomForAction
  BY DEF IInv
<1>2. /\ n \in 0..Whole /\ n <= n
      /\ conn[c].phase # "None" /\ conn[c] = [phase |-> conn[c].phase, sent |-> n]
      /\ UNCHANGED <<daemonVars, serverVars, token, history>>
  BY <1>1, ConnType DEF HalfClose, Vanish, Whole
<1>3. PICK phase \in {"Open", "HalfClosed", "Gone"} :
        conn' = [conn EXCEPT ![c] = [phase |-> phase, sent |-> n]]
  <2>1. PICK phase \in {"Open", "HalfClosed", "Gone"} :
          conn' = [conn EXCEPT ![c] = [conn[c] EXCEPT !.phase = phase]]
    BY DEF HalfClose, Vanish
  <2>2. [conn[c] EXCEPT !.phase = phase] = [phase |-> phase, sent |-> n]
    BY <1>2
  <2> QED
    BY <2>1, <2>2
<1>4. /\ EveryConnectionIsQueuedOrServed'
      /\ PayloadFromAuthenticated'
      /\ ServesOwnUser'
      /\ conn' \in [Client -> [phase : {"None", "Open", "HalfClosed", "Gone"}, sent : 0..Whole]]
      /\ conn'[c] = [phase |-> phase, sent |-> n]
      /\ \A d \in Client \ {c} : conn'[d] = conn[d]
  BY <1>2, <1>3, ClientKeeps
<1>5. TypeOK'
  BY <1>1, <1>2, <1>4 DEF TypeOK, daemonVars, serverVars, history
<1>6. \A d \in Client : /\ conn'[d].phase # "None" => conn[d].phase # "None"
                        /\ conn'[d].sent = conn[d].sent
  BY <1>2, <1>4
<1>7. Counts'
  BY <1>1, <1>2, <1>6 DEF Counts, NoActionWithoutRequest, RoomForRequest, RoomForAction,
                          history, Client
<1> QED
  BY <1>4, <1>5, <1>7 DEF IInv, Counts

-----------------------------------------------------------------------------
(* The daemon *)

LEMMA OnwardType ==
  ASSUME Onward, stopping \in BOOLEAN
  PROVE  /\ stage' \in {"Accept", "Ended"}
         /\ stage' = "Ended" => stopping
  BY DEF Onward

\* A connection that is closed leaves the loop free and the others as they were.
LEMMA Dropped ==
  ASSUME IInv, NEW c \in Client, serving = c, DropConnection(c),
         UNCHANGED <<daemonVars, backlog, token>>
  PROVE  /\ EveryConnectionIsQueuedOrServed'
         /\ PayloadFromAuthenticated'
         /\ ServesOwnUser'
         /\ conn' \in [Client -> [phase : {"None", "Open", "HalfClosed", "Gone"}, sent : 0..Whole]]
         /\ conn'[c] = NoConn
         /\ \A d \in Client \ {c} : conn'[d] = conn[d]
         /\ serving' = Nobody /\ stage' \in {"Accept", "Ended"} /\ swallowed' = 0
         /\ stage' = "Ended" => stopping
<1>1. TypeOK /\ EveryConnectionIsQueuedOrServed
  BY DEF IInv
<1>2. /\ serving' = Nobody /\ stage' \in {"Accept", "Ended"} /\ swallowed' = 0
      /\ stage' = "Ended" => stopping
      /\ conn' = [conn EXCEPT ![c] = NoConn]
  BY <1>1, OnwardType DEF DropConnection, TypeOK
<1>3. NoConn \in [phase : {"None", "Open", "HalfClosed", "Gone"}, sent : 0..Whole]
      /\ NoConn.phase = "None"
  BY DEF NoConn, Whole
<1>4. /\ conn' \in [Client -> [phase : {"None", "Open", "HalfClosed", "Gone"}, sent : 0..Whole]]
      /\ conn'[c] = NoConn
      /\ \A d \in Client \ {c} : conn'[d] = conn[d]
  BY <1>1, <1>2, <1>3 DEF TypeOK
<1>5. Nobody \notin Client /\ Nobody \notin Foreign
  BY ClientAssumption DEF Client
<1>6. \A d : Queued(d)' <=> Queued(d)
  BY DEF Queued
<1>7. ~Queued(Nobody)
  BY <1>1, <1>5 DEF Queued, TypeOK
<1>8. EveryConnectionIsQueuedOrServed'
  BY <1>1, <1>2, <1>3, <1>4, <1>5, <1>6, <1>7 DEF EveryConnectionIsQueuedOrServed
<1>9. PayloadFromAuthenticated' /\ ServesOwnUser'
  BY <1>2, <1>5 DEF PayloadFromAuthenticated, ServesOwnUser
<1> QED
  BY <1>2, <1>4, <1>8, <1>9

\* A connection closed without an action makes no room and takes none.
LEMMA RefusedInvariant ==
  ASSUME IInv, NEW c \in Client, HandshakeRefused(c) \/ RefuseRequest(c)
  PROVE  IInv'
<1>1. TypeOK /\ NoActionWithoutRequest /\ RoomForRequest /\ RoomForAction
  BY DEF IInv
<1>2. /\ serving = c /\ DropConnection(c)
      /\ UNCHANGED <<daemonVars, backlog, token, history>>
  BY DEF HandshakeRefused, RefuseRequest
<1>3. /\ EveryConnectionIsQueuedOrServed'
      /\ PayloadFromAuthenticated'
      /\ ServesOwnUser'
      /\ conn' \in [Client -> [phase : {"None", "Open", "HalfClosed", "Gone"}, sent : 0..Whole]]
      /\ conn'[c] = NoConn
      /\ \A d \in Client \ {c} : conn'[d] = conn[d]
      /\ serving' = Nobody /\ stage' \in {"Accept", "Ended"} /\ swallowed' = 0
      /\ stage' = "Ended" => stopping
  BY <1>2, Dropped
<1>4. TypeOK'
  BY <1>1, <1>2, <1>3 DEF TypeOK, daemonVars, history, Whole
<1>5. Counts'
  BY <1>1, <1>2, <1>3 DEF Counts, NoActionWithoutRequest, RoomForRequest, RoomForAction,
                          history, Client, NoConn
<1> QED
  BY <1>3, <1>4, <1>5 DEF IInv, Counts

\* The action of a request takes the room its last piece made, and the connection is
\* closed before another can be taken from it.
LEMMA HandledInvariant ==
  ASSUME IInv, NEW c \in Client, HandleRequest(c)
  PROVE  IInv'
<1>1. TypeOK /\ NoActionWithoutRequest /\ RoomForRequest /\ RoomForAction
  BY DEF IInv
<1>2. /\ stage = "Payload" /\ serving = c /\ Eof(c) /\ conn[c].sent = Whole /\ DropConnection(c)
      /\ handled' = [handled EXCEPT ![c] = @ + 1]
      /\ answered' = answered \/ answered' = [answered EXCEPT ![c] = @ + 1]
      /\ UNCHANGED <<daemonVars, backlog, token, connects, finished>>
  BY DEF HandleRequest, Parses
<1>3. c \in Tool \ Foreign /\ c \notin Ui
  BY <1>2, ClientAssumption DEF IInv, PayloadFromAuthenticated
<1>4. handled[c] < finished[c]
  BY <1>1, <1>2, <1>3 DEF RoomForAction, Eof
<1>5. /\ EveryConnectionIsQueuedOrServed'
      /\ PayloadFromAuthenticated'
      /\ ServesOwnUser'
      /\ conn' \in [Client -> [phase : {"None", "Open", "HalfClosed", "Gone"}, sent : 0..Whole]]
      /\ conn'[c] = NoConn
      /\ \A d \in Client \ {c} : conn'[d] = conn[d]
      /\ serving' = Nobody /\ stage' \in {"Accept", "Ended"} /\ swallowed' = 0
      /\ stage' = "Ended" => stopping
  BY <1>2, Dropped
<1>6. \A d \in Client : /\ connects[d] \in Nat /\ finished[d] \in Nat
                        /\ handled[d] \in Nat /\ answered[d] \in Nat
  BY <1>1, ConnType
<1>7. /\ handled' \in [Client -> Nat] /\ answered' \in [Client -> Nat]
      /\ handled'[c] = handled[c] + 1 /\ answered'[c] \in {answered[c], answered[c] + 1}
      /\ \A d \in Client \ {c} : handled'[d] = handled[d] /\ answered'[d] = answered[d]
  <2>1. handled \in [Client -> Nat] /\ answered \in [Client -> Nat]
    BY <1>1 DEF TypeOK
  <2>2. /\ handled' \in [Client -> Nat] /\ handled'[c] = handled[c] + 1
        /\ \A d \in Client \ {c} : handled'[d] = handled[d]
    BY <1>2, <2>1
  <2>3. CASE answered' = answered
    BY <2>1, <2>2, <2>3
  <2>4. CASE answered' = [answered EXCEPT ![c] = @ + 1]
    BY <2>1, <2>2, <2>4
  <2> QED
    BY <1>2, <2>3, <2>4
<1>8. TypeOK'
  <2>1. UNCHANGED <<epoch, tokenFile, stopping, backlog, token, connects, finished>>
    BY <1>2 DEF daemonVars
  <2>2. 0 \in 0..Whole
    BY DEF Whole
  <2> QED
    BY <1>1, <1>5, <1>7, <2>1, <2>2 DEF TypeOK
<1>9. NoActionWithoutRequest'
  <2> SUFFICES ASSUME NEW d \in Client
               PROVE  /\ answered'[d] <= handled'[d]
                      /\ handled'[d] <= finished[d]
                      /\ finished[d] <= connects[d]
                      /\ d \in Foreign \cup Ui => handled'[d] = 0
    BY <1>2 DEF NoActionWithoutRequest
  <2>1. CASE d = c
    BY <1>1, <1>3, <1>4, <1>6, <1>7, <2>1 DEF NoActionWithoutRequest
  <2>2. CASE d # c
    BY <1>1, <1>7, <2>2 DEF NoActionWithoutRequest
  <2> QED
    BY <2>1, <2>2
<1>10. RoomForRequest' /\ RoomForAction'
  BY <1>1, <1>2, <1>5, <1>7 DEF RoomForRequest, RoomForAction, Client, NoConn
<1> QED
  BY <1>5, <1>8, <1>9, <1>10 DEF IInv

LEMMA AcceptedInvariant ==
  ASSUME IInv, NEW c \in Client, HandshakeAccepted(c)
  PROVE  IInv'
<1>1. TypeOK
  BY DEF IInv
<1>2. /\ stage = "Handshake" /\ serving = c /\ c \in Tool \ Foreign /\ token[c] = epoch
      /\ swallowed' \in 1..conn[c].sent /\ stage' = "Payload"
      /\ UNCHANGED <<daemonVars, backlog, serving, conn, token, history>>
  BY DEF IInv, ServesOwnUser, HandshakeAccepted, verify_handshake_token
<1>3. conn[c].sent \in 0..Whole /\ Whole \in Nat
  BY <1>1, ConnType DEF Whole
<1>4. TypeOK'
  <2>1. swallowed' \in 0..Whole
    BY <1>2, <1>3
  <2>2. serving # Nobody
    BY <1>2 DEF Client
  <2> QED
    BY <1>1, <1>2, <2>1, <2>2 DEF TypeOK, daemonVars, history
<1>5. PayloadFromAuthenticated' /\ ServesOwnUser'
  BY <1>2 DEF PayloadFromAuthenticated, ServesOwnUser, daemonVars
<1>6. EveryConnectionIsQueuedOrServed' /\ Counts'
  BY <1>2 DEF IInv, EveryConnectionIsQueuedOrServed, Queued, Counts, NoActionWithoutRequest,
              RoomForRequest, RoomForAction, history
<1> QED
  BY <1>4, <1>5, <1>6 DEF IInv, Counts

\* The next connection leaves the backlog for the loop, or is closed.
LEMMA AcceptInvariant ==
  ASSUME IInv, accept_stream
  PROVE  IInv'
<1> DEFINE c == Head(backlog)
           n == Len(backlog)
<1>1. TypeOK /\ EveryConnectionIsQueuedOrServed /\ backlog \in Seq(Client) /\ backlog # <<>>
      /\ RoomForRequest /\ RoomForAction /\ NoActionWithoutRequest
  BY DEF IInv, TypeOK, accept_stream
<1>2. /\ stage = "Accept" /\ serving = Nobody
      /\ backlog' = Tail(backlog)
      /\ UNCHANGED <<daemonVars, swallowed, token, history>>
  BY <1>1 DEF accept_stream, TypeOK
<1>3. /\ n \in Nat /\ n > 0 /\ c \in Client /\ c = backlog[1]
      /\ DOMAIN backlog = 1..n /\ DOMAIN backlog' = 1..n - 1
      /\ \A i \in 1..n - 1 : backlog'[i] = backlog[i + 1]
      /\ backlog' \in Seq(Client)
  BY <1>1, <1>2
<1>4. \/ /\ c \in Foreign /\ Onward /\ UNCHANGED serving
         /\ conn' = [conn EXCEPT ![c] = NoConn]
      \/ /\ c \notin Foreign /\ serving' = c /\ stage' = "Handshake" /\ UNCHANGED conn
  BY DEF accept_stream
<1> HIDE DEF c, n
<1>5. \A i, j \in 1..n : backlog[i] = backlog[j] => i = j
  BY <1>1, <1>3 DEF EveryConnectionIsQueuedOrServed
<1>6. \A d : Queued(d)' <=> Queued(d) /\ d # c
  <2> SUFFICES ASSUME NEW d
               PROVE  Queued(d)' <=> (Queued(d) /\ d # c)
    OBVIOUS
  <2>0. /\ Queued(d)' <=> \E i \in 1..n - 1 : backlog[i + 1] = d
        /\ Queued(d) <=> \E i \in 1..n : backlog[i] = d
    BY <1>3 DEF Queued
  <2>1. ASSUME NEW i \in 1..n - 1, backlog[i + 1] = d
        PROVE  (\E k \in 1..n : backlog[k] = d) /\ d # c
    <3>1. i + 1 \in 1..n /\ 1 \in 1..n /\ i + 1 # 1
      BY <1>3
    <3> QED
      BY <1>3, <1>5, <2>1, <3>1
  <2>2. ASSUME NEW i \in 1..n, backlog[i] = d, d # c
        PROVE  \E k \in 1..n - 1 : backlog[k + 1] = d
    <3>1. i # 1
      BY <1>3, <2>2
    <3>2. i - 1 \in 1..n - 1 /\ (i - 1) + 1 = i
      BY <1>3, <3>1
    <3> QED
      BY <2>2, <3>2
  <2> QED
    BY <2>0, <2>1, <2>2
<1>7. \A i, j \in DOMAIN backlog' : backlog'[i] = backlog'[j] => i = j
  BY <1>3, <1>5
<1>8. Queued(c)
  BY <1>3 DEF Queued
<1>9. CASE /\ c \in Foreign /\ Onward /\ UNCHANGED serving
           /\ conn' = [conn EXCEPT ![c] = NoConn]
  <2>1. NoConn \in [phase : {"None", "Open", "HalfClosed", "Gone"}, sent : 0..Whole]
        /\ NoConn.phase = "None"
    BY DEF NoConn, Whole
  <2>2. /\ conn' \in [Client -> [phase : {"None", "Open", "HalfClosed", "Gone"}, sent : 0..Whole]]
        /\ conn'[c] = NoConn
        /\ \A d \in Client \ {c} : conn'[d] = conn[d]
    BY <1>1, <1>3, <1>9, <2>1 DEF TypeOK
  <2>3. stage' \in {"Accept", "Ended"} /\ (stage' = "Ended" => stopping)
    BY <1>1, <1>9, OnwardType DEF TypeOK
  <2>4. TypeOK'
    BY <1>1, <1>2, <1>3, <1>9, <2>2, <2>3 DEF TypeOK, daemonVars, history
  <2>5. serving' = Nobody /\ Nobody \notin Client /\ c # Nobody
    BY <1>2, <1>3, <1>9 DEF Client
  <2>6. EveryConnectionIsQueuedOrServed'
    <3>1. \A d \in Client : conn'[d].phase # "None" <=> Queued(d)' \/ serving' = d
      BY <1>1, <1>2, <1>6, <2>1, <2>2, <2>5 DEF EveryConnectionIsQueuedOrServed
    <3>2. ~Queued(serving)'
      BY <1>1, <1>2, <1>6, <2>5 DEF EveryConnectionIsQueuedOrServed
    <3> QED
      BY <1>7, <3>1, <3>2 DEF EveryConnectionIsQueuedOrServed
  <2>7. PayloadFromAuthenticated' /\ ServesOwnUser'
    BY <1>9, <2>3 DEF IInv, PayloadFromAuthenticated, ServesOwnUser
  <2>8. Counts'
    <3>1. UNCHANGED <<connects, finished, handled, answered>>
      BY <1>2 DEF history
    <3>2. NoActionWithoutRequest'
      BY <1>1, <3>1 DEF NoActionWithoutRequest
    <3>3. \A d \in Client : conn'[d].phase # "None" => d # c /\ conn'[d] = conn[d]
      BY <2>1, <2>2
    <3>4. RoomForRequest'
      BY <1>1, <3>1, <3>3 DEF RoomForRequest
    <3>5. RoomForAction'
      BY <1>1, <3>1, <3>3 DEF RoomForAction, Client
    <3> QED
      BY <3>2, <3>4, <3>5 DEF Counts
  <2> QED
    BY <2>4, <2>6, <2>7, <2>8 DEF IInv, Counts
<1>10. CASE c \notin Foreign /\ serving' = c /\ stage' = "Handshake" /\ UNCHANGED conn
  <2>1. c # Nobody
    BY <1>3 DEF Client
  <2>2. TypeOK'
    BY <1>1, <1>2, <1>3, <1>10, <2>1 DEF TypeOK, daemonVars, history
  <2>3. EveryConnectionIsQueuedOrServed'
    <3>1. \A d \in Client : conn'[d].phase # "None" <=> Queued(d)' \/ serving' = d
      <4>1. \A d \in Client : d # serving
        BY <1>2 DEF Client
      <4> QED
        BY <1>1, <1>6, <1>8, <1>10, <4>1 DEF EveryConnectionIsQueuedOrServed
    <3>2. ~Queued(serving)'
      BY <1>6, <1>10 DEF Queued
    <3> QED
      BY <1>7, <3>1, <3>2 DEF EveryConnectionIsQueuedOrServed
  <2>4. PayloadFromAuthenticated' /\ ServesOwnUser'
    BY <1>10 DEF PayloadFromAuthenticated, ServesOwnUser
  <2>5. Counts'
    BY <1>1, <1>2, <1>10 DEF Counts, NoActionWithoutRequest, RoomForRequest, RoomForAction,
                             history
  <2> QED
    BY <2>2, <2>3, <2>4, <2>5 DEF IInv, Counts
<1> QED
  BY <1>4, <1>9, <1>10

\* The token file and the signal: no connection changes.
LEMMA RunInvariant ==
  ASSUME IInv, write_token_file \/ Stop
  PROVE  IInv'
<1>1. TypeOK
  BY DEF IInv
<1>2. /\ UNCHANGED <<epoch, backlog, serving, swallowed, conn, token, history>>
      /\ tokenFile' \in {0, epoch}
      /\ \/ stage' = stage /\ stopping' = stopping
         \/ stage' = stage /\ stopping' = TRUE
         \/ stage = "Accept" /\ stage' = "Ended" /\ stopping' = TRUE
  BY DEF write_token_file, Stop, serverVars
<1>3. TypeOK'
  <2>1. tokenFile' \in 0..epoch
    BY <1>1, <1>2 DEF TypeOK
  <2>2. stopping' \in BOOLEAN
    BY <1>1, <1>2 DEF TypeOK
  <2>3. /\ stage' \in {"Accept", "Handshake", "Payload", "Ended"}
        /\ stage' \in {"Accept", "Ended"} <=> stage \in {"Accept", "Ended"}
        /\ stage' = "Ended" => stopping'
    <3>1. stage \in {"Accept", "Handshake", "Payload", "Ended"} /\ (stage = "Ended" => stopping)
      BY <1>1 DEF TypeOK
    <3> QED
      BY <1>2, <3>1
  <2> QED
    BY <1>1, <1>2, <2>1, <2>2, <2>3 DEF TypeOK, history
<1>4. EveryConnectionIsQueuedOrServed' /\ PayloadFromAuthenticated' /\ ServesOwnUser'
  BY <1>2 DEF IInv, EveryConnectionIsQueuedOrServed, Queued, PayloadFromAuthenticated,
              ServesOwnUser
<1>5. Counts'
  BY <1>2 DEF IInv, Counts, NoActionWithoutRequest, RoomForRequest, RoomForAction, history
<1> QED
  BY <1>3, <1>4, <1>5 DEF IInv, Counts

\* A restart closes every connection; what was counted stays counted.
LEMMA RestartInvariant ==
  ASSUME IInv, Restart
  PROVE  IInv'
<1>1. TypeOK
  BY DEF IInv
<1>2. /\ epoch' = epoch + 1 /\ epoch < MaxRuns /\ stopping' = FALSE /\ backlog' = <<>>
      /\ serving' = Nobody /\ stage' = "Accept" /\ swallowed' = 0
      /\ conn' = [c \in Client |-> NoConn]
      /\ UNCHANGED <<tokenFile, token, history>>
  BY DEF Restart
<1>3. TypeOK'
  <2>1. epoch \in 1..MaxRuns /\ tokenFile \in 0..epoch /\ token \in [Client -> 0..epoch]
    BY <1>1 DEF TypeOK
  <2>2. epoch' \in 1..MaxRuns /\ tokenFile' \in 0..epoch' /\ 0..epoch \subseteq 0..epoch'
    BY <1>2, <2>1
  <2>3. token' \in [Client -> 0..epoch']
    BY <1>2, <2>1, <2>2
  <2>4. conn' \in [Client -> [phase : {"None", "Open", "HalfClosed", "Gone"}, sent : 0..Whole]]
    BY <1>2 DEF NoConn, Whole
  <2>5. backlog' \in Seq(Client) /\ swallowed' \in 0..Whole
    BY <1>2 DEF Whole
  <2> QED
    BY <1>1, <1>2, <2>2, <2>3, <2>4, <2>5 DEF TypeOK, history
<1>4. \A c \in Client : conn'[c].phase = "None"
  BY <1>2 DEF NoConn
<1>5. \A c : ~Queued(c)'
  BY <1>2 DEF Queued
<1>6. EveryConnectionIsQueuedOrServed'
  <2>1. \A c \in Client : serving' # c
    BY <1>2 DEF Client
  <2> QED
    BY <1>2, <1>4, <1>5, <2>1 DEF EveryConnectionIsQueuedOrServed
<1>7. PayloadFromAuthenticated' /\ ServesOwnUser'
  BY <1>2, ClientAssumption DEF PayloadFromAuthenticated, ServesOwnUser
<1>8. Counts'
  BY <1>2, <1>4 DEF IInv, Counts, NoActionWithoutRequest, RoomForRequest, RoomForAction,
                    history, Client
<1> QED
  BY <1>3, <1>6, <1>7, <1>8 DEF IInv, Counts

LEMMA StutterInvariant ==
  ASSUME IInv, UNCHANGED vars
  PROVE  IInv'
<1>1. UNCHANGED <<epoch, tokenFile, stopping, backlog, serving, stage, swallowed, conn, token,
                  connects, finished, handled, answered>>
  BY DEF vars, daemonVars, serverVars, history
<1>2. TypeOK'
  BY <1>1 DEF IInv, TypeOK
<1>3. EveryConnectionIsQueuedOrServed' /\ PayloadFromAuthenticated' /\ ServesOwnUser'
  BY <1>1 DEF IInv, EveryConnectionIsQueuedOrServed, Queued, PayloadFromAuthenticated,
              ServesOwnUser
<1>4. Counts'
  BY <1>1 DEF IInv, Counts, NoActionWithoutRequest, RoomForRequest, RoomForAction
<1> QED
  BY <1>2, <1>3, <1>4 DEF IInv, Counts

-----------------------------------------------------------------------------
(* The theorems *)

\* The invariant: the connections, the loop and the counters of requests, actions and
\* replies fit together in every reachable state.
THEOREM Invariance == Spec => []IInv
<1>1. IInv /\ [Next]_vars => IInv'
  <2> SUFFICES ASSUME IInv, [Next]_vars PROVE IInv'
    OBVIOUS
  <2>1. ASSUME NEW c \in Client, ReadTokenFile(c) PROVE IInv'
    BY <2>1, ReadTokenInvariant
  <2>2. ASSUME NEW c \in Client, Connect(c) PROVE IInv'
    BY <2>2, ConnectInvariant
  <2>3. ASSUME NEW c \in Client, Send(c) PROVE IInv'
    BY <2>3, SendInvariant
  <2>4. ASSUME NEW c \in Client, HalfClose(c) \/ Vanish(c) PROVE IInv'
    BY <2>4, PhaseInvariant
  <2>5. ASSUME NEW c \in Client, Serve(c) PROVE IInv'
    BY <2>5, AcceptedInvariant, RefusedInvariant, HandledInvariant DEF Serve
  <2>6. CASE accept_stream
    BY <2>6, AcceptInvariant
  <2>7. CASE write_token_file \/ Stop
    BY <2>7, RunInvariant
  <2>8. CASE Restart
    BY <2>8, RestartInvariant
  <2>9. CASE UNCHANGED vars
    BY <2>9, StutterInvariant
  <2> QED
    BY <2>1, <2>2, <2>3, <2>4, <2>5, <2>6, <2>7, <2>8, <2>9 DEF Next
<1> QED
  BY <1>1, InitIInv, PTL DEF Spec

\* No error path of the loop, no client that leaves and no restart loses a connection
\* or leaves one served twice (main.rs:186-205, accept_stream).
THEOREM NoConnectionIsLost == Spec => []EveryConnectionIsQueuedOrServed
<1>1. IInv => EveryConnectionIsQueuedOrServed
  BY DEF IInv
<1> QED
  BY <1>1, Invariance, PTL

\* A request is read only from a process of this user with the token of this very run
\* (verify_handshake_token), however many runs there were before.
THEOREM OnlyAuthenticatedAreHeard == Spec => []PayloadFromAuthenticated
<1>1. IInv => PayloadFromAuthenticated
  BY DEF IInv
<1> QED
  BY <1>1, Invariance, PTL

\* Replies stand for actions and actions for whole requests, one for one at the most,
\* for any number of connections that break or are retried.
THEOREM ActionsMatchRequests == Spec => []NoActionWithoutRequest
<1>1. IInv => NoActionWithoutRequest
  BY DEF IInv
<1> QED
  BY <1>1, Invariance, PTL

\* The type of the channel's state.
THEOREM TypeCorrectness == Spec => []TypeOK
<1>1. IInv => TypeOK
  BY DEF IInv
<1> QED
  BY <1>1, Invariance, PTL

-----------------------------------------------------------------------------
(* Every step is a step of the contract *)

Connected == {c \in Client : conn[c].phase # "None"}
WholeSent == {c \in Client : conn[c].phase # "None" /\ conn[c].sent = Whole}
Queue     == IF serving = Nobody THEN backlog ELSE <<serving>> \o backlog

\* The queue of the contract, seen from its head.
LEMMA InFront ==
  ASSUME NEW S, NEW s \in Seq(S), NEW x \in S, NEW y \in S
  PROVE  /\ <<x>> \o s # <<>>
         /\ Head(<<x>> \o s) = x
         /\ Tail(<<x>> \o s) = s
         /\ Append(<<x>> \o s, y) = <<x>> \o Append(s, y)
<1>1. <<x>> \o s # <<>> /\ Head(<<x>> \o s) = x
  OBVIOUS
<1>2. Tail(<<x>> \o s) = s
  OBVIOUS
<1>3. Append(<<x>> \o s, y) = <<x>> \o Append(s, y)
  OBVIOUS
<1> QED
  BY <1>1, <1>2, <1>3

LEMMA HeadInFront ==
  ASSUME NEW S, NEW s \in Seq(S), s # <<>>
  PROVE  Head(s) \in S /\ <<Head(s)>> \o Tail(s) = s
  OBVIOUS

LEMMA InitContract == Init => Contract!Init
  BY DEF Init, Contract!Init, NoConn

LEMMA ConnectContract ==
  ASSUME IInv, NEW c \in Client, Connect(c)
  PROVE  Contract!Arrive(c)
<1>1. /\ conn \in [Client -> [phase : {"None", "Open", "HalfClosed", "Gone"}, sent : 0..Whole]]
      /\ backlog \in Seq(Client) /\ serving \in Client \cup {Nobody}
  BY DEF IInv, TypeOK
<1>2. /\ conn[c].phase = "None"
      /\ conn' = [conn EXCEPT ![c] = [phase |-> "Open", sent |-> 0]]
      /\ backlog' = Append(backlog, c)
      /\ UNCHANGED <<serving, handled, answered>>
  BY DEF Connect
<1>3. conn'[c] = [phase |-> "Open", sent |-> 0] /\ \A d \in Client \ {c} : conn'[d] = conn[d]
  BY <1>1, <1>2
<1>4. c \notin Connected /\ Connected' = Connected \cup {c} /\ WholeSent' = WholeSent
  BY <1>2, <1>3 DEF Connected, WholeSent, Whole
<1>5. Queue' = Append(Queue, c)
  <2>1. CASE serving = Nobody
    BY <1>2, <2>1 DEF Queue
  <2>2. CASE serving # Nobody
    <3>1. serving \in Client /\ Queue = <<serving>> \o backlog
      BY <1>1, <2>2 DEF Queue
    <3>2. Queue' = <<serving>> \o Append(backlog, c)
      BY <1>2, <2>2 DEF Queue
    <3>3. Append(<<serving>> \o backlog, c) = <<serving>> \o Append(backlog, c)
      BY ONLY <1>1, <3>1, InFront, c \in Client
    <3> QED
      BY <3>1, <3>2, <3>3
  <2> QED
    BY <2>1, <2>2
<1> QED
  BY <1>2, <1>4, <1>5 DEF Contract!Arrive, Connected, WholeSent, Queue

\* A piece that makes the request whole counts; other pieces, a half-close and a
\* client's end are nothing to the contract.
LEMMA ClientContract ==
  ASSUME IInv, NEW c \in Client,
         ReadTokenFile(c) \/ Send(c) \/ HalfClose(c) \/ Vanish(c)
  PROVE  [Contract!Next]_(Contract!vars)
<1>1. conn \in [Client -> [phase : {"None", "Open", "HalfClosed", "Gone"}, sent : 0..Whole]]
  BY DEF IInv, TypeOK
<1>2. UNCHANGED <<Queue, handled, answered>>
  BY DEF ReadTokenFile, Send, HalfClose, Vanish, serverVars, history, Queue
<1>3. \A d \in Client \ {c} : conn'[d] = conn[d]
  BY <1>1 DEF ReadTokenFile, Send, HalfClose, Vanish
<1>4. /\ conn'[c].phase # "None" <=> conn[c].phase # "None"
      /\ \/ conn'[c].sent = conn[c].sent
         \/ /\ conn[c].phase # "None" /\ conn[c].sent < Whole
            /\ conn'[c].sent = conn[c].sent + 1
  <2>1. CASE ReadTokenFile(c)
    BY <2>1 DEF ReadTokenFile
  <2>2. CASE Send(c)
    <3>1. /\ conn[c].phase = "Open" /\ conn[c].sent < Whole
          /\ conn' = [conn EXCEPT ![c].sent = @ + 1]
      BY <2>2 DEF Send
    <3>2. conn'[c].phase = conn[c].phase /\ conn'[c].sent = conn[c].sent + 1
      BY ONLY <1>1, <3>1, c \in Client
    <3> QED
      BY <3>1, <3>2
  <2>3. CASE HalfClose(c)
    <3>1. conn[c].phase = "Open" /\ conn' = [conn EXCEPT ![c].phase = "HalfClosed"]
      BY <2>3 DEF HalfClose
    <3>2. conn'[c].phase = "HalfClosed" /\ conn'[c].sent = conn[c].sent
      BY ONLY <1>1, <3>1, c \in Client
    <3> QED
      BY <3>1, <3>2
  <2>4. CASE Vanish(c)
    <3>1. /\ conn[c].phase \in {"Open", "HalfClosed"}
          /\ conn' = [conn EXCEPT ![c].phase = "Gone"]
      BY <2>4 DEF Vanish
    <3>2. conn'[c].phase = "Gone" /\ conn'[c].sent = conn[c].sent
      BY ONLY <1>1, <3>1, c \in Client
    <3> QED
      BY <3>1, <3>2
  <2> QED
    BY <2>1, <2>2, <2>3, <2>4
<1>5. Connected' = Connected
  BY <1>3, <1>4 DEF Connected
<1>6. CASE conn'[c].sent = conn[c].sent
  <2>1. WholeSent' = WholeSent
    BY <1>3, <1>4, <1>6 DEF WholeSent
  <2> QED
    BY <1>2, <1>5, <2>1 DEF Contract!vars, Connected, WholeSent, Queue
<1>7. CASE /\ conn[c].phase # "None" /\ conn[c].sent < Whole
           /\ conn'[c].sent = conn[c].sent + 1
  <2>1. c \in Connected \ WholeSent
    BY <1>7 DEF Connected, WholeSent, Whole
  <2>2. CASE conn'[c].sent = Whole
    <3>1. WholeSent' = WholeSent \cup {c}
      BY <1>3, <1>4, <1>7, <2>2 DEF WholeSent
    <3>2. Contract!Complete(c)
      BY <1>2, <1>5, <2>1, <3>1 DEF Contract!Complete, Connected, WholeSent, Queue
    <3> QED
      BY <3>2 DEF Contract!Next
  <2>3. CASE conn'[c].sent # Whole
    <3>1. WholeSent' = WholeSent
      BY <1>3, <2>1, <2>3 DEF WholeSent
    <3> QED
      BY <1>2, <1>5, <3>1 DEF Contract!vars, Connected, WholeSent, Queue
  <2> QED
    BY <2>2, <2>3
<1> QED
  BY <1>4, <1>6, <1>7

\* A connection that is closed was at the head of the queue.
LEMMA DropLeaves ==
  ASSUME IInv, NEW c \in Client, serving = c, DropConnection(c), UNCHANGED backlog
  PROVE  Contract!Leave(c)
<1>1. /\ conn \in [Client -> [phase : {"None", "Open", "HalfClosed", "Gone"}, sent : 0..Whole]]
      /\ backlog \in Seq(Client) /\ c # Nobody
  BY DEF IInv, TypeOK, Client
<1>2. /\ Queue = <<c>> \o backlog /\ Queue' = backlog
      /\ conn' = [conn EXCEPT ![c] = NoConn]
  BY <1>1 DEF Queue, DropConnection
<1>3. Queue # <<>> /\ Head(Queue) = c /\ Tail(Queue) = Queue'
  <2>1. <<c>> \o backlog # <<>> /\ Head(<<c>> \o backlog) = c /\ Tail(<<c>> \o backlog) = backlog
    BY ONLY <1>1, InFront
  <2> QED
    BY ONLY <1>2, <2>1
<1>4. conn'[c].phase = "None" /\ \A d \in Client \ {c} : conn'[d] = conn[d]
  BY <1>1, <1>2 DEF NoConn
<1>5. Connected' = Connected \ {c} /\ WholeSent' = WholeSent \ {c}
  BY <1>4 DEF Connected, WholeSent
<1> QED
  BY <1>3, <1>5 DEF Contract!Leave, Connected, WholeSent, Queue

LEMMA ServeContract ==
  ASSUME IInv, NEW c \in Client, Serve(c)
  PROVE  [Contract!Next]_(Contract!vars)
<1>1. CASE HandshakeAccepted(c)
  BY <1>1 DEF HandshakeAccepted, history, Contract!vars
<1>2. CASE HandshakeRefused(c) \/ RefuseRequest(c)
  <2>1. Contract!Leave(c)
    BY <1>2, DropLeaves DEF HandshakeRefused, RefuseRequest
  <2>2. Contract!Refuse(c)
    BY <1>2, <2>1 DEF HandshakeRefused, RefuseRequest, history, Contract!Refuse
  <2> QED
    BY <2>2 DEF Contract!Next
<1>3. CASE HandleRequest(c)
  <2>1. Contract!Leave(c)
    BY <1>3, DropLeaves DEF HandleRequest
  <2>2. /\ c \in Tool \ Foreign /\ conn[c].phase # "None" /\ conn[c].sent = Whole
        /\ handled' = [handled EXCEPT ![c] = @ + 1]
        /\ answered' \in {answered, [answered EXCEPT ![c] = @ + 1]}
    BY <1>3 DEF IInv, PayloadFromAuthenticated, HandleRequest, Parses, Eof
  <2>3. Contract!Act(c)
    BY <2>1, <2>2 DEF Contract!Act
  <2> QED
    BY <2>3 DEF Contract!Next
<1> QED
  BY <1>1, <1>2, <1>3 DEF Serve

\* The next connection is taken out of the backlog into service, where it still heads
\* the queue, or it is closed.
LEMMA AcceptContract ==
  ASSUME IInv, accept_stream
  PROVE  [Contract!Next]_(Contract!vars)
<1>1. /\ conn \in [Client -> [phase : {"None", "Open", "HalfClosed", "Gone"}, sent : 0..Whole]]
      /\ backlog \in Seq(Client) /\ backlog # <<>> /\ serving = Nobody
      /\ backlog' = Tail(backlog) /\ UNCHANGED <<handled, answered>>
  BY DEF IInv, TypeOK, accept_stream, history
<1> PICK c \in Client : c = Head(backlog)
  BY <1>1, HeadInFront
<1>2. <<c>> \o Tail(backlog) = backlog /\ c # Nobody
  BY <1>1, HeadInFront DEF Client
<1>3. \/ /\ serving' = serving /\ conn' = [conn EXCEPT ![c] = NoConn]
      \/ serving' = c /\ conn' = conn
  BY DEF accept_stream
<1>4. Queue = backlog
  BY <1>1 DEF Queue
<1>5. CASE serving' = c /\ conn' = conn
  <2>1. Queue' = Queue
    BY <1>1, <1>2, <1>4, <1>5 DEF Queue
  <2> QED
    BY <1>1, <1>5, <2>1 DEF Contract!vars, Queue
<1>6. CASE serving' = serving /\ conn' = [conn EXCEPT ![c] = NoConn]
  <2>1. Queue # <<>> /\ c = Head(Queue) /\ Queue' = Tail(Queue)
    BY <1>1, <1>4, <1>6 DEF Queue
  <2>2. conn'[c].phase = "None" /\ \A d \in Client \ {c} : conn'[d] = conn[d]
    BY <1>1, <1>2, <1>6 DEF NoConn
  <2>3. Connected' = Connected \ {c} /\ WholeSent' = WholeSent \ {c}
    BY <2>2 DEF Connected, WholeSent
  <2>4. Contract!Refuse(c)
    BY <1>1, <2>1, <2>3 DEF Contract!Refuse, Contract!Leave, Connected, WholeSent, Queue
  <2> QED
    BY <2>4 DEF Contract!Next
<1> QED
  BY <1>3, <1>5, <1>6

LEMMA RestartContract == ASSUME Restart PROVE Contract!Crash
  BY DEF Restart, Contract!Crash, NoConn, history

\* The channel serves its clients as ServiceContract promises: in the order they came,
\* one at a time, each acted on at most once and only with its whole request, through
\* every error path, stop and kill (lib.rs, accept_stream to handle_client_stream;
\* main.rs:153-221).
THEOREM ImplementsContract == Spec => ServiceSpec
<1>1. IInv /\ [Next]_vars => [Contract!Next]_(Contract!vars)
  <2> SUFFICES ASSUME IInv, [Next]_vars PROVE [Contract!Next]_(Contract!vars)
    OBVIOUS
  <2>1. ASSUME NEW c \in Client, Connect(c) PROVE Contract!Next
    BY <2>1, ConnectContract DEF Contract!Next
  <2>2. ASSUME NEW c \in Client,
               ReadTokenFile(c) \/ Send(c) \/ HalfClose(c) \/ Vanish(c)
        PROVE  [Contract!Next]_(Contract!vars)
    BY <2>2, ClientContract
  <2>3. ASSUME NEW c \in Client, Serve(c) PROVE [Contract!Next]_(Contract!vars)
    BY <2>3, ServeContract
  <2>4. CASE accept_stream
    BY <2>4, AcceptContract
  <2>5. CASE Restart
    BY <2>5, RestartContract DEF Contract!Next
  <2>6. CASE write_token_file \/ Stop \/ UNCHANGED vars
    BY <2>6 DEF Contract!vars, write_token_file, Stop, vars, serverVars, history
  <2> QED
    BY <2>1, <2>2, <2>3, <2>4, <2>5, <2>6 DEF Next
<1> QED
  BY <1>1, InitContract, Invariance, PTL DEF Spec, ServiceSpec, Contract!Spec
=============================================================================
