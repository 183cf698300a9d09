-------------------------------- MODULE Channel --------------------------------
(***************************************************************************)
(* One Unix-socket channel of the daemon and the processes that connect to *)
(* it (crates/ai-bridge-channels/src/lib.rs; the loop that serves it is in *)
(* main.rs).  The three channels run the same loop, each on its own.       *)
(*                                                                         *)
(* The loop serves one connection at a time: accept, check the peer's uid, *)
(* read the handshake line, check the token, read the request until the    *)
(* client closes its sending side, call the handler, write the reply.      *)
(*                                                                         *)
(* A stop is clean when the daemon catches its signal: the loop's task is  *)
(* aborted and socket and token files go, but the thread that accepts and  *)
(* serves cannot be aborted, and the process lives until that thread ends. *)
(*                                                                         *)
(* A request is what the handler can tell apart: the handshake line and    *)
(* two parts of a JSON text, which parses only if the handler gets both.   *)
(* A token is named by the run of the daemon that generated it; 0 is none. *)
(***************************************************************************)
EXTENDS Naturals, Sequences, FiniteSets

CONSTANTS
  Tool,         \* clients that present a token and then send one request
  Ui,           \* the dashboard: sends event lines and never a token
  Foreign,      \* clients that run under another uid
  Nobody,       \* no connection is being served
  MaxConnects,  \* bound: connections made, by all clients together
  MaxRuns       \* bound: runs of the daemon

ASSUME ClientAssumption == Tool \cap Ui = {} /\ Foreign \subseteq Tool \cup Ui
ASSUME NobodyAssumption == Nobody \notin Tool \cup Ui
ASSUME BoundsAssumption == MaxConnects \in Nat /\ MaxRuns \in Nat \ {0}

Client == Tool \cup Ui

\* The pieces of a request: the handshake line and two parts of the JSON text.
Whole == 3

VARIABLES
  epoch,      \* the run of the daemon, and so the token it compares with
  tokenFile,  \* the token in the channel's .token file, 0 when there is none
  stopping,   \* the run has caught its signal
  backlog,    \* connections not yet accepted, in order
  serving,    \* the connection being served
  stage,      \* how far the loop is with it
  swallowed,  \* pieces of it the handshake's buffered reader has consumed
  conn,       \* per client: its end of its connection and the pieces it sent
  token,      \* per client: the token it last read from the file
  connects,   \* history, per client: connections made
  finished,   \* history, per client: requests sent to the end
  handled,    \* history, per client: requests the handler acted on
  answered    \* history, per client: replies written to a client still there

daemonVars == <<epoch, tokenFile, stopping>>
serverVars == <<backlog, serving, stage, swallowed>>
history    == <<connects, finished, handled, answered>>
vars == <<daemonVars, serverVars, conn, token, history>>

NoConn == [phase |-> "None", sent |-> 0]

TypeOK ==
  /\ epoch \in 1..MaxRuns
  /\ tokenFile \in 0..epoch
  /\ backlog \in Seq(Client)
  /\ serving \in Client \cup {Nobody}
  /\ stopping \in BOOLEAN
  /\ stage \in {"Accept", "Handshake", "Payload", "Ended"}
  /\ stage \in {"Accept", "Ended"} <=> serving = Nobody
  /\ stage = "Ended" => stopping
  /\ swallowed \in 0..Whole
  /\ conn \in [Client -> [phase : {"None", "Open", "HalfClosed", "Gone"},
                          sent : 0..Whole]]
  /\ token \in [Client -> 0..epoch]
  /\ connects \in [Client -> Nat]
  /\ finished \in [Client -> Nat]
  /\ handled \in [Client -> Nat]
  /\ answered \in [Client -> Nat]

\* Reading the connection past what was sent returns end-of-file.
Eof(c) == conn[c].phase \in {"HalfClosed", "Gone"}

-----------------------------------------------------------------------------
(* Clients *)

\* A tool looks the token up again whenever it likes between connections.
ReadTokenFile(c) ==
  /\ c \in Tool
  /\ conn[c].phase = "None"
  /\ tokenFile # 0
  /\ token[c] # tokenFile
  /\ token' = [token EXCEPT ![c] = tokenFile]
  /\ UNCHANGED <<daemonVars, serverVars, conn, history>>

AllConnects == {x \in Client \X (1..MaxConnects) : x[2] <= connects[x[1]]}

Connect(c) ==
  /\ conn[c].phase = "None"
  /\ ~stopping
  /\ c \in Ui \/ token[c] # 0
  /\ Cardinality(AllConnects) < MaxConnects
  /\ conn' = [conn EXCEPT ![c] = [phase |-> "Open", sent |-> 0]]
  /\ backlog' = Append(backlog, c)
  /\ connects' = [connects EXCEPT ![c] = @ + 1]
  /\ UNCHANGED <<daemonVars, serving, stage, swallowed, token,
                 finished, handled, answered>>

\* The next piece of the request, or the next event line of the dashboard.
Send(c) ==
  /\ conn[c].phase = "Open"
  /\ conn[c].sent < Whole
  /\ conn' = [conn EXCEPT ![c].sent = @ + 1]
  /\ finished' = IF c \in Tool /\ conn'[c].sent = Whole
                 THEN [finished EXCEPT ![c] = @ + 1] ELSE finished
  /\ UNCHANGED <<daemonVars, serverVars, token, connects, handled, answered>>

\* A tool closes its sending side and waits for the reply.
HalfClose(c) ==
  /\ c \in Tool
  /\ conn[c].phase = "Open"
  /\ conn[c].sent = Whole
  /\ conn' = [conn EXCEPT ![c].phase = "HalfClosed"]
  /\ UNCHANGED <<daemonVars, serverVars, token, history>>

\* A client exits, crashes or gives up, wherever it is; what it sent can still be
\* read.
Vanish(c) ==
  /\ conn[c].phase \in {"Open", "HalfClosed"}
  /\ conn' = [conn EXCEPT ![c].phase = "Gone"]
  /\ UNCHANGED <<daemonVars, serverVars, token, history>>

-----------------------------------------------------------------------------
(* The daemon *)

\* Mutant: a token of any run will do.
TokenOfAnyRun(c) == c \in Tool /\ token[c] # 0

\* Whether c's first line is a handshake line with the token of this run.
verify_handshake_token(c) == c \in Tool /\ token[c] = epoch

\* Mutant: an aborted loop goes round.
OnwardAnyhow == stage' = "Accept"

\* The loop goes round, or its task was aborted and the thread ends.
Onward == stage' = IF stopping THEN "Ended" ELSE "Accept"

\* Mutant: the loop goes round with the stream still open.
LeakConnection(c) ==
  /\ serving' = Nobody
  /\ Onward
  /\ swallowed' = 0
  /\ UNCHANGED conn

\* The stream goes out of scope.
DropConnection(c) ==
  /\ conn' = [conn EXCEPT ![c] = NoConn]
  /\ serving' = Nobody
  /\ Onward
  /\ swallowed' = 0

\* The socket is bound with a new token before the token file is written, and
\* connections are accepted only after that.
write_token_file ==
  /\ tokenFile # epoch
  /\ ~stopping
  /\ tokenFile' = epoch
  /\ UNCHANGED <<epoch, stopping, serverVars, conn, token, history>>

Started == stopping \/ tokenFile = epoch

\* Mutant: the loop takes a refused peer for accepted.
AcceptForeign ==
  /\ Started
  /\ stage = "Accept"
  /\ backlog # <<>>
  /\ backlog' = Tail(backlog)
  /\ stage' = "Handshake"
  /\ IF Head(backlog) \in Foreign
     THEN conn' = [conn EXCEPT ![Head(backlog)] = NoConn] /\ UNCHANGED serving
     ELSE serving' = Head(backlog) /\ UNCHANGED conn
  /\ UNCHANGED <<daemonVars, swallowed, token, history>>

\* The next connection; one of another uid is closed at once.
accept_stream ==
  /\ Started
  /\ stage = "Accept"
  /\ backlog # <<>>
  /\ backlog' = Tail(backlog)
  /\ IF Head(backlog) \in Foreign
     THEN /\ conn' = [conn EXCEPT ![Head(backlog)] = NoConn]
          /\ Onward
          /\ UNCHANGED serving
     ELSE /\ serving' = Head(backlog)
          /\ stage' = "Handshake"
          /\ UNCHANGED conn
  /\ UNCHANGED <<daemonVars, swallowed, token, history>>

\* The handshake line arrives, and the buffered reader takes along whatever it
\* finds behind it; what it took is dropped with the reader.
HandshakeAccepted(c) ==
  /\ stage = "Handshake" /\ serving = c
  /\ conn[c].sent > 0
  /\ verify_handshake_token(c)
  /\ swallowed' \in 1..conn[c].sent
  /\ stage' = "Payload"
  /\ UNCHANGED <<daemonVars, backlog, serving, conn, token, history>>

\* Mutant: a client that leaves before its first line is waited for.
HandshakeWaits(c) ==
  /\ stage = "Handshake" /\ serving = c
  /\ conn[c].sent > 0 /\ ~verify_handshake_token(c)
  /\ DropConnection(c)
  /\ UNCHANGED <<daemonVars, backlog, token, history>>

\* A wrong token, a line that is none, or the end of the stream.
HandshakeRefused(c) ==
  /\ stage = "Handshake" /\ serving = c
  /\ \/ conn[c].sent > 0 /\ ~verify_handshake_token(c)
     \/ conn[c].sent = 0 /\ Eof(c)
  /\ DropConnection(c)
  /\ UNCHANGED <<daemonVars, backlog, token, history>>

\* Mutant: a request is acted on when its beginning is there.
ParsesBeginning(c) == swallowed = 1 /\ conn[c].sent > 1

\* What read_to_string returns after the handshake parses as a request.
Parses(c) == swallowed = 1 /\ conn[c].sent = Whole

\* The handler acts and replies; the reply of a client that is gone is an error,
\* which undoes nothing.
HandleRequest(c) ==
  /\ stage = "Payload" /\ serving = c
  /\ Eof(c)
  /\ Parses(c)
  /\ handled' = [handled EXCEPT ![c] = @ + 1]
  /\ answered' = IF conn[c].phase = "HalfClosed" THEN [answered EXCEPT ![c] = @ + 1]
                                                 ELSE answered
  /\ DropConnection(c)
  /\ UNCHANGED <<daemonVars, backlog, token, connects, finished>>

RefuseRequest(c) ==
  /\ stage = "Payload" /\ serving = c
  /\ Eof(c)
  /\ ~Parses(c)
  /\ DropConnection(c)
  /\ UNCHANGED <<daemonVars, backlog, token, history>>

\* Ctrl-C or SIGTERM: the thread goes on with what it has, unless the signal finds
\* the loop between two connections.
Stop ==
  /\ ~stopping
  /\ tokenFile = epoch
  /\ stopping' = TRUE
  /\ tokenFile' = 0
  /\ stage' \in {stage} \cup (IF stage = "Accept" THEN {"Ended"} ELSE {})
  /\ UNCHANGED <<epoch, backlog, serving, swallowed, conn, token, history>>

\* The daemon ends or is killed, in the middle of whatever it does, and starts
\* again: it binds the socket anew with a new token.
Restart ==
  /\ epoch < MaxRuns
  /\ epoch' = epoch + 1
  /\ stopping' = FALSE
  /\ backlog' = <<>>
  /\ serving' = Nobody
  /\ stage' = "Accept"
  /\ swallowed' = 0
  /\ conn' = [c \in Client |-> NoConn]
  /\ UNCHANGED <<tokenFile, token, history>>

-----------------------------------------------------------------------------

Init ==
  /\ epoch = 1
  /\ tokenFile = 0
  /\ stopping = FALSE
  /\ backlog = <<>>
  /\ serving = Nobody
  /\ stage = "Accept"
  /\ swallowed = 0
  /\ conn = [c \in Client |-> NoConn]
  /\ token = [c \in Client |-> 0]
  /\ connects = [c \in Client |-> 0]
  /\ finished = [c \in Client |-> 0]
  /\ handled = [c \in Client |-> 0]
  /\ answered = [c \in Client |-> 0]

Serve(c) ==
  \/ HandshakeAccepted(c)
  \/ HandshakeRefused(c)
  \/ HandleRequest(c)
  \/ RefuseRequest(c)

Next ==
  \/ \E c \in Client :
       \/ ReadTokenFile(c) \/ Connect(c) \/ Send(c) \/ HalfClose(c) \/ Vanish(c)
       \/ Serve(c)
  \/ write_token_file
  \/ accept_stream
  \/ Stop
  \/ Restart

Spec == Init /\ [][Next]_vars

\* The daemon's loop goes on, and a tool that has connected sends its request to
\* the end.  The dashboard sends a line only when the owner clicks: it owes none.
Fairness ==
  /\ WF_vars(write_token_file)
  /\ WF_vars(accept_stream)
  /\ \A c \in Client : WF_vars(Serve(c))
  /\ \A c \in Tool : WF_vars(Send(c)) /\ WF_vars(HalfClose(c))

FairSpec == Spec /\ Fairness
-----------------------------------------------------------------------------
(* Properties *)

Queued(c) == \E i \in DOMAIN backlog : backlog[i] = c

\* No connection is lost and none is served twice over: whatever error path the
\* loop took and whenever the daemon restarted, a connection the client thinks it
\* has is either served or waits in the backlog, once.
EveryConnectionIsQueuedOrServed ==
  /\ \A c \in Client :
       conn[c].phase # "None" <=> Queued(c) \/ serving = c
  /\ \A i, j \in DOMAIN backlog : backlog[i] = backlog[j] => i = j
  /\ ~Queued(serving)

\* The loop reads a request only from a process of this user that presented the
\* token of this very run: a token from before a restart does not get through.
PayloadFromAuthenticated ==
  stage = "Payload" => /\ serving \in Tool \ Foreign
                       /\ token[serving] = epoch
                       /\ swallowed \in 1..conn[serving].sent

\* Requests, actions and replies stay in step through lost connections, retries
\* and restarts: a reply stands for one action, an action for one request that
\* was sent to the end.  A client without a reply cannot tell whether its request
\* was acted on; retrying it is its own risk.
NoActionWithoutRequest ==
  \A c \in Client :
    /\ answered[c] <= handled[c]
    /\ handled[c] <= finished[c]
    /\ finished[c] <= connects[c]
    /\ c \in Foreign \cup Ui => handled[c] = 0

\* The channel keeps the promise of ServiceContract: whoever is served heads the queue
\* of those who are connected.
Contract ==
  INSTANCE ServiceContract WITH
    Entitled  <- Tool \ Foreign,
    connected <- {c \in Client : conn[c].phase # "None"},
    queue     <- IF serving = Nobody THEN backlog ELSE <<serving>> \o backlog,
    whole     <- {c \in Client : conn[c].phase # "None" /\ conn[c].sent = Whole}

ServiceSpec == Contract!Spec

\* The dashboard has connected, is being served, and has sent nothing yet.
SilentUi == \E u \in Ui : serving = u /\ conn[u] = [phase |-> "Open", sent |-> 0]

\* A client waits for ever only behind a dashboard whose owner does not click, or
\* in the queue of a daemon that stops: no refused token, broken request or client
\* that left holds the loop up, and whoever is served when a signal comes is served
\* to the end.
OnlySilenceBlocks ==
  \A c \in Client :
    conn[c].phase # "None" ~> \/ conn[c].phase = "None"
                              \/ SilentUi
                              \/ stopping /\ Queued(c)

\* A stop waits for the threads in accept() (main.rs:246: the runtime is dropped
\* with its spawn_blocking tasks running).  A thread that has a connection ends after
\* it, though others queue behind; one that has none is never given one, for the
\* socket is gone, and only a kill ends the process.
StopEndsAfterService ==
  stopping /\ (serving # Nobody \/ backlog # <<>>)
    ~> stage = "Ended" \/ SilentUi \/ ~stopping

\* Reading the handshake takes the handshake line only, as the comment at
\* lib.rs:346 has it: a whole request behind a good token is acted on.
WholeRequestIsHandled ==
  [][\A c \in Client :
       /\ stage = "Payload" /\ serving = c
       /\ Eof(c) /\ conn[c].sent = Whole
       /\ serving' # c /\ epoch' = epoch
       => handled'[c] = handled[c] + 1]_vars
=============================================================================
