---------------------------- MODULE ServiceContract ----------------------------
(***************************************************************************)
(* What a channel promises the processes that connect to it, without       *)
(* handshakes, pieces, streams and the stages of its loop:                 *)
(*   - who is connected stands in one queue, which is served in order, one *)
(*     connection at a time, and leaves it connected no more;              *)
(*   - at its turn a connection is acted on once or refused, and acted on  *)
(*     only if it is entitled and its whole request has come;              *)
(*   - a reply comes with its action.                                      *)
(* A crash disconnects everyone.                                           *)
(***************************************************************************)
EXTENDS Naturals, Sequences

CONSTANTS
  Client,    \* processes that connect
  Entitled   \* those whose requests may be acted on

VARIABLES
  connected,  \* the clients that have a connection, as they see it
  queue,      \* the same clients, in the order they came
  whole,      \* those whose request has come whole
  handled,    \* per client: actions
  answered    \* per client: replies

vars == <<connected, queue, whole, handled, answered>>

Init ==
  /\ connected = {}
  /\ queue = <<>>
  /\ whole = {}
  /\ handled = [c \in Client |-> 0]
  /\ answered = [c \in Client |-> 0]

Arrive(c) ==
  /\ c \notin connected
  /\ connected' = connected \cup {c}
  /\ queue' = Append(queue, c)
  /\ UNCHANGED <<whole, handled, answered>>

Complete(c) ==
  /\ c \in connected \ whole
  /\ whole' = whole \cup {c}
  /\ UNCHANGED <<connected, queue, handled, answered>>

Leave(c) ==
  /\ queue # <<>> /\ c = Head(queue)
  /\ queue' = Tail(queue)
  /\ connected' = connected \ {c}
  /\ whole' = whole \ {c}

Act(c) ==
  /\ c \in Entitled \cap whole
  /\ Leave(c)
  /\ handled' = [handled EXCEPT ![c] = @ + 1]
  /\ answered' \in {answered, [answered EXCEPT ![c] = @ + 1]}

Refuse(c) ==
  /\ Leave(c)
  /\ UNCHANGED <<handled, answered>>

Crash ==
  /\ connected' = {}
  /\ queue' = <<>>
  /\ whole' = {}
  /\ UNCHANGED <<handled, answered>>

Next ==
  \/ \E c \in Client : Arrive(c) \/ Complete(c) \/ Act(c) \/ Refuse(c)
  \/ Crash

Spec == Init /\ [][Next]_vars
================================================================================
