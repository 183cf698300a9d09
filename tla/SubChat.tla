-------------------------------- MODULE SubChat --------------------------------
(***************************************************************************)
(* Sub-chats (crates/ai-bridge-subchat, BranchRegistry in event_loop.rs,   *)
(* handle_branch_message in main.rs): a caller asks a branch over that     *)
(* branch's channel, the branch counts the call against its limit, runs an *)
(* orphan worker made for it and replies with the index of the call.       *)
(*                                                                         *)
(* A channel serves one caller at a time (Channel), so asks of one branch  *)
(* queue up; a caller that leaves before its reply is written loses it.    *)
(***************************************************************************)
EXTENDS Naturals, Sequences, FiniteSets

CONSTANTS
  Task,      \* task ids a caller may name
  RootTask,  \* the one task id both branches are created with
  MaxAsks,   \* bound: asks of the two branches together
  MaxRuns    \* bound: runs of the daemon

ASSUME RootAssumption == RootTask \in Task
ASSUME BoundsAssumption == MaxAsks \in Nat /\ MaxRuns \in Nat \ {0}

Branch == {"A", "B"}

VARIABLES
  run,               \* the run of the daemon
  sub_chat_counter,  \* [Branch -> Nat]: calls counted in this run
  asks,              \* [Branch -> Seq(Task)]: requests not yet handled
  replies,           \* history: [Branch -> Seq([run, call_index])], replies received
  asked,             \* history: [Branch -> Nat], requests sent
  lost               \* history: [Branch -> Nat], calls of this run without a reply

vars == <<run, sub_chat_counter, asks, replies, asked, lost>>

sub_chat_limit == 3

Reply == [run : 1..MaxRuns, call_index : 0..sub_chat_limit - 1]

TypeOK ==
  /\ run \in 1..MaxRuns
  /\ sub_chat_counter \in [Branch -> 0..sub_chat_limit]
  /\ asks \in [Branch -> Seq(Task)]
  /\ replies \in [Branch -> Seq(Reply)]
  /\ asked \in [Branch -> Nat]
  /\ lost \in [Branch -> Nat]

-----------------------------------------------------------------------------

Ask(b, t) ==
  /\ asked["A"] + asked["B"] < MaxAsks
  /\ asked' = [asked EXCEPT ![b] = @ + 1]
  /\ asks' = [asks EXCEPT ![b] = Append(@, t)]
  /\ UNCHANGED <<run, sub_chat_counter, replies, lost>>

\* Mutant: one call too many.
can_open_late(b) == sub_chat_counter[b] <= sub_chat_limit

can_open_more(b) == sub_chat_counter[b] < sub_chat_limit

\* Mutant: the index is what is left of the limit.
DeliverDown(b, index) ==
  \/ /\ replies' = [replies EXCEPT ![b] =
           Append(@, [run |-> run, call_index |-> sub_chat_limit - 1 - index])]
     /\ UNCHANGED lost
  \/ /\ lost' = [lost EXCEPT ![b] = @ + 1]
     /\ UNCHANGED replies

\* The reply is received, or its caller is gone.
Deliver(b, index) ==
  \/ /\ replies' = [replies EXCEPT ![b] =
                      Append(@, [run |-> run, call_index |-> index])]
     /\ UNCHANGED lost
  \/ /\ lost' = [lost EXCEPT ![b] = @ + 1]
     /\ UNCHANGED replies

\* Mutant: a call whose reply is lost is not counted.
open_if_delivered(b) ==
  /\ asks[b] # <<>> /\ Head(asks[b]) = RootTask
  /\ can_open_more(b)
  /\ asks' = [asks EXCEPT ![b] = Tail(@)]
  /\ Deliver(b, sub_chat_counter[b])
  /\ sub_chat_counter' = IF lost' = lost THEN [sub_chat_counter EXCEPT ![b] = @ + 1]
                                         ELSE sub_chat_counter
  /\ UNCHANGED <<run, asked>>

\* The branch opens a sub-chat and counts it, whatever becomes of the reply.  Its orphan worker is new and runs for the first
\* time, so it cannot fail.
open_sub_chat(b) ==
  /\ asks[b] # <<>> /\ Head(asks[b]) = RootTask
  /\ can_open_more(b)
  /\ sub_chat_counter' = [sub_chat_counter EXCEPT ![b] = @ + 1]
  /\ asks' = [asks EXCEPT ![b] = Tail(@)]
  /\ Deliver(b, sub_chat_counter'[b] - 1)
  /\ UNCHANGED <<run, asked>>

\* Another task's id, or the limit reached: an error, and no reply.
refuse_sub_chat(b) ==
  /\ asks[b] # <<>>
  /\ Head(asks[b]) # RootTask \/ ~can_open_more(b)
  /\ asks' = [asks EXCEPT ![b] = Tail(@)]
  /\ UNCHANGED <<run, sub_chat_counter, replies, asked, lost>>

\* The daemon stops and starts again with new branches.
Restart ==
  /\ run < MaxRuns
  /\ run' = run + 1
  /\ sub_chat_counter' = [b \in Branch |-> 0]
  /\ asks' = [b \in Branch |-> <<>>]
  /\ lost' = [b \in Branch |-> 0]
  /\ UNCHANGED <<replies, asked>>

-----------------------------------------------------------------------------

Init ==
  /\ run = 1
  /\ sub_chat_counter = [b \in Branch |-> 0]
  /\ asks = [b \in Branch |-> <<>>]
  /\ replies = [b \in Branch |-> <<>>]
  /\ asked = [b \in Branch |-> 0]
  /\ lost = [b \in Branch |-> 0]

Next ==
  \/ \E b \in Branch, t \in Task : Ask(b, t)
  \/ \E b \in Branch : open_sub_chat(b) \/ refuse_sub_chat(b)
  \/ Restart

Spec == Init /\ [][Next]_vars

-----------------------------------------------------------------------------
(* Properties *)

ReceivedInRun(b, r) == {i \in DOMAIN replies[b] : replies[b][i].run = r}

\* The replies of a branch carry rising indices within a run of the daemon: no
\* index is given twice, though callers come and go and lose replies.  After a
\* restart the indices start again; only a caller that knows of it can tell.
IndicesRise ==
  \A b \in Branch : \A i, j \in DOMAIN replies[b] :
    i < j => LET x == replies[b][i]  y == replies[b][j]
             IN x.run < y.run \/ (x.run = y.run /\ x.call_index < y.call_index)

\* Every counted call is one that was replied to or lost; a refused request costs
\* nothing.  Three lost replies leave a branch without sub-chats and a caller
\* without an answer.
CallsAreAccountedFor ==
  \A b \in Branch :
    sub_chat_counter[b] = Cardinality(ReceivedInRun(b, run)) + lost[b]
=============================================================================
