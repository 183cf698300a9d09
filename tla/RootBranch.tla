------------------------------- MODULE RootBranch -------------------------------
(***************************************************************************)
(* The results of the two branches put together (src/root_branch.rs): the  *)
(* root records each result and decides what is delivered to the Maestro,  *)
(* both results or, when the timeout is over, the one it has.              *)
(*                                                                         *)
(* Nothing in the repository calls record_and_decide yet.  Its caller is   *)
(* taken to be the root executable, as README.md:65 says: it hands over    *)
(* the branches' replies (SubChat), each once and those of a branch in     *)
(* order, with the time since the last delivery; a stop of the daemon ends *)
(* it too.                                                                 *)
(***************************************************************************)
EXTENDS SubChat

VARIABLES
  branch_results,  \* [Branch -> Nat]: branch_a_result and branch_b_result, the
                   \* place of a reply in replies[b], or NoResult
  late,            \* elapsed >= timeout
  taken,           \* history: [Branch -> Nat], replies handed over
  deliveries,      \* history: Seq([Branch -> Nat]), what went to the Maestro
  gone             \* history: [Branch -> SUBSET Nat], results that never will

rootVars == <<branch_results, late, taken, deliveries, gone>>
allVars  == <<vars, rootVars>>

NoResult == 0
NewState == [b \in Branch |-> NoResult]
Other(b) == IF b = "A" THEN "B" ELSE "A"

RootTypeOK ==
  /\ TypeOK
  /\ branch_results \in [Branch -> Nat]
  /\ late \in BOOLEAN
  /\ taken \in [Branch -> Nat]
  /\ deliveries \in Seq([Branch -> Nat])
  /\ gone \in [Branch -> SUBSET Nat]
  /\ \A b \in Branch : taken[b] <= Len(replies[b])

-----------------------------------------------------------------------------

\* The result the next call is about, and the state after mark_finished.
Result(b) == taken[b] + 1
mark_finished(b) == [branch_results EXCEPT ![b] = Result(b)]

\* The result of b that mark_finished overwrites, if there is one.
Superseded(b) == {branch_results[b]} \ {NoResult}

\* Mutant: a full delivery does not wipe the state.
DeliverKeeping(decision) ==
  /\ deliveries' = Append(deliveries, decision)
  /\ branch_results' = decision
  /\ late' = FALSE

\* What is delivered leaves both branches wiped and starts the time anew.
DeliverAndWipe(decision) ==
  /\ deliveries' = Append(deliveries, decision)
  /\ branch_results' = NewState
  /\ late' = FALSE

\* Mutant: resolve_delivery decides here too, and drops the other result late.
FullDeliveryInTime(b) ==
  /\ branch_results[Other(b)] # NoResult
  /\ DeliverAndWipe(IF late THEN [NewState EXCEPT ![b] = Result(b)]
                      ELSE mark_finished(b))

\* The two results are there: both are delivered, before or after the timeout.
FullDelivery(b) ==
  /\ branch_results[Other(b)] # NoResult
  /\ DeliverAndWipe(mark_finished(b))

\* The timeout is over and there is no other result: it is delivered alone.
\* resolve_delivery is never given a second result here, so that it never reports
\* one as dropped.
PartialDelivery(b) ==
  /\ branch_results[Other(b)] = NoResult
  /\ late
  /\ DeliverAndWipe([NewState EXCEPT ![b] = Result(b)])

\* The first result before the timeout: resolve_delivery's expect panics.  The
\* result is stored by then; the state outlives the panic or goes down with it.
PanicInTime(b) ==
  /\ branch_results[Other(b)] = NoResult
  /\ ~late
  /\ \/ branch_results' = mark_finished(b) /\ UNCHANGED late
     \/ branch_results' = NewState /\ late' = FALSE
  /\ UNCHANGED deliveries

\* What a call leaves neither stored nor delivered is gone.
record_and_decide(b) ==
  /\ taken[b] < Len(replies[b])
  /\ taken' = [taken EXCEPT ![b] = @ + 1]
  /\ FullDelivery(b) \/ PartialDelivery(b) \/ PanicInTime(b)
  /\ gone' = [gone EXCEPT ![b] =
                @ \cup Superseded(b)
                  \cup IF deliveries' = deliveries /\ branch_results'[b] = NoResult
                         THEN {Result(b)} ELSE {}]
  /\ UNCHANGED vars

TimeoutPasses ==
  /\ ~late
  /\ late' = TRUE
  /\ UNCHANGED <<vars, branch_results, taken, deliveries, gone>>

\* The daemon stops: what was stored, or not yet handed over, is gone with it.
RootRestart ==
  /\ Restart
  /\ branch_results' = NewState
  /\ late' = FALSE
  /\ taken' = [b \in Branch |-> Len(replies[b])]
  /\ gone' = [b \in Branch |-> gone[b] \cup ({branch_results[b]} \ {NoResult})
                                       \cup (taken[b] + 1)..Len(replies[b])]
  /\ UNCHANGED deliveries

-----------------------------------------------------------------------------

RootInit ==
  /\ Init
  /\ branch_results = NewState
  /\ late = FALSE
  /\ taken = [b \in Branch |-> 0]
  /\ deliveries = <<>>
  /\ gone = [b \in Branch |-> {}]

BranchStep ==
  /\ \/ \E b \in Branch, t \in Task : Ask(b, t)
     \/ \E b \in Branch : open_sub_chat(b) \/ refuse_sub_chat(b)
  /\ UNCHANGED rootVars

RootNext ==
  \/ BranchStep
  \/ \E b \in Branch : record_and_decide(b)
  \/ TimeoutPasses
  \/ RootRestart

RootSpec == RootInit /\ [][RootNext]_allVars

-----------------------------------------------------------------------------
(* Properties *)

Delivered(b) == {deliveries[k][b] : k \in DOMAIN deliveries} \ {NoResult}
Stored(b)    == {branch_results[b]} \ {NoResult}

\* The results of a branch reach the Maestro in the order of its calls, and none twice,
\* though the state outlives a panic and late results follow a delivery; and a full
\* delivery pairs results of one run of the daemon, never one of before a restart with
\* one of after.
DeliveredOnce ==
  /\ \A j, k \in DOMAIN deliveries, b \in Branch :
       j < k /\ deliveries[j][b] # NoResult /\ deliveries[k][b] # NoResult
         => deliveries[j][b] < deliveries[k][b]
  /\ \A k \in DOMAIN deliveries :
       (\A b \in Branch : deliveries[k][b] # NoResult)
         => replies["A"][deliveries[k]["A"]].run = replies["B"][deliveries[k]["B"]].run

\* Wiping both branches loses nothing: every result that was recorded is delivered,
\* or stored and not yet delivered, or gone, which only a newer result of its
\* branch, a panic that takes the state along, or a restart can make it.
RecordedIsAccountedFor ==
  \A b \in Branch :
    /\ 1..taken[b] = Delivered(b) \cup Stored(b) \cup gone[b]
    /\ Delivered(b) \cap Stored(b) = {}
    /\ gone[b] \cap (Delivered(b) \cup Stored(b)) = {}
=============================================================================
