---------------------------- MODULE MCPendingPlans ----------------------------
(* Instances of PendingPlans for TLC: the plans that clients submit. *)
EXTENDS PendingPlans, TLC

CONSTANTS t1, t2

\* A delegable plan, and another one that the executor cannot parse.
McFree   == <<[tag |-> "OpsTermRunLocal", hits |-> {}, parses |-> TRUE]>>
McBroken == <<[tag |-> "OpsFileEdit", hits |-> {}, parses |-> FALSE]>>
\* Critical by its text alone: the executor can run it.
McRisky  == <<[tag |-> "OpsTermRunLocal", hits |-> {"Irreversibility"}, parses |-> TRUE]>>
\* Critical because it has no tag: the safety lock always blocks it.
McBare   == <<[tag |-> NoTag, hits |-> {}, parses |-> TRUE]>>

McOnePlanOfEach == {McFree, McRisky}
McAllPlans      == {McFree, McBroken, McRisky, McBare}
McThreePlans    == {McFree, McBroken, McRisky}
McCriticalOnly  == {McRisky}

\* One id with one submission more than the other.
McSubmits    == [t \in TaskId |-> IF t = t1 THEN 3 ELSE 2]
McTwoSubmits == [t \in TaskId |-> 2]
=============================================================================
