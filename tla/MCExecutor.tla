------------------------------ MODULE MCExecutor ------------------------------
(* Instances of Executor for TLC: two executions over two programs. *)
EXTENDS Executor, TLC

CONSTANTS j1, j2, p1, p2

McOps   == [tag |-> "OpsTermRunLocal", hits |-> {}, parses |-> TRUE]
McCrit  == [tag |-> "CritSecret", hits |-> {}, parses |-> TRUE]
McTorn  == [tag |-> "OpsFileEdit", hits |-> {}, parses |-> FALSE]

\* A delegable plan that names one program twice and then does not parse; and a
\* plan the owner approved, with a critical line between two others.
McPlan == (j1 :> <<McOps, McOps, McTorn>>) @@ (j2 :> <<McOps, McCrit, McOps>>)
McProgram == (j1 :> <<p1, p1, p2>>) @@ (j2 :> <<p2, p1, p1>>)
=============================================================================
