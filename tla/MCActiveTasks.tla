----------------------------- MODULE MCActiveTasks -----------------------------
(* Instances of ActiveTasks for TLC: tasks a and b share an identifier, c has its *)
(* own.                                                                          *)
EXTENDS ActiveTasks, TLC

CONSTANTS a, b, c, i1, i2

McId    == (a :> i1) @@ (b :> i1) @@ (c :> i2)
McTwoId == (a :> i1) @@ (b :> i1)
=============================================================================
