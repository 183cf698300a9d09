------------------------------ MODULE MCRootBranch ------------------------------
(* An instance of RootBranch, and so of SubChat, for TLC: the root task and one   *)
(* that has no branch.                                                            *)
EXTENDS RootBranch

McTask == {"root-task", "other-task"}
=============================================================================
