---------------------------- MODULE MCAdminPanel ----------------------------
\* An instance of AdminPanel for TLC: one or two rows per section.
EXTENDS AdminPanel

CONSTANTS crit, ops, ls, new

Rows(ops_classification) ==
  [f \in File |->
    CASE f = "allowlist" -> <<[name |-> ls, wildcard |-> FALSE]>>
      [] f = "policy" ->
           <<[symbol |-> crit, classification |-> "critical", auto_approve |-> FALSE],
             [symbol |-> ops, classification |-> ops_classification, auto_approve |-> FALSE]>>
      [] f = "criteria" -> <<[category |-> ls, compiles |-> TRUE]>>
      [] f = "sockets" -> <<[name |-> ls, octal |-> TRUE]>>
      [] f = "branches" -> <<[name |-> ls, sub_chat_limit |-> 3]>>]

McShipped == Rows("delegable")
McOwn == Rows("critical")  \* the owner made ops critical before
=============================================================================
