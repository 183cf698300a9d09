---------------------------- MODULE AdminConfig ----------------------------
(***************************************************************************)
(* The configuration the admin panel edits, its validation and the check   *)
(* for changes that lower security (admin_config.rs of gatekeeper-core).   *)
(* No state: definitions for AdminPanel.                                    *)
(*                                                                         *)
(* An entry keeps what the two checks look at.  A path is the wildcard or   *)
(* not, a pattern set compiles or does not, permissions are octal or not,   *)
(* an auto-approval window is positive or 0.                                *)
(***************************************************************************)
EXTENDS Naturals, Sequences

CONSTANTS
  Name,             \* names of binaries, categories, sockets and branches
  SymbolName,       \* names of symbols in a policy
  Limit,            \* the sub-chat limits the panel offers (1..=10)
  CRITICAL_SYMBOLS  \* those the code knows to be critical

ASSUME CriticalAssumption == CRITICAL_SYMBOLS \subseteq SymbolName

\* The sections, each kept in a file of its own.
File == {"allowlist", "policy", "criteria", "sockets", "branches"}

Classification == {"delegable", "critical"}

AllowlistEntry == [name : Name, wildcard : BOOLEAN]
PolicySymbolEntry ==
  [symbol : SymbolName, classification : Classification, auto_approve : BOOLEAN]
CriteriaPatternSet == [category : Name, compiles : BOOLEAN]
SocketDefinition == [name : Name, octal : BOOLEAN]
BranchConfig == [name : Name, sub_chat_limit : Limit]

Entry(f) ==
  CASE f = "allowlist" -> AllowlistEntry
    [] f = "policy" -> PolicySymbolEntry
    [] f = "criteria" -> CriteriaPatternSet
    [] f = "sockets" -> SocketDefinition
    [] f = "branches" -> BranchConfig

\* The configuration with the given rows in one section, the others empty:
\* what the panel builds from the rows of a tab.
Section(f, rows) == [g \in File |-> IF g = f THEN rows ELSE <<>>]

----------------------------------------------------------------------------
Distinct(entries) ==
  \A i, j \in DOMAIN entries : entries[i].name = entries[j].name => i = j

validate_allowlist(config) ==
  /\ \A i \in DOMAIN config["allowlist"] : ~config["allowlist"][i].wildcard
  /\ Distinct(config["allowlist"])

validate_symbols_and_policy(config) ==
  \A i \in DOMAIN config["policy"] :
    config["policy"][i].symbol \in CRITICAL_SYMBOLS =>
      /\ config["policy"][i].classification # "delegable"
      /\ ~config["policy"][i].auto_approve

validate_criteria(config) ==
  \A i \in DOMAIN config["criteria"] : config["criteria"][i].compiles

validate_sockets(config) ==
  /\ \A i \in DOMAIN config["sockets"] : config["sockets"][i].octal
  /\ Distinct(config["sockets"])

validate(config) ==
  /\ validate_allowlist(config)
  /\ validate_symbols_and_policy(config)
  /\ validate_criteria(config)
  /\ validate_sockets(config)

----------------------------------------------------------------------------
\* p is the entry previous.policy.iter().find() returns for the symbol.
FirstFor(symbol, policy, p) ==
  /\ p \in DOMAIN policy
  /\ policy[p].symbol = symbol
  /\ \A q \in DOMAIN policy : q < p => policy[q].symbol # symbol

\* Mutant: only the symbols the code knows to be critical are looked at.
is_known_lowering_change(config, previous) ==
  \/ \E i \in DOMAIN config["policy"], p \in DOMAIN previous["policy"] :
       LET entry == config["policy"][i]
           prev == previous["policy"][p]
       IN  /\ FirstFor(entry.symbol, previous["policy"], p)
           /\ entry.symbol \in CRITICAL_SYMBOLS
           /\ prev.classification = "critical" /\ entry.classification = "delegable"
  \/ Len(config["sockets"]) < Len(previous["sockets"])

is_security_lowering_change(config, previous) ==
  \/ \E i \in DOMAIN config["allowlist"] :
       /\ config["allowlist"][i].wildcard
       /\ \A j \in DOMAIN previous["allowlist"] :
            previous["allowlist"][j].name # config["allowlist"][i].name
  \/ \E i \in DOMAIN config["policy"], p \in DOMAIN previous["policy"] :
       LET entry == config["policy"][i]
           prev == previous["policy"][p]
       IN  /\ FirstFor(entry.symbol, previous["policy"], p)
           /\ \/ prev.classification = "critical" /\ entry.classification = "delegable"
              \/ /\ entry.symbol \in CRITICAL_SYMBOLS
                 /\ ~prev.auto_approve
                 /\ entry.auto_approve
  \/ Len(config["sockets"]) < Len(previous["sockets"])
=============================================================================
