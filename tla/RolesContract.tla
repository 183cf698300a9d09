----------------------------- MODULE RolesContract -----------------------------
(***************************************************************************)
(* What the dashboard promises its owner about roles, without entries,     *)
(* lists, files and places to look for them:                               *)
(*   - every application has one role; a click changes that application's  *)
(*     and, if it makes a Maestro, the former Maestro's, and no other;     *)
(*   - what is shown is saved with the click, or the next start shows what *)
(*     was saved before, or a part of what is shown and nothing besides.   *)
(***************************************************************************)
CONSTANTS
  App,      \* applications
  Role,     \* what they may be
  Maestro,  \* the role that one of them at most has
  NoRole    \* the role of an application that has none

VARIABLES
  shown,   \* each application's role on the screen
  saved,   \* each application's role after a start
  unsaved  \* the last save failed

vars == <<shown, saved, unsaved>>

Init ==
  /\ shown \in [App -> Role]
  /\ \A a, b \in App : shown[a] = Maestro /\ shown[b] = Maestro => a = b
  /\ saved = shown
  /\ unsaved = FALSE

\* The roles with a's changed to r.
Given(a, r) ==
  [b \in App |-> IF b = a THEN r
                 ELSE IF r = Maestro /\ shown[b] = Maestro THEN NoRole ELSE shown[b]]

\* What is left of roles when the others are lost.
Only(some, roles) == [b \in App |-> IF b \in some THEN roles[b] ELSE NoRole]

Assign(a, r) ==
  /\ shown' = Given(a, r)
  /\ \/ saved' = shown' /\ unsaved' = FALSE
     \/ /\ unsaved' = TRUE
        /\ saved' = saved \/ \E some \in SUBSET App : saved' = Only(some, shown')

Start ==
  /\ unsaved' = FALSE
  /\ UNCHANGED saved
  /\ shown' = saved

Next == Start \/ \E a \in App, r \in Role : Assign(a, r)

Spec == Init /\ [][Next]_vars
================================================================================
