------------------------------- MODULE Dashboard -------------------------------
(***************************************************************************)
(* The dashboard's configuration (crates/ai-bridge-ui/src/app.rs): which   *)
(* application plays which role, kept in roles.toml, and the editor of     *)
(* allowlist.toml, which says to what applications roles can be given.     *)
(*                                                                         *)
(* Both files are looked for in two places: below crates/, where the       *)
(* dashboard writes, and below its working directory (or the one above),   *)
(* where the files of the repository are.  Nothing is ever written there.  *)
(*                                                                         *)
(* A write is in place: it may fail before it begins, or leave a part of   *)
(* what it should have written.  A dashboard killed in a write leaves what *)
(* such a failure leaves, and Restart follows, in the same working         *)
(* directory.  What the daemon reads is not the dashboard's file but the   *)
(* one of its own working directory: all this is about the dashboard.      *)
(***************************************************************************)
EXTENDS Naturals, Sequences, FiniteSets, SequencesExt

CONSTANTS
  App,           \* application ids
  DefaultApps,   \* what is offered when no allowlist can be read
  ShippedRoles,  \* config/roles.toml below the working directory
  ShippedApps,   \* what config/allowlist.toml there allows
  TypedLists,    \* bound: what the owner may type as a list of applications
  MaxFaults      \* bound: writes that fail

\* A role that names no application's part; kept in the list all the same.
NoRole == "None"
Maestro == "Maestro"
Role == {NoRole, Maestro, "BranchA", "BranchB"}

Entry == [app : App, role : Role]

\* What OneMaestro says of a list of roles.
OneEach(roles) ==
  \A i, j \in DOMAIN roles :
    i # j => /\ roles[i].app # roles[j].app
             /\ ~(roles[i].role = Maestro /\ roles[j].role = Maestro)

ASSUME AppsAssumption == DefaultApps \subseteq App /\ ShippedApps \subseteq App
ASSUME ListsAssumption == TypedLists \subseteq SUBSET App
ASSUME FaultsAssumption == MaxFaults \in Nat
ASSUME RolesAssumption == ShippedRoles \in Seq(Entry) /\ OneEach(ShippedRoles)

\* A file: not there, or with contents that may not be readable as what it is.
Absent == [kind |-> "Absent"]
Unreadable == [kind |-> "Unreadable"]
Readable(c) == [kind |-> "Readable", contents |-> c]
Exists(file) == file.kind # "Absent"
Reads(file) == file.kind = "Readable"

\* The text of an allowlist: the applications it allows, or TOML of another kind,
\* such as the one the editor starts with, or no TOML.
List(apps) == [kind |-> "List", apps |-> apps]
OtherToml == [kind |-> "OtherToml"]
NotToml == [kind |-> "NotToml"]
Text == {List(apps) : apps \in SUBSET App} \cup {OtherToml, NotToml}
Typed == {List(apps) : apps \in TypedLists} \cup {OtherToml, NotToml}

VARIABLES
  role_assignments,  \* the list on the screen
  allowlist_input,   \* the text in the editor
  rolesFile,         \* crates/config/roles.toml
  allowlistFile,     \* crates/config/allowlist.toml
  shipped,           \* whether the working directory holds the shipped files
  unsaved,           \* history: the last save of roles failed
  kept,              \* history: the text last saved, if no later save failed
  faults             \* history: writes that failed

vars == <<role_assignments, allowlist_input, rolesFile, allowlistFile, shipped,
          unsaved, kept, faults>>

AllowlistFile == {Absent} \cup {Readable(text) : text \in Text}
Nothing == [kind |-> "Nothing"]

TypeOK ==
  /\ role_assignments \in Seq(Entry)
  /\ allowlist_input \in Text
  /\ rolesFile.kind \in {"Absent", "Unreadable", "Readable"}
  /\ Reads(rolesFile) => rolesFile.contents \in Seq(Entry)
  /\ allowlistFile \in AllowlistFile
  /\ shipped \in BOOLEAN
  /\ unsaved \in BOOLEAN
  /\ kept \in Text \cup {Nothing}
  /\ faults \in 0..MaxFaults

-----------------------------------------------------------------------------
(* The list of roles *)

Place(roles, a) == CHOOSE i \in DOMAIN roles : roles[i].app = a
HasEntry(roles, a) == \E i \in DOMAIN roles : roles[i].app = a

\* roles.retain, which takes out every entry of the application: it has one at most,
\* as OneMaestro says (of the shipped file RolesAssumption, which no code checks).
Without(roles, a) ==
  IF HasEntry(roles, a) THEN RemoveAt(roles, Place(roles, a)) ELSE roles

\* What the rows of the panel show: the first entry, or that there is none.
role_options_for_app(roles, a) ==
  IF HasEntry(roles, a) THEN roles[Place(roles, a)].role ELSE NoRole

\* The entry moves to the end; "None" takes it out of the list.
set_role(roles, a, r) ==
  IF r = NoRole THEN Without(roles, a)
                ELSE Append(Without(roles, a), [app |-> a, role |-> r])

\* Mutant: the former Maestro is not demoted when the new one has a role already.
promote_in_place(roles, a) ==
  IF HasEntry(roles, a)
    THEN [roles EXCEPT ![Place(roles, a)].role = Maestro]
    ELSE Append([i \in DOMAIN roles |->
                   IF roles[i].role = Maestro THEN [roles[i] EXCEPT !.role = NoRole]
                                              ELSE roles[i]],
                [app |-> a, role |-> Maestro])

\* Mutant: every other application is demoted, and not the former Maestro only.
promote_over_all(roles, a) ==
  LET demoted == [i \in DOMAIN roles |->
        [roles[i] EXCEPT !.role = IF roles[i].app = a THEN Maestro ELSE NoRole]]
  IN IF HasEntry(roles, a) THEN demoted
                           ELSE Append(demoted, [app |-> a, role |-> Maestro])

\* The former Maestro stays in the list, without a role.  (The code's find takes the
\* first entry of the application, which is the only one.)
promote_maestro(roles, a) ==
  LET demoted == [i \in DOMAIN roles |->
        CASE roles[i].app = a        -> [roles[i] EXCEPT !.role = Maestro]
          [] roles[i].app # a /\ roles[i].role = Maestro
                                     -> [roles[i] EXCEPT !.role = NoRole]
          [] OTHER                   -> roles[i]]
  IN IF HasEntry(roles, a) THEN demoted
                           ELSE Append(demoted, [app |-> a, role |-> Maestro])

\* Mutant: the file of the working directory is looked for first.
load_shipped_first ==
  IF shipped THEN ShippedRoles
  ELSE IF Reads(rolesFile) THEN rolesFile.contents ELSE <<>>

\* The first file that exists; if it cannot be read, unwrap_or_default forgets it.
load_default ==
  IF Exists(rolesFile)
    THEN IF Reads(rolesFile) THEN rolesFile.contents ELSE <<>>
    ELSE IF shipped THEN ShippedRoles ELSE <<>>

\* What a write that breaks off leaves of a list: whole entries, or a text that is
\* no list (an empty file is none either, for it lacks the key).
TornRoles(roles) ==
  {Unreadable} \cup {Readable(SubSeq(roles, 1, k)) : k \in 1..Len(roles)}

save_default(roles) ==
  \/ /\ rolesFile' = Readable(roles)
     /\ unsaved' = FALSE
     /\ UNCHANGED faults
  \/ /\ faults < MaxFaults
     /\ faults' = faults + 1
     /\ unsaved' = TRUE
     /\ rolesFile' \in {rolesFile} \cup TornRoles(roles)

-----------------------------------------------------------------------------
(* The allowlist *)

\* Mutant: the list of the working directory hides the one that was saved.
get_shipped_app_ids ==
  IF shipped THEN ShippedApps
  ELSE IF Exists(allowlistFile) /\ allowlistFile.contents.kind = "List"
    THEN allowlistFile.contents.apps
  ELSE DefaultApps

\* The first list that can be read as one.
get_allowed_app_ids ==
  IF Exists(allowlistFile) /\ allowlistFile.contents.kind = "List"
    THEN allowlistFile.contents.apps
    ELSE IF shipped THEN ShippedApps ELSE DefaultApps

\* The first file that exists, whatever it is.
load_allowlist_config ==
  IF Exists(allowlistFile) THEN allowlistFile.contents
  ELSE IF shipped THEN List(ShippedApps)
  ELSE Nothing

\* What a write that breaks off leaves of a text: rules come in any order; the
\* beginning of a list may be TOML without a rule, or no TOML.
TornText(text) ==
  IF text.kind = "List"
    THEN {List(apps) : apps \in SUBSET text.apps} \cup {OtherToml, NotToml}
    ELSE {OtherToml, NotToml}

-----------------------------------------------------------------------------
(* The owner at the dashboard *)

\* A click on a role of an application that is offered.  The change stays on the
\* screen when it cannot be saved.
set_role_for_app(a, r) ==
  /\ a \in get_allowed_app_ids
  /\ role_assignments' = IF r = Maestro THEN promote_maestro(role_assignments, a)
                                        ELSE set_role(role_assignments, a, r)
  /\ save_default(role_assignments')
  /\ UNCHANGED <<allowlist_input, allowlistFile, shipped, kept>>

EditAllowlist(text) ==
  /\ allowlist_input' = text
  /\ UNCHANGED <<role_assignments, rolesFile, allowlistFile, shipped, unsaved,
                 kept, faults>>

\* Any TOML is saved, an allowlist or not.
save_allowlist_config ==
  /\ allowlist_input # NotToml
  /\ \/ /\ allowlistFile' = Readable(allowlist_input)
        /\ kept' = allowlist_input
        /\ UNCHANGED faults
     \/ /\ faults < MaxFaults
        /\ faults' = faults + 1
        /\ allowlistFile' \in {allowlistFile}
                                \cup {Readable(t) : t \in TornText(allowlist_input)}
        /\ kept' = IF allowlistFile' = allowlistFile THEN kept ELSE Nothing
  /\ UNCHANGED <<role_assignments, allowlist_input, rolesFile, shipped, unsaved>>

\* Mutant: a file that is not found empties the editor.
ReloadAnyway ==
  /\ allowlist_input' = load_allowlist_config
  /\ UNCHANGED <<role_assignments, rolesFile, allowlistFile, shipped, unsaved,
                 kept, faults>>

ReloadAllowlist ==
  /\ load_allowlist_config # Nothing
  /\ allowlist_input' = load_allowlist_config
  /\ UNCHANGED <<role_assignments, rolesFile, allowlistFile, shipped, unsaved,
                 kept, faults>>

\* DashboardApp::new: the roles are loaded, the editor is not.
Restart ==
  /\ role_assignments' = load_default
  /\ allowlist_input' = OtherToml
  /\ unsaved' = FALSE
  /\ UNCHANGED <<rolesFile, allowlistFile, shipped, kept, faults>>

-----------------------------------------------------------------------------

Init ==
  /\ shipped \in BOOLEAN
  /\ rolesFile = Absent
  /\ allowlistFile = Absent
  /\ role_assignments = load_default
  /\ allowlist_input = OtherToml
  /\ unsaved = FALSE
  /\ kept = Nothing
  /\ faults = 0

Next ==
  \/ \E a \in App, r \in Role : set_role_for_app(a, r)
  \/ \E text \in Typed : EditAllowlist(text)
  \/ save_allowlist_config
  \/ ReloadAllowlist
  \/ Restart

Spec == Init /\ [][Next]_vars

-----------------------------------------------------------------------------
(* Properties *)

\* There is one Maestro at most and one role per application, on the screen and in
\* whatever a restart would load, also from a file that a save left half written:
\* current_maestro, which takes the first it finds, and the rows of the panel agree.
OneMaestro == OneEach(role_assignments) /\ OneEach(load_default)

\* Unless its last save failed, the dashboard's next start shows the roles it shows
\* now, wherever they came from: a file of the working directory, a file that could
\* not be read, or any number of clicks.
SavedRolesAreLoaded == ~unsaved => load_default = role_assignments

\* What was saved as an allowlist is what "Reload" brings back; and if it is one, its
\* applications, and no others, are offered roles by the dashboard.  Text that is TOML but no list
\* (such as the one the editor starts with) is saved as well, and then the rows are
\* those of another file than the editor's.
SavedAllowlistGivesRows ==
  kept # Nothing =>
    /\ load_allowlist_config = kept
    /\ kept.kind = "List" => get_allowed_app_ids = kept.apps

\* Whatever becomes of entries and files, a click changes the role it is about, and
\* the Maestro it replaces; a start shows roles that the owner gave.
RoleOf(roles) == [a \in App |-> role_options_for_app(roles, a)]

Contract ==
  INSTANCE RolesContract WITH shown <- RoleOf(role_assignments),
                              saved <- RoleOf(load_default)

RolesSpec == Contract!Spec
=============================================================================
