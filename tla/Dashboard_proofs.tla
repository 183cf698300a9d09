---------------------------- MODULE Dashboard_proofs ----------------------------
(***************************************************************************)
(* Roles and allowlist of the dashboard, for any applications, shipped     *)
(* files and number of writes that fail.                                   *)
(***************************************************************************)
EXTENDS Dashboard, TLAPS, SequenceTheorems

\* A roles file that can be read has one Maestro and one entry per application too:
\* what a restart would load when the screen is not saved.
FileHasOne == Reads(rolesFile) => OneEach(rolesFile.contents)

IInv ==
  /\ TypeOK
  /\ OneEach(role_assignments)
  /\ FileHasOne
  /\ SavedRolesAreLoaded
  /\ SavedAllowlistGivesRows

-----------------------------------------------------------------------------
(* Lists of roles *)

LEMMA EmptyHasOne == <<>> \in Seq(Entry) /\ OneEach(<<>>)
  BY DEF OneEach

\* The beginning of a list, as a write that breaks off leaves it.
LEMMA BeginningHasOne ==
  ASSUME NEW roles \in Seq(Entry), OneEach(roles), NEW k \in 1..Len(roles)
  PROVE  SubSeq(roles, 1, k) \in Seq(Entry) /\ OneEach(SubSeq(roles, 1, k))
<1> DEFINE s == SubSeq(roles, 1, k)
<1>1. s \in Seq(Entry) /\ Len(s) = k
  OBVIOUS
<1>2. \A i \in 1..k : s[i] = roles[i]
  OBVIOUS
<1> HIDE DEF s
<1>3. OneEach(s)
  BY <1>1, <1>2 DEF OneEach
<1> QED
  BY <1>1, <1>3 DEF s

LEMMA RemoveAtProperties ==
  ASSUME NEW S, NEW s \in Seq(S), NEW p \in 1..Len(s)
  PROVE  /\ RemoveAt(s, p) \in Seq(S)
         /\ Len(RemoveAt(s, p)) = Len(s) - 1
         /\ \A i \in 1..Len(s) - 1 :
              RemoveAt(s, p)[i] = IF i < p THEN s[i] ELSE s[i + 1]
<1> DEFINE front == SubSeq(s, 1, p - 1)
           back == SubSeq(s, p + 1, Len(s))
<1>1. /\ front \in Seq(S) /\ Len(front) = p - 1
      /\ \A i \in 1..p - 1 : front[i] = s[i]
  OBVIOUS
<1>2. /\ back \in Seq(S) /\ Len(back) = Len(s) - p
      /\ \A i \in 1..Len(s) - p : back[i] = s[p + i]
  OBVIOUS
<1> HIDE DEF front, back
<1>3. /\ front \o back \in Seq(S)
      /\ Len(front \o back) = Len(front) + Len(back)
      /\ \A i \in 1..Len(front) + Len(back) :
           (front \o back)[i] = IF i <= Len(front) THEN front[i] ELSE back[i - Len(front)]
  BY <1>1, <1>2, ConcatProperties
<1>4. Len(front \o back) = Len(s) - 1
  BY <1>1, <1>2, <1>3
<1>5. ASSUME NEW i \in 1..Len(s) - 1
      PROVE  (front \o back)[i] = IF i < p THEN s[i] ELSE s[i + 1]
  <2>1. i \in 1..Len(front) + Len(back)
    BY <1>1, <1>2
  <2>2. CASE i < p
    <3>1. (front \o back)[i] = front[i]
      BY <1>1, <1>3, <2>1, <2>2
    <3> QED
      BY <1>1, <2>2, <3>1
  <2>3. CASE ~(i < p)
    <3>1. (front \o back)[i] = back[i - (p - 1)]
      BY <1>1, <1>3, <2>1, <2>3
    <3>2. i - (p - 1) \in 1..Len(s) - p /\ p + (i - (p - 1)) = i + 1
      BY <2>3
    <3> QED
      BY <1>2, <2>3, <3>1, <3>2
  <2> QED
    BY <2>2, <2>3
<1> QED
  BY <1>3, <1>4, <1>5 DEF RemoveAt, front, back

\* retain: what is left of a list has no entry of the application.
LEMMA WithoutHasOne ==
  ASSUME NEW roles \in Seq(Entry), OneEach(roles), NEW a \in App
  PROVE  /\ Without(roles, a) \in Seq(Entry)
         /\ OneEach(Without(roles, a))
         /\ ~HasEntry(Without(roles, a), a)
<1>1. CASE ~HasEntry(roles, a)
  BY <1>1 DEF Without
<1>2. CASE HasEntry(roles, a)
  <2> DEFINE p == Place(roles, a)
             s == RemoveAt(roles, p)
  <2>1. p \in 1..Len(roles) /\ roles[p].app = a
    BY <1>2 DEF HasEntry, Place
  <2> HIDE DEF p
  <2>2. s \in Seq(Entry) /\ Len(s) = Len(roles) - 1
    BY <2>1, RemoveAtProperties
  <2>3. \A i \in 1..Len(roles) - 1 : s[i] = IF i < p THEN roles[i] ELSE roles[i + 1]
    BY <2>1, RemoveAtProperties
  <2> HIDE DEF s
  <2>4. OneEach(s)
    <3> DEFINE from(i) == IF i < p THEN i ELSE i + 1
    <3>1. \A i \in 1..Len(roles) - 1 : from(i) \in 1..Len(roles) /\ s[i] = roles[from(i)]
      BY <2>1, <2>3
    <3>2. \A i, j \in 1..Len(roles) - 1 : i # j => from(i) # from(j)
      BY <2>1
    <3>3. DOMAIN s = 1..Len(roles) - 1 /\ DOMAIN roles = 1..Len(roles)
      BY <2>2
    <3> HIDE DEF from
    <3> QED
      BY <3>1, <3>2, <3>3 DEF OneEach
  <2>5. ~HasEntry(s, a)
    BY <2>1, <2>2, <2>3 DEF OneEach, HasEntry
  <2> QED
    BY <1>2, <2>2, <2>4, <2>5 DEF Without, s, p
<1> QED
  BY <1>1, <1>2

LEMMA AppendHasOne ==
  ASSUME NEW roles \in Seq(Entry), OneEach(roles), NEW e \in Entry,
         ~HasEntry(roles, e.app),
         e.role = Maestro => \A i \in DOMAIN roles : roles[i].role # Maestro
  PROVE  Append(roles, e) \in Seq(Entry) /\ OneEach(Append(roles, e))
<1> DEFINE s == Append(roles, e)
<1>1. s \in Seq(Entry) /\ Len(s) = Len(roles) + 1
  OBVIOUS
<1>2. s[Len(roles) + 1] = e /\ \A i \in 1..Len(roles) : s[i] = roles[i]
  OBVIOUS
<1> HIDE DEF s
<1>3. OneEach(s)
  BY <1>1, <1>2 DEF OneEach, HasEntry
<1> QED
  BY <1>1, <1>3 DEF s

\* Any role but Maestro, which promote_maestro gives.
LEMMA SetRoleHasOne ==
  ASSUME NEW roles \in Seq(Entry), OneEach(roles), NEW a \in App,
         NEW r \in Role, r # Maestro
  PROVE  set_role(roles, a, r) \in Seq(Entry) /\ OneEach(set_role(roles, a, r))
<1> DEFINE e == [app |-> a, role |-> r]
<1>1. e \in Entry /\ e.app = a /\ e.role = r
  BY DEF Entry
<1> HIDE DEF e
<1>2. /\ Without(roles, a) \in Seq(Entry)
      /\ OneEach(Without(roles, a))
      /\ ~HasEntry(Without(roles, a), a)
  BY WithoutHasOne
<1>3. /\ Append(Without(roles, a), e) \in Seq(Entry)
      /\ OneEach(Append(Without(roles, a), e))
  BY <1>1, <1>2, AppendHasOne
<1> QED
  BY <1>2, <1>3 DEF set_role, e

\* The list in which a is Maestro, if it has an entry, and nobody else is.
Demoted(roles, a) ==
  [i \in DOMAIN roles |->
     CASE roles[i].app = a        -> [roles[i] EXCEPT !.role = Maestro]
       [] roles[i].app # a /\ roles[i].role = Maestro
                                  -> [roles[i] EXCEPT !.role = NoRole]
       [] OTHER                   -> roles[i]]

LEMMA DemotedList ==
  ASSUME NEW roles \in Seq(Entry), NEW a \in App
  PROVE  /\ Demoted(roles, a) \in Seq(Entry)
         /\ Len(Demoted(roles, a)) = Len(roles)
         /\ DOMAIN Demoted(roles, a) = DOMAIN roles
         /\ \A i \in DOMAIN roles :
              /\ Demoted(roles, a)[i].app = roles[i].app
              /\ Demoted(roles, a)[i].role =
                   IF roles[i].app = a THEN Maestro
                   ELSE IF roles[i].role = Maestro THEN NoRole ELSE roles[i].role
         /\ promote_maestro(roles, a) =
              IF HasEntry(roles, a) THEN Demoted(roles, a)
              ELSE Append(Demoted(roles, a), [app |-> a, role |-> Maestro])
<1> DEFINE s == Demoted(roles, a)
<1>1. \A i \in DOMAIN roles : roles[i] \in Entry
  OBVIOUS
<1>2. \A i \in DOMAIN roles :
        /\ s[i] \in Entry
        /\ s[i].app = roles[i].app
        /\ s[i].role = IF roles[i].app = a THEN Maestro
                       ELSE IF roles[i].role = Maestro THEN NoRole ELSE roles[i].role
  BY <1>1 DEF Demoted, Entry, Role
<1>3. s \in Seq(Entry) /\ Len(s) = Len(roles) /\ DOMAIN s = DOMAIN roles
  <2>1. DOMAIN s = 1..Len(roles) /\ Len(roles) \in Nat
    BY DEF Demoted
  <2>2. \A i \in 1..Len(roles) : s[i] \in Entry
    BY <1>2
  <2>3. s = [i \in 1..Len(roles) |-> s[i]]
    BY <2>1 DEF Demoted
  <2> HIDE DEF s
  <2>4. s \in [1..Len(roles) -> Entry]
    BY <2>2, <2>3
  <2> QED
    BY <2>1, <2>4, SeqDef
<1>4. promote_maestro(roles, a) = IF HasEntry(roles, a) THEN s
                                  ELSE Append(s, [app |-> a, role |-> Maestro])
  BY DEF promote_maestro, Demoted
<1> QED
  BY <1>2, <1>3, <1>4

LEMMA PromoteHasOne ==
  ASSUME NEW roles \in Seq(Entry), OneEach(roles), NEW a \in App
  PROVE  /\ promote_maestro(roles, a) \in Seq(Entry)
         /\ OneEach(promote_maestro(roles, a))
<1> DEFINE s == Demoted(roles, a)
<1>1. s \in Seq(Entry) /\ Len(s) = Len(roles) /\ DOMAIN s = DOMAIN roles
  BY DemotedList
<1>2. \A i \in DOMAIN roles :
        /\ s[i].app = roles[i].app
        /\ s[i].role = IF roles[i].app = a THEN Maestro
                       ELSE IF roles[i].role = Maestro THEN NoRole ELSE roles[i].role
  BY DemotedList
<1>3. NoRole # Maestro
  BY DEF NoRole, Maestro
<1>4. promote_maestro(roles, a) = IF HasEntry(roles, a) THEN s
                                  ELSE Append(s, [app |-> a, role |-> Maestro])
  BY DemotedList
<1> HIDE DEF s
<1>5. OneEach(s)
  BY <1>1, <1>2, <1>3 DEF OneEach
<1>6. CASE HasEntry(roles, a)
  BY <1>1, <1>4, <1>5, <1>6
<1>7. CASE ~HasEntry(roles, a)
  <2> DEFINE e == [app |-> a, role |-> Maestro]
  <2>1. e \in Entry /\ e.app = a /\ e.role = Maestro
    BY DEF Entry, Role
  <2>2. ~HasEntry(s, a) /\ \A i \in DOMAIN s : s[i].role # Maestro
    BY <1>1, <1>2, <1>3, <1>7 DEF HasEntry
  <2> HIDE DEF e
  <2>3. Append(s, e) \in Seq(Entry) /\ OneEach(Append(s, e))
    BY <1>1, <1>5, <2>1, <2>2, AppendHasOne
  <2> QED
    BY <1>4, <1>7, <2>3 DEF e
<1> QED
  BY <1>6, <1>7

-----------------------------------------------------------------------------
(* Files *)

\* A save leaves a file that is not there, cannot be read, or has one of each; and
\* one that succeeds leaves the list as it is.
LEMMA SaveKeepsOne ==
  ASSUME TypeOK, FileHasOne, NEW roles \in Seq(Entry), OneEach(roles),
         save_default(roles)
  PROVE  /\ Reads(rolesFile') => /\ rolesFile'.contents \in Seq(Entry)
                                 /\ OneEach(rolesFile'.contents)
         /\ rolesFile'.kind \in {"Absent", "Unreadable", "Readable"}
         /\ ~unsaved' => rolesFile' = Readable(roles)
         /\ unsaved' \in BOOLEAN
         /\ faults' \in 0..MaxFaults
<1>1. CASE rolesFile' = Readable(roles) /\ unsaved' = FALSE /\ UNCHANGED faults
  BY <1>1 DEF TypeOK, Reads, Readable
<1>2. CASE /\ faults < MaxFaults
           /\ faults' = faults + 1
           /\ unsaved' = TRUE
           /\ rolesFile' \in {rolesFile} \cup TornRoles(roles)
  <2>0. faults' \in 0..MaxFaults
    BY <1>2, FaultsAssumption DEF TypeOK
  <2>1. CASE rolesFile' = rolesFile
    BY <1>2, <2>0, <2>1 DEF TypeOK, FileHasOne
  <2>2. CASE rolesFile' = Unreadable
    BY <1>2, <2>0, <2>2 DEF Unreadable, Reads
  <2>3. ASSUME NEW k \in 1..Len(roles), rolesFile' = Readable(SubSeq(roles, 1, k))
        PROVE  /\ rolesFile'.kind = "Readable"
               /\ rolesFile'.contents \in Seq(Entry)
               /\ OneEach(rolesFile'.contents)
    BY <2>3, BeginningHasOne DEF Readable, Reads
  <2> QED
    BY <1>2, <2>0, <2>1, <2>2, <2>3 DEF TornRoles
<1> QED
  BY <1>1, <1>2 DEF save_default

\* What a restart loads has one Maestro and one entry per application.
LEMMA LoadHasOne ==
  ASSUME TypeOK, FileHasOne
  PROVE  load_default \in Seq(Entry) /\ OneEach(load_default)
  BY EmptyHasOne, RolesAssumption DEF load_default, FileHasOne, TypeOK

\* The text that "Reload" brings back is a text, if there is a file.
LEMMA LoadIsText ==
  ASSUME TypeOK
  PROVE  load_allowlist_config \in Text \cup {Nothing}
<1>1. Reads(allowlistFile) => allowlistFile.contents \in Text
  BY DEF TypeOK, AllowlistFile, Readable, Absent, Reads
<1>2. Exists(allowlistFile) => Reads(allowlistFile)
  BY DEF TypeOK, AllowlistFile, Readable, Absent, Reads, Exists
<1>3. List(ShippedApps) \in Text
  BY AppsAssumption DEF Text
<1> QED
  BY <1>1, <1>2, <1>3 DEF load_allowlist_config

\* What is typed is a text.
LEMMA TypedIsText == Typed \subseteq Text
  BY ListsAssumption DEF Typed, Text

\* A part of a text is a text.
LEMMA TornIsText ==
  ASSUME NEW text \in Text
  PROVE  TornText(text) \subseteq Text
<1>1. OtherToml \in Text /\ NotToml \in Text
  BY DEF Text
<1>2. text.kind = "List" => text.apps \in SUBSET App
  BY DEF Text, List, OtherToml, NotToml
<1>3. ASSUME text.kind = "List", NEW apps \in SUBSET text.apps
      PROVE  List(apps) \in Text
  BY <1>2, <1>3 DEF Text
<1> QED
  BY <1>1, <1>3 DEF TornText

-----------------------------------------------------------------------------
(* The invariant *)

LEMMA InitInvariant == Init => IInv
<1> SUFFICES ASSUME Init PROVE IInv
  OBVIOUS
<1>1. load_default \in Seq(Entry) /\ OneEach(load_default)
  BY EmptyHasOne, RolesAssumption DEF Init, load_default, Exists, Absent
<1>2. TypeOK
  <2>1. allowlist_input \in Text /\ allowlistFile \in AllowlistFile
    BY DEF Init, Text, AllowlistFile
  <2>2. /\ rolesFile.kind \in {"Absent", "Unreadable", "Readable"}
        /\ ~Reads(rolesFile)
    BY DEF Init, Absent, Reads
  <2>3. role_assignments \in Seq(Entry) /\ faults \in 0..MaxFaults
    BY <1>1, FaultsAssumption DEF Init
  <2> QED
    BY <2>1, <2>2, <2>3 DEF Init, TypeOK
<1>3. FileHasOne
  BY DEF Init, FileHasOne, Reads, Absent
<1>4. SavedRolesAreLoaded /\ SavedAllowlistGivesRows
  BY DEF Init, SavedRolesAreLoaded, SavedAllowlistGivesRows
<1>5. OneEach(role_assignments)
  BY <1>1 DEF Init
<1> QED
  BY <1>2, <1>3, <1>4, <1>5 DEF IInv

LEMMA SetRoleInvariant ==
  ASSUME IInv, NEW a \in App, NEW r \in Role, set_role_for_app(a, r)
  PROVE  IInv'
<1>1. role_assignments' \in Seq(Entry) /\ OneEach(role_assignments')
  BY SetRoleHasOne, PromoteHasOne DEF IInv, TypeOK, set_role_for_app
<1>2. /\ Reads(rolesFile') => /\ rolesFile'.contents \in Seq(Entry)
                              /\ OneEach(rolesFile'.contents)
      /\ rolesFile'.kind \in {"Absent", "Unreadable", "Readable"}
      /\ ~unsaved' => rolesFile' = Readable(role_assignments')
      /\ unsaved' \in BOOLEAN
      /\ faults' \in 0..MaxFaults
  <2>1. save_default(role_assignments')
    BY DEF set_role_for_app
  <2> QED
    BY <1>1, <2>1, SaveKeepsOne DEF IInv
<1>3. TypeOK'
  BY <1>1, <1>2 DEF IInv, TypeOK, set_role_for_app, Reads
<1>4. FileHasOne'
  BY <1>2 DEF FileHasOne, Reads
<1>5. SavedRolesAreLoaded'
  BY <1>2 DEF SavedRolesAreLoaded, load_default, Exists, Reads, Readable
<1>6. SavedAllowlistGivesRows'
  BY DEF IInv, set_role_for_app, SavedAllowlistGivesRows, load_allowlist_config,
         get_allowed_app_ids
<1> QED
  BY <1>1, <1>3, <1>4, <1>5, <1>6 DEF IInv

LEMMA EditInvariant ==
  ASSUME IInv, NEW text \in Text, EditAllowlist(text)
  PROVE  IInv'
<1>1. TypeOK'
  BY DEF IInv, TypeOK, EditAllowlist, Reads
<1>2. FileHasOne' /\ SavedRolesAreLoaded' /\ OneEach(role_assignments')
  BY DEF IInv, EditAllowlist, FileHasOne, SavedRolesAreLoaded, load_default, Exists, Reads
<1>3. SavedAllowlistGivesRows'
  BY DEF IInv, EditAllowlist, SavedAllowlistGivesRows, load_allowlist_config,
         get_allowed_app_ids
<1> QED
  BY <1>1, <1>2, <1>3 DEF IInv

LEMMA SaveAllowlistInvariant ==
  ASSUME IInv, save_allowlist_config
  PROVE  IInv'
<1>1. FileHasOne' /\ SavedRolesAreLoaded' /\ OneEach(role_assignments')
  BY DEF IInv, save_allowlist_config, FileHasOne, SavedRolesAreLoaded, load_default,
         Exists, Reads
<1>2. CASE /\ allowlistFile' = Readable(allowlist_input)
           /\ kept' = allowlist_input
           /\ UNCHANGED faults
  <2>1. TypeOK'
    BY <1>2 DEF IInv, save_allowlist_config, TypeOK, AllowlistFile, Reads
  <2>2. SavedAllowlistGivesRows'
    BY <1>2 DEF SavedAllowlistGivesRows, load_allowlist_config, get_allowed_app_ids,
                Readable, Exists
  <2> QED
    BY <1>1, <2>1, <2>2 DEF IInv
<1>3. CASE /\ faults < MaxFaults
           /\ faults' = faults + 1
           /\ allowlistFile' \in {allowlistFile}
                                   \cup {Readable(t) : t \in TornText(allowlist_input)}
           /\ kept' = IF allowlistFile' = allowlistFile THEN kept ELSE Nothing
  <2>1. allowlistFile' \in AllowlistFile
    BY <1>3, TornIsText DEF IInv, TypeOK, AllowlistFile
  <2>2. faults' \in 0..MaxFaults
    BY <1>3, FaultsAssumption DEF IInv, TypeOK
  <2>3. TypeOK'
    BY <1>3, <2>1, <2>2 DEF IInv, save_allowlist_config, TypeOK, Reads
  <2>4. SavedAllowlistGivesRows'
    BY <1>3 DEF IInv, save_allowlist_config, SavedAllowlistGivesRows,
                load_allowlist_config, get_allowed_app_ids
  <2> QED
    BY <1>1, <2>3, <2>4 DEF IInv
<1> QED
  BY <1>2, <1>3 DEF save_allowlist_config

LEMMA ReloadInvariant ==
  ASSUME IInv, ReloadAllowlist
  PROVE  IInv'
<1>1. load_allowlist_config \in Text
  BY LoadIsText DEF IInv, ReloadAllowlist
<1>2. EditAllowlist(load_allowlist_config)
  BY DEF ReloadAllowlist, EditAllowlist
<1> QED
  BY <1>1, <1>2, EditInvariant

LEMMA RestartInvariant ==
  ASSUME IInv, Restart
  PROVE  IInv'
<1>1. load_default \in Seq(Entry) /\ OneEach(load_default)
  BY LoadHasOne DEF IInv
<1>2. load_default' = load_default
  BY DEF Restart, load_default, Exists, Reads
<1>3. TypeOK'
  BY <1>1 DEF IInv, TypeOK, Restart, Reads, Text
<1>4. FileHasOne' /\ SavedRolesAreLoaded' /\ OneEach(role_assignments')
  BY <1>1, <1>2 DEF IInv, Restart, FileHasOne, SavedRolesAreLoaded, Reads
<1>5. SavedAllowlistGivesRows'
  BY DEF IInv, Restart, SavedAllowlistGivesRows, load_allowlist_config,
         get_allowed_app_ids
<1> QED
  BY <1>3, <1>4, <1>5 DEF IInv

LEMMA StutterInvariant ==
  ASSUME IInv, UNCHANGED vars
  PROVE  IInv'
<1>1. load_default' = load_default /\ load_allowlist_config' = load_allowlist_config
      /\ get_allowed_app_ids' = get_allowed_app_ids
  BY DEF vars, load_default, load_allowlist_config, get_allowed_app_ids, Exists, Reads
<1> QED
  BY <1>1 DEF IInv, TypeOK, FileHasOne, SavedRolesAreLoaded, SavedAllowlistGivesRows,
              Reads, vars

\* The invariant of screen and files holds for any applications, shipped files and
\* number of failed writes.
THEOREM Invariance == Spec => []IInv
<1>1. IInv /\ [Next]_vars => IInv'
  BY SetRoleInvariant, EditInvariant, TypedIsText, SaveAllowlistInvariant,
     ReloadInvariant, RestartInvariant, StutterInvariant DEF Next
<1> QED
  BY <1>1, InitInvariant, PTL DEF Spec

\* However roles are given and taken away, and however a save breaks off, there is
\* one Maestro at most, now and after a restart (app.rs, RoleAssignmentSet).
THEOREM SingleMaestro == Spec => []OneMaestro
<1>1. IInv => OneMaestro
  BY LoadHasOne DEF IInv, OneMaestro
<1> QED
  BY <1>1, Invariance, PTL

\* A restart shows the roles that were saved (app.rs, load_default and save_default).
THEOREM RolesSurviveRestart == Spec => []SavedRolesAreLoaded
<1>1. IInv => SavedRolesAreLoaded
  BY DEF IInv
<1> QED
  BY <1>1, Invariance, PTL

\* An allowlist that was saved is the one the dashboard reloads and takes its rows from
\* (app.rs, save_allowlist_config, load_allowlist_config, get_allowed_app_ids).
THEOREM RowsAreOfSavedAllowlist == Spec => []SavedAllowlistGivesRows
<1>1. IInv => SavedAllowlistGivesRows
  BY DEF IInv
<1> QED
  BY <1>1, Invariance, PTL

\* Screen, editor and files keep their types.
THEOREM TypeCorrectness == Spec => []TypeOK
<1>1. IInv => TypeOK
  BY DEF IInv
<1> QED
  BY <1>1, Invariance, PTL
-----------------------------------------------------------------------------
(* Every step is a step of the contract *)

\* The role of an application is that of its one entry.
LEMMA RoleIs ==
  ASSUME NEW roles \in Seq(Entry), OneEach(roles), NEW a \in App
  PROVE  /\ \A i \in DOMAIN roles :
              roles[i].app = a => role_options_for_app(roles, a) = roles[i].role
         /\ ~HasEntry(roles, a) => role_options_for_app(roles, a) = NoRole
<1>1. ASSUME NEW i \in DOMAIN roles, roles[i].app = a
      PROVE  role_options_for_app(roles, a) = roles[i].role
  <2> DEFINE p == Place(roles, a)
  <2>1. HasEntry(roles, a)
    BY <1>1 DEF HasEntry
  <2>2. p \in DOMAIN roles /\ roles[p].app = a
    BY <2>1 DEF HasEntry, Place
  <2>3. role_options_for_app(roles, a) = roles[p].role
    BY <2>1 DEF role_options_for_app
  <2> HIDE DEF p
  <2>4. p = i
    BY <1>1, <2>2 DEF OneEach
  <2> QED
    BY <2>3, <2>4
<1>2. ~HasEntry(roles, a) => role_options_for_app(roles, a) = NoRole
  BY DEF role_options_for_app
<1> QED
  BY <1>1, <1>2

\* Two lists with the same entry for an application, or none, give it the same role.
LEMMA SameRole ==
  ASSUME NEW s \in Seq(Entry), OneEach(s), NEW t \in Seq(Entry), OneEach(t),
         NEW a \in App,
         HasEntry(s, a) <=> HasEntry(t, a),
         \A i \in DOMAIN s : s[i].app = a =>
           \E j \in DOMAIN t : t[j].app = a /\ t[j].role = s[i].role
  PROVE  role_options_for_app(s, a) = role_options_for_app(t, a)
<1>1. CASE HasEntry(s, a)
  <2>1. PICK i \in DOMAIN s : s[i].app = a
    BY <1>1 DEF HasEntry
  <2>2. PICK j \in DOMAIN t : t[j].app = a /\ t[j].role = s[i].role
    BY <2>1
  <2>3. role_options_for_app(s, a) = s[i].role
    BY <2>1, RoleIs
  <2>4. role_options_for_app(t, a) = t[j].role
    BY <2>2, RoleIs
  <2> QED
    BY <2>2, <2>3, <2>4
<1>2. CASE ~HasEntry(s, a)
  BY <1>2, RoleIs
<1> QED
  BY <1>1, <1>2

\* retain takes the role of one application and leaves the others theirs.
LEMMA WithoutGives ==
  ASSUME NEW roles \in Seq(Entry), OneEach(roles), NEW a \in App,
         NEW b \in App
  PROVE  role_options_for_app(Without(roles, a), b)
           = IF b = a THEN NoRole ELSE role_options_for_app(roles, b)
<1>1. /\ Without(roles, a) \in Seq(Entry) /\ OneEach(Without(roles, a))
      /\ ~HasEntry(Without(roles, a), a)
  BY WithoutHasOne
<1>2. CASE b = a
  BY <1>1, <1>2, RoleIs
<1>3. CASE b # a /\ ~HasEntry(roles, a)
  BY <1>3 DEF Without
<1>4. CASE b # a /\ HasEntry(roles, a)
  <2> DEFINE p == Place(roles, a)
             s == RemoveAt(roles, p)
  <2>1. p \in 1..Len(roles) /\ roles[p].app = a
    BY <1>4 DEF HasEntry, Place
  <2> HIDE DEF p
  <2>2. /\ s \in Seq(Entry) /\ Len(s) = Len(roles) - 1
        /\ \A i \in 1..Len(roles) - 1 : s[i] = IF i < p THEN roles[i] ELSE roles[i + 1]
    BY <2>1, RemoveAtProperties
  <2>3. s = Without(roles, a)
    BY <1>4 DEF Without, s, p
  <2> HIDE DEF s
  <2>4. DOMAIN s = 1..Len(roles) - 1 /\ DOMAIN roles = 1..Len(roles) /\ Len(roles) \in Nat
    BY <2>2
  <2>5. ASSUME NEW i \in DOMAIN s PROVE \E j \in DOMAIN roles : s[i] = roles[j]
    <3>1. i \in DOMAIN roles /\ i + 1 \in DOMAIN roles
      BY ONLY <2>4, i \in DOMAIN s
    <3>2. s[i] = roles[i] \/ s[i] = roles[i + 1]
      BY <2>2, <2>4
    <3> QED
      BY ONLY <3>1, <3>2
  <2>6. ASSUME NEW j \in DOMAIN roles, j # p PROVE \E i \in DOMAIN s : s[i] = roles[j]
    <3>1. CASE j < p
      BY <2>1, <2>2, <2>4, <2>6, <3>1
    <3>2. CASE j > p
      <4>1. j - 1 \in DOMAIN s /\ ~(j - 1 < p) /\ (j - 1) + 1 = j
        BY <2>1, <2>4, <2>6, <3>2
      <4>2. s[j - 1] = roles[j]
        BY <2>2, <2>4, <4>1
      <4> QED
        BY <4>1, <4>2
    <3> QED
      BY <2>1, <2>4, <2>6, <3>1, <3>2
  <2>7. HasEntry(s, b) <=> HasEntry(roles, b)
    BY <1>4, <2>1, <2>5, <2>6 DEF HasEntry
  <2>8. role_options_for_app(s, b) = role_options_for_app(roles, b)
    <3>1. \A i \in DOMAIN s : s[i].app = b =>
            \E j \in DOMAIN roles : roles[j].app = b /\ roles[j].role = s[i].role
      BY <2>5
    <3>2. s \in Seq(Entry) /\ OneEach(s)
      BY ONLY <1>1, <2>3
    <3> QED
      BY ONLY <2>7, <3>1, <3>2, roles \in Seq(Entry), OneEach(roles), b \in App, SameRole
  <2> QED
    BY <1>4, <2>3, <2>8
<1> QED
  BY <1>2, <1>3, <1>4

\* A new entry at the end is that of its application.
LEMMA AppendGives ==
  ASSUME NEW roles \in Seq(Entry), OneEach(roles), NEW e \in Entry,
         ~HasEntry(roles, e.app), OneEach(Append(roles, e)), NEW b \in App
  PROVE  role_options_for_app(Append(roles, e), b)
           = IF b = e.app THEN e.role ELSE role_options_for_app(roles, b)
<1> DEFINE s == Append(roles, e)
<1>1. /\ s \in Seq(Entry) /\ DOMAIN s = 1..Len(roles) + 1
      /\ DOMAIN roles = 1..Len(roles) /\ Len(roles) \in Nat
      /\ s[Len(roles) + 1] = e /\ \A i \in 1..Len(roles) : s[i] = roles[i]
  OBVIOUS
<1>2. OneEach(s)
  OBVIOUS
<1> HIDE DEF s
<1>3. CASE b = e.app
  <2>1. Len(roles) + 1 \in DOMAIN s
    BY <1>1
  <2> QED
    BY <1>1, <1>2, <1>3, <2>1, RoleIs DEF s
<1>4. CASE b # e.app
  <2>1. \A i \in DOMAIN s : s[i].app = b => i \in DOMAIN roles /\ s[i] = roles[i]
    BY <1>1, <1>4
  <2>2. \A i \in DOMAIN roles : i \in DOMAIN s /\ s[i] = roles[i]
    BY <1>1
  <2>3. HasEntry(s, b) <=> HasEntry(roles, b)
    BY <2>1, <2>2 DEF HasEntry
  <2>4. role_options_for_app(s, b) = role_options_for_app(roles, b)
    BY <1>1, <1>2, <2>1, <2>3, SameRole
  <2> QED
    BY <1>4, <2>4 DEF s
<1> QED
  BY <1>3, <1>4

LEMMA SetRoleGives ==
  ASSUME NEW roles \in Seq(Entry), OneEach(roles), NEW a \in App,
         NEW r \in Role, r # Maestro, NEW b \in App
  PROVE  role_options_for_app(set_role(roles, a, r), b)
           = IF b = a THEN r ELSE role_options_for_app(roles, b)
<1> DEFINE e == [app |-> a, role |-> r]
           w == Without(roles, a)
<1>1. e \in Entry /\ e.app = a /\ e.role = r
  BY DEF Entry
<1>2. w \in Seq(Entry) /\ OneEach(w) /\ ~HasEntry(w, a)
  BY WithoutHasOne
<1>3. role_options_for_app(w, b) = IF b = a THEN NoRole ELSE role_options_for_app(roles, b)
  BY WithoutGives
<1>4. set_role(roles, a, r) = IF r = NoRole THEN w ELSE Append(w, e)
  BY DEF set_role
<1> HIDE DEF e, w
<1>5. CASE r = NoRole
  BY <1>3, <1>4, <1>5
<1>6. CASE r # NoRole
  <2>1. OneEach(Append(w, e))
    BY <1>1, <1>2, AppendHasOne
  <2>2. role_options_for_app(Append(w, e), b)
          = IF b = e.app THEN e.role ELSE role_options_for_app(w, b)
    BY <1>1, <1>2, <2>1, AppendGives
  <2> QED
    BY <1>1, <1>3, <1>4, <1>6, <2>2
<1> QED
  BY <1>5, <1>6

\* The new Maestro gets its role, the former one loses it, the others keep theirs.
LEMMA PromoteGives ==
  ASSUME NEW roles \in Seq(Entry), OneEach(roles), NEW a \in App, NEW b \in App
  PROVE  role_options_for_app(promote_maestro(roles, a), b)
           = IF b = a THEN Maestro
             ELSE IF role_options_for_app(roles, b) = Maestro THEN NoRole
             ELSE role_options_for_app(roles, b)
<1> DEFINE s == Demoted(roles, a)
           e == [app |-> a, role |-> Maestro]
           new == promote_maestro(roles, a)
<1>1. e \in Entry /\ e.app = a /\ e.role = Maestro
  BY DEF Entry, Role
<1>2. /\ s \in Seq(Entry) /\ Len(s) = Len(roles) /\ DOMAIN s = DOMAIN roles
      /\ \A i \in DOMAIN roles :
           /\ s[i].app = roles[i].app
           /\ s[i].role = IF roles[i].app = a THEN Maestro
                          ELSE IF roles[i].role = Maestro THEN NoRole ELSE roles[i].role
  BY DemotedList
<1>3. new = IF HasEntry(roles, a) THEN s ELSE Append(s, e)
  BY DemotedList
<1>4. new \in Seq(Entry) /\ OneEach(new)
  BY PromoteHasOne
<1>5. DOMAIN roles = 1..Len(roles) /\ Len(roles) \in Nat
  OBVIOUS
<1> HIDE DEF s, e, new
<1>6. /\ \A i \in DOMAIN roles : i \in DOMAIN new /\ new[i] = s[i]
      /\ ~HasEntry(roles, a) => /\ Len(roles) + 1 \in DOMAIN new
                                /\ new[Len(roles) + 1] = e
      /\ \A i \in DOMAIN new :
           i \notin DOMAIN roles => ~HasEntry(roles, a) /\ i = Len(roles) + 1
  <2>1. CASE HasEntry(roles, a)
    BY <1>2, <1>3, <2>1
  <2>2. CASE ~HasEntry(roles, a)
    <3>1. new = Append(s, e)
      BY <1>3, <2>2
    <3>2. /\ DOMAIN new = 1..Len(s) + 1 /\ new[Len(s) + 1] = e
          /\ \A i \in 1..Len(s) : new[i] = s[i]
      BY <1>1, <1>2, <3>1
    <3> QED
      BY <1>2, <1>5, <2>2, <3>2
  <2> QED
    BY <2>1, <2>2
<1>7. CASE b = a
  <2>1. PICK i \in DOMAIN new : new[i].app = a /\ new[i].role = Maestro
    <3>1. CASE HasEntry(roles, a)
      BY <1>2, <1>6, <3>1 DEF HasEntry
    <3>2. CASE ~HasEntry(roles, a)
      BY <1>1, <1>6, <3>2
    <3> QED
      BY <3>1, <3>2
  <2> QED
    BY <1>4, <1>7, <2>1, RoleIs DEF new
<1>8. CASE b # a /\ HasEntry(roles, b)
  <2>1. PICK i \in DOMAIN roles : roles[i].app = b
    BY <1>8 DEF HasEntry
  <2>2. role_options_for_app(roles, b) = roles[i].role
    BY <2>1, RoleIs
  <2>3. /\ i \in DOMAIN new /\ new[i].app = b
        /\ new[i].role = IF roles[i].role = Maestro THEN NoRole ELSE roles[i].role
    BY <1>2, <1>6, <1>8, <2>1
  <2>4. role_options_for_app(new, b) = new[i].role
    BY <1>4, <2>3, RoleIs
  <2> QED
    BY <1>8, <2>2, <2>3, <2>4 DEF new
<1>9. CASE b # a /\ ~HasEntry(roles, b)
  <2>1. ~HasEntry(new, b)
    BY <1>1, <1>2, <1>6, <1>9 DEF HasEntry
  <2>2. role_options_for_app(new, b) = NoRole /\ role_options_for_app(roles, b) = NoRole
    BY <1>4, <1>9, <2>1, RoleIs
  <2> QED
    BY <1>9, <2>2 DEF new, NoRole, Maestro
<1> QED
  BY <1>7, <1>8, <1>9

\* The beginning of a list gives some applications the roles the whole gives them.
LEMMA BeginningGives ==
  ASSUME NEW roles \in Seq(Entry), OneEach(roles), NEW k \in 1..Len(roles)
  PROVE  \E some \in SUBSET App : \A b \in App :
           role_options_for_app(SubSeq(roles, 1, k), b)
             = IF b \in some THEN role_options_for_app(roles, b) ELSE NoRole
<1> DEFINE s == SubSeq(roles, 1, k)
           some == {b \in App : HasEntry(s, b)}
<1>1. s \in Seq(Entry) /\ OneEach(s)
  BY BeginningHasOne
<1>2. \A i \in DOMAIN s : i \in DOMAIN roles /\ s[i] = roles[i]
  OBVIOUS
<1> HIDE DEF s
<1>3. ASSUME NEW b \in App, b \in some
      PROVE  role_options_for_app(s, b) = role_options_for_app(roles, b)
  <2>1. HasEntry(s, b) /\ HasEntry(roles, b)
    BY <1>2, <1>3 DEF HasEntry
  <2> QED
    BY <1>1, <1>2, <2>1, SameRole
<1>4. ASSUME NEW b \in App, b \notin some
      PROVE  role_options_for_app(s, b) = NoRole
  BY <1>1, <1>4, RoleIs
<1>5. some \in SUBSET App
  OBVIOUS
<1> HIDE DEF some
<1> QED
  BY <1>3, <1>4, <1>5 DEF s
\* A list gives every application a role, and one application the Maestro's at most.
LEMMA RoleOfType ==
  ASSUME NEW roles \in Seq(Entry), OneEach(roles)
  PROVE  /\ RoleOf(roles) \in [App -> Role]
         /\ \A a, b \in App :
              RoleOf(roles)[a] = Maestro /\ RoleOf(roles)[b] = Maestro => a = b
<1>1. \A i \in DOMAIN roles : roles[i] \in Entry
  OBVIOUS
<1>2. ASSUME NEW a \in App
      PROVE  \/ role_options_for_app(roles, a) = NoRole
             \/ \E i \in DOMAIN roles : /\ roles[i].app = a
                                        /\ role_options_for_app(roles, a) = roles[i].role
  BY RoleIs DEF HasEntry
<1>3. \A a \in App : role_options_for_app(roles, a) \in Role
  BY <1>1, <1>2 DEF Entry, Role
<1>4. ASSUME NEW a \in App, NEW b \in App,
             role_options_for_app(roles, a) = Maestro,
             role_options_for_app(roles, b) = Maestro
      PROVE  a = b
  <2>1. NoRole # Maestro
    BY DEF NoRole, Maestro
  <2>2. PICK i \in DOMAIN roles : roles[i].app = a /\ roles[i].role = Maestro
    BY <1>2, <1>4, <2>1
  <2>3. PICK j \in DOMAIN roles : roles[j].app = b /\ roles[j].role = Maestro
    BY <1>2, <1>4, <2>1
  <2> QED
    BY <2>2, <2>3 DEF OneEach
<1> QED
  BY <1>3, <1>4 DEF RoleOf

LEMMA InitContract == Init => Contract!Init
<1> SUFFICES ASSUME Init PROVE Contract!Init
  OBVIOUS
<1>1. role_assignments = load_default /\ unsaved = FALSE
  BY DEF Init
<1>2. load_default \in Seq(Entry) /\ OneEach(load_default)
  BY EmptyHasOne, RolesAssumption DEF Init, load_default, Exists, Absent
<1>3. /\ RoleOf(load_default) \in [App -> Role]
      /\ \A a, b \in App :
           RoleOf(load_default)[a] = Maestro /\ RoleOf(load_default)[b] = Maestro => a = b
  BY <1>2, RoleOfType
<1> QED
  BY <1>1, <1>3 DEF Contract!Init

\* A click: the screen.
LEMMA GivenContract ==
  ASSUME IInv, NEW a \in App, NEW r \in Role, set_role_for_app(a, r)
  PROVE  RoleOf(role_assignments)' = Contract!Given(a, r)
<1>1. role_assignments \in Seq(Entry) /\ OneEach(role_assignments)
  BY DEF IInv, TypeOK
<1>2. CASE r = Maestro
  <2>1. role_assignments' = promote_maestro(role_assignments, a)
    BY <1>2 DEF set_role_for_app
  <2>2. ASSUME NEW b \in App
        PROVE  role_options_for_app(role_assignments', b)
                 = IF b = a THEN Maestro
                   ELSE IF role_options_for_app(role_assignments, b) = Maestro THEN NoRole
                   ELSE role_options_for_app(role_assignments, b)
    BY <1>1, <2>1, PromoteGives
  <2> QED
    BY <1>2, <2>2 DEF RoleOf, Contract!Given
<1>3. CASE r # Maestro
  <2>1. role_assignments' = set_role(role_assignments, a, r)
    BY <1>3 DEF set_role_for_app
  <2>2. ASSUME NEW b \in App
        PROVE  role_options_for_app(role_assignments', b)
                 = IF b = a THEN r ELSE role_options_for_app(role_assignments, b)
    BY <1>1, <1>3, <2>1, SetRoleGives
  <2> QED
    BY <1>3, <2>2 DEF RoleOf, Contract!Given
<1> QED
  BY <1>2, <1>3

\* A click: the file.
LEMMA SavedContract ==
  ASSUME IInv, NEW a \in App, NEW r \in Role, set_role_for_app(a, r)
  PROVE  \/ RoleOf(load_default)' = RoleOf(role_assignments)' /\ unsaved' = FALSE
         \/ /\ unsaved' = TRUE
            /\ \/ RoleOf(load_default)' = RoleOf(load_default)
               \/ \E some \in SUBSET App :
                    RoleOf(load_default)' = Contract!Only(some, RoleOf(role_assignments)')
<1> PICK roles \in Seq(Entry) : roles = role_assignments' /\ OneEach(roles)
  BY SetRoleInvariant DEF IInv, TypeOK
<1>1. save_default(roles) /\ shipped' = shipped
  BY DEF set_role_for_app
<1>2. CASE rolesFile' = Readable(roles) /\ unsaved' = FALSE
  <2>1. load_default' = roles
    BY <1>2 DEF load_default, Exists, Reads, Readable
  <2> QED
    BY <1>2, <2>1 DEF RoleOf
<1>3. CASE unsaved' = TRUE /\ rolesFile' = rolesFile
  <2>1. load_default' = load_default
    BY <1>1, <1>3 DEF load_default, Exists, Reads
  <2> QED
    BY <1>3, <2>1 DEF RoleOf
<1>4. CASE unsaved' = TRUE /\ rolesFile' = Unreadable
  <2>1. load_default' = <<>>
    BY <1>4 DEF load_default, Exists, Reads, Unreadable
  <2>2. \A b \in App : role_options_for_app(<<>>, b) = NoRole
    BY DEF role_options_for_app, HasEntry
  <2>3. RoleOf(load_default)' = Contract!Only({}, RoleOf(role_assignments)')
    BY <2>1, <2>2 DEF RoleOf, Contract!Only
  <2>4. {} \in SUBSET App
    OBVIOUS
  <2> QED
    BY <1>4, <2>3, <2>4
<1>5. ASSUME unsaved' = TRUE, NEW k \in 1..Len(roles),
             rolesFile' = Readable(SubSeq(roles, 1, k))
      PROVE  \E some \in SUBSET App :
               RoleOf(load_default)' = Contract!Only(some, RoleOf(role_assignments)')
  <2>1. load_default' = SubSeq(roles, 1, k)
    BY <1>5 DEF load_default, Exists, Reads, Readable
  <2>2. PICK some \in SUBSET App : \A b \in App :
          role_options_for_app(SubSeq(roles, 1, k), b)
            = IF b \in some THEN role_options_for_app(roles, b) ELSE NoRole
    BY BeginningGives
  <2>3. RoleOf(load_default)' = Contract!Only(some, RoleOf(role_assignments)')
    BY <2>1, <2>2 DEF RoleOf, Contract!Only
  <2> QED
    BY <2>3
<1> QED
  BY <1>1, <1>2, <1>3, <1>4, <1>5 DEF save_default, TornRoles

LEMMA StartContract ==
  ASSUME Restart
  PROVE  Contract!Start
<1>1. load_default' = load_default
  BY DEF Restart, load_default, Exists, Reads
<1> QED
  BY <1>1 DEF Restart, Contract!Start, RoleOf

\* Every click changes the roles it should and no others, and every start shows roles
\* that were given, whatever becomes of lists, entries and files (app.rs,
\* set_role_for_app, RoleAssignmentSet).
THEOREM ImplementsContract == Spec => RolesSpec
<1>1. IInv /\ [Next]_vars => [Contract!Next]_(Contract!vars)
  <2> SUFFICES ASSUME IInv, [Next]_vars PROVE [Contract!Next]_(Contract!vars)
    OBVIOUS
  <2>1. ASSUME NEW a \in App, NEW r \in Role, set_role_for_app(a, r)
        PROVE  Contract!Next
    <3>1. Contract!Assign(a, r)
      BY <2>1, GivenContract, SavedContract DEF Contract!Assign
    <3> QED
      BY <3>1 DEF Contract!Next
  <2>2. CASE Restart
    BY <2>2, StartContract DEF Contract!Next
  <2>3. ASSUME UNCHANGED <<role_assignments, rolesFile, shipped, unsaved>>
        PROVE  UNCHANGED Contract!vars
    <3>1. load_default' = load_default
      BY <2>3 DEF load_default, Exists, Reads
    <3> QED
      BY <2>3, <3>1 DEF Contract!vars, RoleOf
  <2>4. ASSUME NEW text \in Typed, EditAllowlist(text)
        PROVE  UNCHANGED Contract!vars
    BY <2>3, <2>4 DEF EditAllowlist
  <2>5. CASE save_allowlist_config \/ ReloadAllowlist \/ UNCHANGED vars
    BY <2>3, <2>5 DEF save_allowlist_config, ReloadAllowlist, vars
  <2> QED
    BY <2>1, <2>2, <2>4, <2>5 DEF Next
<1> QED
  BY <1>1, InitContract, Invariance, PTL DEF Spec, RolesSpec, Contract!Spec
=============================================================================
