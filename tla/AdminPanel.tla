----------------------------- MODULE AdminPanel -----------------------------
(***************************************************************************)
(* The dashboard's admin panel (ai-bridge-ui/src/admin_panel.rs): rows on   *)
(* the screen, files on the disk, their backups and the audit log.          *)
(*                                                                         *)
(* Everything runs on the drawing thread, so the handler of a click is one  *)
(* action.  What makes it hard are the places where it can break off: the   *)
(* copy to the backup, the write of the file and the append to the log each *)
(* may fail, before they begin or in the middle.  A panel that is killed in *)
(* the middle of a save leaves the disk as such a failure does; Restart     *)
(* then is its next start.                                                  *)
(*                                                                         *)
(* A file that was written in part reads as a prefix of its rows or does    *)
(* not parse.  Backups are named after the second they are made in.  The    *)
(* log is the file of one month, in ASCII: a character of more bytes that   *)
(* is cut in two makes read_all refuse the whole file.                      *)
(***************************************************************************)
EXTENDS AdminConfig, FiniteSets

CONSTANTS
  Shipped,     \* [File -> rows]: the repository's config/, used where no own file is
  Own,         \* [File -> rows]: own files the installer or an earlier start left
  NewName,     \* the name an added row gets ("new_binary", "new_socket", ...)
  MaxRows,     \* bound: rows of a section
  MaxEdits,    \* bound: edits of rows
  MaxChanges,  \* bound: files written whole
  MaxFaults,   \* bound: operations that fail
  MaxSecond    \* bound: seconds that pass

ASSUME BoundsAssumption == {MaxRows, MaxEdits, MaxChanges, MaxFaults, MaxSecond} \subseteq Nat
ASSUME NewNameAssumption == NewName \in Name
ASSUME FilesAssumption ==
  \A files \in {Shipped, Own} :
    /\ DOMAIN files = File
    /\ \A f \in File : files[f] \in Seq(Entry(f)) /\ validate(Section(f, files[f]))

VARIABLES
  rows,      \* [File -> rows]: what the tabs show
  dirty,     \* [File -> BOOLEAN]: <section>_dirty
  dialog,    \* confirm_dialog: << >> or <<file, the rows it was opened for>>
  disk,      \* [File -> content]: the files under config_root
  backups,   \* [File -> [second -> content]]
  second,    \* the clock backup_config reads
  log,       \* the entries read_all finds
  open_line, \* how the log ends: "no" (with a newline), "bytes" or "entry" (without)
  edits,     \* edits so far
  faults,    \* operations that failed
  changes,   \* history: the files written whole, in order
  good,      \* history: [File -> content], what the file was last given in full
  hasty      \* history: files whose failed save was repeated within its second

panelVars == <<rows, dirty, dialog>>
diskVars == <<disk, backups, good, hasty>>
logVars == <<log, open_line>>
vars == <<rows, dirty, dialog, disk, backups, second, log, open_line, edits, faults,
          changes, good, hasty>>

----------------------------------------------------------------------------
Absent == [kind |-> "absent", rows |-> <<>>]
Whole(r) == [kind |-> "whole", rows |-> r]
Prefix(r, n) == [kind |-> "prefix", rows |-> SubSeq(r, 1, n)]
Broken == [kind |-> "broken", rows |-> <<>>]

ContentOf(row) == [kind : {"absent", "whole", "prefix", "broken"}, rows : Seq(row)]
Content(f) == ContentOf(Entry(f))

\* find_file: the own file, whatever its state, else the shipped one.
find_file(f) == IF disk[f] = Absent THEN Whole(Shipped[f]) ELSE disk[f]

\* What load_<section> puts on the screen: nothing if the file does not parse.
load(f) == find_file(f).rows

Spoil(n) == faults + n <= MaxFaults /\ faults' = faults + n

----------------------------------------------------------------------------
(***************************************************************************)
(* Editing.  Of a row the panel lets the user change some columns only, and *)
(* a change of a symbol's classification does not mark the section dirty.   *)
(***************************************************************************)
Editable(f, old, new) ==
  CASE f = "allowlist" -> TRUE
    [] f = "policy" -> /\ new.symbol = old.symbol
                       /\ old.symbol \in CRITICAL_SYMBOLS => new.auto_approve = old.auto_approve
    [] f = "criteria" -> new.category = old.category
    [] f = "sockets" -> new.name = old.name
    [] f = "branches" -> new.name = old.name

\* Mutant: a changed limit does not mark the branches either.
MarksLists(f, old, new) ==
  f \in {"policy", "branches"} => f = "policy" /\ new.auto_approve # old.auto_approve

Marks(f, old, new) == f = "policy" => new.auto_approve # old.auto_approve

EditRow(f) ==
  /\ edits < MaxEdits
  /\ \E i \in DOMAIN rows[f], new \in Entry(f) :
       /\ new # rows[f][i]
       /\ Editable(f, rows[f][i], new)
       /\ rows' = [rows EXCEPT ![f][i] = new]
       /\ dirty' = [dirty EXCEPT ![f] = @ \/ Marks(f, rows[f][i], new)]
  /\ edits' = edits + 1
  /\ UNCHANGED <<dialog, diskVars, second, logVars, faults, changes>>

Listed == {"allowlist", "criteria", "sockets"}  \* sections whose rows come and go

NewRow(f) ==
  CASE f = "allowlist" -> [name |-> NewName, wildcard |-> FALSE]
    [] f = "criteria" -> [category |-> NewName, compiles |-> TRUE]
    [] f = "sockets" -> [name |-> NewName, octal |-> TRUE]

AddRow(f) ==
  /\ f \in Listed
  /\ edits < MaxEdits
  /\ Len(rows[f]) < MaxRows
  /\ rows' = [rows EXCEPT ![f] = Append(@, NewRow(f))]
  /\ dirty' = [dirty EXCEPT ![f] = TRUE]
  /\ edits' = edits + 1
  /\ UNCHANGED <<dialog, diskVars, second, logVars, faults, changes>>

Without(s, i) == SubSeq(s, 1, i - 1) \o SubSeq(s, i + 1, Len(s))

RemoveRow(f) ==
  /\ f \in Listed
  /\ edits < MaxEdits
  /\ \E i \in DOMAIN rows[f] : rows' = [rows EXCEPT ![f] = Without(@, i)]
  /\ dirty' = [dirty EXCEPT ![f] = TRUE]
  /\ edits' = edits + 1
  /\ UNCHANGED <<dialog, diskVars, second, logVars, faults, changes>>

\* "Reload from disk", which is there while the dialog is open as well.
Reload(f) ==
  /\ rows' = [rows EXCEPT ![f] = load(f)]
  /\ dirty' = [dirty EXCEPT ![f] = FALSE]
  /\ UNCHANGED <<dialog, diskVars, second, logVars, edits, faults, changes>>

----------------------------------------------------------------------------
(***************************************************************************)
(* Saving: save_<section>, write_with_backup, record_audit.                 *)
(***************************************************************************)
\* Mutant: only the policy is validated on saving, the others on editing.
AcceptsPolicy(f) == f = "policy" => validate(Section(f, rows[f]))

\* Each save_<section> validates, but for the allowlist and the branches.
Accepts(f) ==
  f \in {"policy", "criteria", "sockets"} => validate(Section(f, rows[f]))

\* A failed save is repeated within the second whose backup it made.
Repeats(f) == disk[f].kind # "whole" /\ backups[f][second] # Absent

\* Mutant: a backup that is there is kept.
BackupOnce(f) ==
  IF disk[f] = Absent \/ backups[f][second] # Absent
  THEN UNCHANGED <<backups, hasty>>
  ELSE /\ backups' = [backups EXCEPT ![f][second] = disk[f]]
       /\ hasty' = hasty

\* backup_config: only of a file that exists; a backup of the same second goes.
backup_config(f) ==
  IF disk[f] = Absent
  THEN UNCHANGED <<backups, hasty>>
  ELSE /\ backups' = [backups EXCEPT ![f][second] = disk[f]]
       /\ hasty' = [hasty EXCEPT ![f] = @ \/ Repeats(f)]

BackupFails(f) ==
  /\ disk[f] # Absent
  /\ Spoil(1)
  /\ \/ UNCHANGED <<backups, hasty>>
     \/ /\ backups' = [backups EXCEPT ![f][second] = Broken]
        /\ hasty' = [hasty EXCEPT ![f] = @ \/ Repeats(f)]
  /\ UNCHANGED <<dirty, disk, good, logVars, changes>>

\* The file cannot be opened, or its new contents get there in part.
WriteFails(f) ==
  /\ backup_config(f)
  /\ Spoil(1)
  /\ \/ UNCHANGED disk
     \/ \E torn \in {Broken} \union {Prefix(rows[f], n) : n \in 0..Len(rows[f])} :
          disk' = [disk EXCEPT ![f] = torn]
  /\ UNCHANGED <<dirty, good, logVars, changes>>

Shorter == SubSeq(log, 1, Len(log) - 1)

\* Mutant: the log is opened for writing, not for appending.
append_truncates(entry) == log' = <<entry>> /\ open_line' = "no"

\* AuditLog::append.  Behind a line without its newline the new one is lost with it.
append(entry) ==
  /\ \/ open_line = "no" /\ log' = Append(log, entry)
     \/ open_line = "bytes" /\ log' = log
     \/ open_line = "entry" /\ log' = Shorter
  /\ open_line' = "no"

\* write_all breaks off: in the line, or just before its newline.
append_breaks_off(entry) ==
  \/ /\ open_line = "no"
     /\ \/ log' = log /\ open_line' = "bytes"
        \/ log' = Append(log, entry) /\ open_line' = "entry"
  \/ /\ open_line = "entry"
     /\ log' = Shorter
     /\ open_line' = "bytes"

\* record_audit, which ignores the error of the append.
record_audit(entry) ==
  \/ append(entry) /\ UNCHANGED faults
  \/ Spoil(1) /\ (append_breaks_off(entry) \/ UNCHANGED logVars)

Written(f, asked) ==
  /\ Len(changes) < MaxChanges
  /\ backup_config(f)
  /\ disk' = [disk EXCEPT ![f] = Whole(rows[f])]
  /\ good' = [good EXCEPT ![f] = Whole(rows[f])]
  /\ dirty' = [dirty EXCEPT ![f] = FALSE]
  /\ changes' = Append(changes,
       [file |-> f, old |-> disk[f], new |-> Whole(rows[f]),
        found |-> find_file(f), asked |-> asked])
  /\ record_audit([file |-> f, old |-> disk[f], new |-> Whole(rows[f])])

save(f, asked) ==
  /\ \/ ~Accepts(f) /\ UNCHANGED <<dirty, diskVars, logVars, faults, changes>>
     \/ Accepts(f) /\ (BackupFails(f) \/ WriteFails(f) \/ Written(f, asked))
  /\ UNCHANGED <<rows, second, edits>>

----------------------------------------------------------------------------
(***************************************************************************)
(* The buttons.  asked is << >> for a save nobody was asked about, else the *)
(* dialog.                                                                  *)
(***************************************************************************)
Lowers(f) ==
  /\ find_file(f).kind # "broken"
  /\ is_security_lowering_change(Section(f, rows[f]), Section(f, load(f)))

\* Mutant: the dialog opens for sections it cannot save.
AsksForAll(f) == Accepts(f) /\ Lowers(f)

AsksFirst(f) ==
  \/ f = "sockets" /\ Lowers(f)
  \/ f = "policy" /\ validate(Section(f, rows[f])) /\ Lowers(f)

SaveEnabled(f) == dirty[f] /\ dialog = << >>

AskToConfirm(f) ==
  /\ SaveEnabled(f)
  /\ AsksFirst(f)
  /\ dialog' = <<f, rows[f]>>
  /\ UNCHANGED <<rows, dirty, diskVars, second, logVars, edits, faults, changes>>

Save(f) ==
  /\ SaveEnabled(f)
  /\ ~AsksFirst(f)
  /\ save(f, << >>)
  /\ UNCHANGED dialog

\* CONFIRM & SAVE saves the rows of now.
Confirm ==
  /\ dialog # << >>
  /\ dialog' = << >>
  /\ save(dialog[1], dialog)

Cancel ==
  /\ dialog # << >>
  /\ dialog' = << >>
  /\ UNCHANGED <<rows, dirty, diskVars, second, logVars, edits, faults, changes>>

----------------------------------------------------------------------------
\* AdminPanel::new of the next start of the dashboard.
Restart ==
  /\ rows' = [f \in File |-> load(f)]
  /\ dirty' = [f \in File |-> FALSE]
  /\ dialog' = << >>
  /\ UNCHANGED <<diskVars, second, logVars, edits, faults, changes>>

Tick ==
  /\ second < MaxSecond
  /\ second' = second + 1
  /\ UNCHANGED <<panelVars, diskVars, logVars, edits, faults, changes>>

\* A start with own files or without any.
Init ==
  /\ disk \in {[f \in File |-> Absent], [f \in File |-> Whole(Own[f])]}
  /\ good = disk
  /\ rows = [f \in File |-> load(f)]
  /\ dirty = [f \in File |-> FALSE]
  /\ dialog = << >>
  /\ backups = [f \in File |-> [s \in 0..MaxSecond |-> Absent]]
  /\ second = 0
  /\ log = << >>
  /\ open_line = "no"
  /\ edits = 0
  /\ faults = 0
  /\ changes = << >>
  /\ hasty = [f \in File |-> FALSE]

Next ==
  \/ \E f \in File :
       \/ EditRow(f) \/ AddRow(f) \/ RemoveRow(f) \/ Reload(f)
       \/ AskToConfirm(f) \/ Save(f)
  \/ Confirm \/ Cancel \/ Restart \/ Tick

Spec == Init /\ [][Next]_vars

----------------------------------------------------------------------------
AnyEntry == UNION {Entry(f) : f \in File}
AnyContent == ContentOf(AnyEntry)
Dialog == {"policy", "sockets"} \X Seq(AnyEntry)

TypeOK ==
  /\ DOMAIN rows = File /\ \A f \in File : rows[f] \in Seq(Entry(f))
  /\ dirty \in [File -> BOOLEAN]
  /\ dialog \in {<< >>} \union Dialog
  /\ DOMAIN disk = File /\ \A f \in File : disk[f] \in Content(f)
  /\ DOMAIN backups = File
  /\ \A f \in File : backups[f] \in [0..MaxSecond -> Content(f)]
  /\ second \in 0..MaxSecond
  /\ log \in Seq([file : File, old : AnyContent, new : AnyContent])
  /\ open_line \in {"no", "bytes", "entry"}
  /\ open_line = "entry" => log # << >>
  /\ edits \in Nat
  /\ faults \in 0..MaxFaults
  /\ changes \in Seq([file : File, old : AnyContent, new : AnyContent,
                      found : AnyContent, asked : {<< >>} \union Dialog])
  /\ DOMAIN good = File /\ \A f \in File : good[f] \in Content(f)
  /\ hasty \in [File -> BOOLEAN]

\* What lies on the disk under policy, criteria and sockets passes validation as
\* far as it can be read: whatever was edited behind an open dialog, and however
\* a write broke off.  A start of the panel finds no critical symbol delegable.
ReadableIsValid ==
  \A f \in {"policy", "criteria", "sockets"} : validate(Section(f, load(f)))

\* The i-th to the j-th change of a file, when nobody was asked about any of them and
\* each but the first was made over a file that had been written whole.
Unasked(i, j) ==
  /\ i <= j /\ changes[i].file = changes[j].file
  /\ \A k \in i..j : changes[k].file = changes[i].file =>
       changes[k].asked = << >> /\ (k = i \/ changes[k].found.kind = "whole")

\* What a change from rows was to rows now lowers, by the list of ADMIN_UI.md:123-127
\* and not by the code's check: sockets removed, critical symbols made delegable.  (The
\* allowlist's save asks nothing, and validation leaves critical symbols no window.)
Lowered(f, was, now) ==
  CASE f = "sockets" ->
         {s \in Name : /\ \E i \in DOMAIN was : was[i].name = s
                       /\ \A i \in DOMAIN now : now[i].name # s}
    [] f = "policy" ->
         {s \in SymbolName :
            \E p \in DOMAIN was, i \in DOMAIN now :
              /\ FirstFor(s, was, p) /\ was[p].classification = "critical"
              /\ now[i].symbol = s /\ now[i].classification = "delegable"}
    [] OTHER -> {}

\* A symbol that is critical for the policy in effect, the panel's or the shipped one,
\* does not become delegable while nobody is asked, in one save or in several that
\* each go a step of the way (admin_panel.rs:816-846).
DelegatingIsConfirmed ==
  \A i, j \in DOMAIN changes :
    changes[i].file = "policy" /\ changes[i].found.kind # "broken" /\ Unasked(i, j) =>
      Lowered("policy", changes[i].found.rows, changes[j].new.rows) = {}

\* "Any change that lowers security posture" pops a dialog (ADMIN_UI.md:123-127): the
\* sockets a save removes and the symbols it delegates are among those that the rows
\* the dialog asked about would have.
LoweringWasAskedAbout ==
  \A k \in DOMAIN changes :
    LET c == changes[k]
        confirmed == IF c.asked = << >> THEN {}
                     ELSE Lowered(c.file, c.found.rows, c.asked[2])
    IN  Lowered(c.file, c.found.rows, c.new.rows) \subseteq confirmed

\* The audit log tells of the changes in their order, with the values before and
\* after, and nothing else; an operation that failed costs it two entries at most
\* (an append that broke off before its newline takes the next entry with it).
AuditAccountsForChanges ==
  /\ \E at \in [DOMAIN log -> DOMAIN changes] :
       /\ \A i, j \in DOMAIN log : i < j => at[i] < at[j]
       /\ \A i \in DOMAIN log :
            LET c == changes[at[i]]
            IN  log[i] = [file |-> c.file, old |-> c.old, new |-> c.new]
  /\ Len(changes) - Len(log) <= 2 * faults

\* Backup before write (ADMIN_UI.md:135): the contents a file was last given in
\* full are in the file or in a backup, whatever failed since, unless a failed save
\* was repeated within the second its backup is named after.
LastGoodIsKept ==
  \A f \in File : good[f] # Absent /\ ~hasty[f] =>
    disk[f] = good[f] \/ \E s \in 0..MaxSecond : backups[f][s] = good[f]

\* What the panel shows without a mark to save is what a start would load, after
\* any edits, reloads, saves and failures; only classifications may differ, which
\* the panel does not track, and a file that a failed write left behind.
CleanIsSaved ==
  \A f \in File : ~dirty[f] /\ disk[f].kind \in {"absent", "whole"} =>
    IF f = "policy"
    THEN /\ Len(rows[f]) = Len(load(f))
         /\ \A i \in DOMAIN rows[f] : /\ rows[f][i].symbol = load(f)[i].symbol
                                      /\ rows[f][i].auto_approve = load(f)[i].auto_approve
    ELSE rows[f] = load(f)
=============================================================================
