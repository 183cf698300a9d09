-------------------------- MODULE AdminPanel_proofs --------------------------
(***************************************************************************)
(* Safety of the admin panel's files for any sections, rows and numbers of  *)
(* edits, failures and seconds.                                             *)
(***************************************************************************)
EXTENDS AdminPanel, TLAPS, SequenceTheorems

USE BoundsAssumption

\* A file that is whole has the contents it was last given in full.
WholeIsGood == \A f \in File : disk[f].kind = "whole" => disk[f] = good[f]

IInv ==
  /\ TypeOK
  /\ ReadableIsValid
  /\ WholeIsGood
  /\ LastGoodIsKept

-----------------------------------------------------------------------------
(* Rows and contents *)

\* Entries and contents of a section are entries and contents of some section.
LEMMA SectionIsAny ==
  ASSUME NEW f \in File
  PROVE  Seq(Entry(f)) \subseteq Seq(AnyEntry) /\ Content(f) \subseteq AnyContent
<1>1. Entry(f) \subseteq AnyEntry
  BY DEF AnyEntry
<1>2. ASSUME NEW r \in Seq(Entry(f)) PROVE r \in Seq(AnyEntry)
  <2>1. \A i \in 1..Len(r) : r[i] \in AnyEntry
    BY <1>1
  <2> QED
    BY <2>1
<1> QED
  BY <1>2 DEF Content, ContentOf, AnyContent

\* The beginning of a section's rows.
LEMMA Beginning ==
  ASSUME NEW S, NEW r \in Seq(S), NEW n \in 0..Len(r)
  PROVE  /\ SubSeq(r, 1, n) \in Seq(S)
         /\ DOMAIN SubSeq(r, 1, n) \subseteq DOMAIN r
         /\ \A i \in DOMAIN SubSeq(r, 1, n) : SubSeq(r, 1, n)[i] = r[i]
  OBVIOUS

\* An empty section is valid, and so is the beginning of a valid one.
LEMMA EmptyIsValid == \A f \in File : validate(Section(f, <<>>))
  BY DEF validate, validate_allowlist, validate_symbols_and_policy, validate_criteria,
         validate_sockets, Distinct, Section, File

LEMMA BeginningIsValid ==
  ASSUME NEW f \in File, NEW r \in Seq(Entry(f)), NEW n \in 0..Len(r),
         validate(Section(f, r))
  PROVE  validate(Section(f, SubSeq(r, 1, n)))
<1> DEFINE b == SubSeq(r, 1, n)
<1>1. DOMAIN b \subseteq DOMAIN r /\ \A i \in DOMAIN b : b[i] = r[i]
  BY Beginning
<1>2. \A g \in File : /\ Section(f, b)[g] = IF g = f THEN b ELSE <<>>
                      /\ Section(f, r)[g] = IF g = f THEN r ELSE <<>>
  BY DEF Section
<1> HIDE DEF b
<1>3. \A g \in File : /\ DOMAIN Section(f, b)[g] \subseteq DOMAIN Section(f, r)[g]
                      /\ \A i \in DOMAIN Section(f, b)[g] :
                           Section(f, b)[g][i] = Section(f, r)[g][i]
  BY <1>1, <1>2
<1>4. {"allowlist", "policy", "criteria", "sockets"} \subseteq File
  BY DEF File
<1>5. validate(Section(f, b))
  <2> DEFINE B == Section(f, b)
             R == Section(f, r)
  <2>1. /\ DOMAIN B["allowlist"] \subseteq DOMAIN R["allowlist"]
        /\ \A i \in DOMAIN B["allowlist"] : B["allowlist"][i] = R["allowlist"][i]
    BY <1>3, <1>4
  <2>2. /\ DOMAIN B["policy"] \subseteq DOMAIN R["policy"]
        /\ \A i \in DOMAIN B["policy"] : B["policy"][i] = R["policy"][i]
    BY <1>3, <1>4
  <2>3. /\ DOMAIN B["criteria"] \subseteq DOMAIN R["criteria"]
        /\ \A i \in DOMAIN B["criteria"] : B["criteria"][i] = R["criteria"][i]
    BY <1>3, <1>4
  <2>4. /\ DOMAIN B["sockets"] \subseteq DOMAIN R["sockets"]
        /\ \A i \in DOMAIN B["sockets"] : B["sockets"][i] = R["sockets"][i]
    BY <1>3, <1>4
  <2>5. validate(R)
    OBVIOUS
  <2> HIDE DEF B, R
  <2>6. validate_allowlist(B)
    BY <2>1, <2>5 DEF validate, validate_allowlist, Distinct
  <2>7. validate_symbols_and_policy(B)
    BY <2>2, <2>5 DEF validate, validate_symbols_and_policy
  <2>8. validate_criteria(B)
    BY <2>3, <2>5 DEF validate, validate_criteria
  <2>9. validate_sockets(B)
    BY <2>4, <2>5 DEF validate, validate_sockets, Distinct
  <2>10. validate(B)
    BY <2>6, <2>7, <2>8, <2>9 DEF validate
  <2> QED
    BY <2>10 DEF B
<1> QED
  BY <1>5 DEF b

\* What is loaded of a section are rows of the section.
LEMMA LoadIsTyped ==
  ASSUME TypeOK, NEW f \in File
  PROVE  find_file(f) \in Content(f) /\ load(f) \in Seq(Entry(f))
<1>1. Whole(Shipped[f]) \in Content(f) /\ disk[f] \in Content(f)
  BY FilesAssumption DEF TypeOK, Whole, Content, ContentOf
<1>2. find_file(f) \in Content(f)
  BY <1>1 DEF find_file
<1> QED
  BY <1>2 DEF load, Content, ContentOf

-----------------------------------------------------------------------------
(* What the steps keep *)

LEMMA InitIInv == Init => IInv
<1> SUFFICES ASSUME Init PROVE IInv
  OBVIOUS
<1>1. \A f \in File : /\ Absent \in Content(f)
                      /\ Whole(Own[f]) \in Content(f)
  BY FilesAssumption DEF Absent, Whole, Content, ContentOf
<1>2. \A f \in File : disk[f] \in Content(f) /\ good[f] = disk[f]
  BY <1>1 DEF Init
<1>3. \A f \in File : load(f) \in {Shipped[f], Own[f]}
  BY DEF Init, load, find_file, Absent, Whole
<1>4. TypeOK
  <2>1. \A f \in File : load(f) \in Seq(Entry(f))
    BY <1>3, FilesAssumption
  <2>2. \A f \in File : backups[f] \in [0..MaxSecond -> Content(f)]
    BY <1>1 DEF Init
  <2> QED
    BY <1>2, <2>1, <2>2 DEF Init, TypeOK
<1>5. ReadableIsValid
  BY <1>3, FilesAssumption DEF ReadableIsValid, File
<1> QED
  BY <1>2, <1>4, <1>5 DEF Init, IInv, WholeIsGood, LastGoodIsKept

\* Steps that touch no file and write nothing down.
LEMMA FilesUnchanged ==
  ASSUME IInv, UNCHANGED <<diskVars, changes>>, TypeOK',
         second' = second \/ (second < MaxSecond /\ second' = second + 1)
  PROVE  IInv'
<1> USE DEF IInv, diskVars
<1>1. ReadableIsValid'
  BY DEF ReadableIsValid, load, find_file
<1>2. WholeIsGood' /\ LastGoodIsKept'
  BY DEF WholeIsGood, LastGoodIsKept
<1> QED
  BY <1>1, <1>2

\* Clicks and keys on the rows, and starts.
LEMMA PanelSteps ==
  ASSUME IInv, NEW f \in File,
         \/ EditRow(f) \/ AddRow(f) \/ RemoveRow(f) \/ Reload(f) \/ AskToConfirm(f)
         \/ Cancel \/ Restart \/ Tick
  PROVE  IInv'
<1> USE DEF diskVars
<1>0. TypeOK
  BY DEF IInv
<1>1. CASE EditRow(f)
  <2>1. TypeOK'
    <3>1. PICK i \in DOMAIN rows[f], new \in Entry(f) :
            /\ rows' = [rows EXCEPT ![f][i] = new]
            /\ dirty' = [dirty EXCEPT ![f] = @ \/ Marks(f, rows[f][i], new)]
      BY <1>1 DEF EditRow
    <3>2. [rows[f] EXCEPT ![i] = new] \in Seq(Entry(f))
      <4>1. rows[f] \in Seq(Entry(f))
        BY <1>0 DEF TypeOK
      <4> QED
        BY ONLY <4>1, i \in DOMAIN rows[f], new \in Entry(f)
    <3>3. DOMAIN rows' = File /\ \A g \in File : rows'[g] \in Seq(Entry(g))
      <4>1. DOMAIN rows = File /\ \A g \in File : rows[g] \in Seq(Entry(g))
        BY <1>0 DEF TypeOK
      <4>2. rows' = [rows EXCEPT ![f] = [rows[f] EXCEPT ![i] = new]]
        BY <3>1
      <4> QED
        BY ONLY <3>2, <4>1, <4>2, f \in File
    <3>4. (dirty[f] \/ Marks(f, rows[f][i], new)) \in BOOLEAN
      BY DEF Marks
    <3>5. dirty' \in [File -> BOOLEAN]
      BY <1>0, <3>1, <3>4 DEF TypeOK
    <3>6. edits' \in Nat
      <4>1. edits \in Nat
        BY <1>0 DEF TypeOK
      <4>2. edits' = edits + 1
        BY <1>1 DEF EditRow
      <4> QED
        BY ONLY <4>1, <4>2
    <3>7. UNCHANGED <<dialog, disk, backups, good, hasty, second, log, open_line, faults,
                      changes>>
      BY <1>1 DEF EditRow, logVars
    <3> QED
      BY <1>0, <3>3, <3>5, <3>6, <3>7 DEF TypeOK
  <2> QED
    BY <1>1, <2>1, FilesUnchanged DEF EditRow
<1>2. CASE AddRow(f)
  <2>1. NewRow(f) \in Entry(f)
    <3>1. CASE f = "allowlist"
      BY <3>1, NewNameAssumption DEF NewRow, Entry, AllowlistEntry
    <3>2. CASE f = "criteria"
      BY <3>2, NewNameAssumption DEF NewRow, Entry, CriteriaPatternSet
    <3>3. CASE f = "sockets"
      BY <3>3, NewNameAssumption DEF NewRow, Entry, SocketDefinition
    <3> QED
      BY <1>2, <3>1, <3>2, <3>3 DEF AddRow, Listed
  <2>2. TypeOK'
    <3>1. Append(rows[f], NewRow(f)) \in Seq(Entry(f))
      BY <1>0, <2>1 DEF TypeOK
    <3>2. DOMAIN rows' = File /\ \A g \in File : rows'[g] \in Seq(Entry(g))
      BY <1>0, <1>2, <3>1 DEF AddRow, TypeOK
    <3> QED
      BY <1>0, <1>2, <3>2 DEF AddRow, TypeOK, logVars
  <2> QED
    BY <1>2, <2>2, FilesUnchanged DEF AddRow
<1>3. CASE RemoveRow(f)
  <2>1. \A i \in DOMAIN rows[f] : Without(rows[f], i) \in Seq(Entry(f))
    <3>1. ASSUME NEW S, NEW r \in Seq(S), NEW i \in DOMAIN r
          PROVE  Without(r, i) \in Seq(S)
      <4>1. SubSeq(r, 1, i - 1) \in Seq(S) /\ SubSeq(r, i + 1, Len(r)) \in Seq(S)
        OBVIOUS
      <4> QED
        BY <4>1 DEF Without
    <3> QED
      BY <1>0, <3>1 DEF TypeOK
  <2>2. TypeOK'
    BY <1>0, <1>3, <2>1 DEF RemoveRow, TypeOK, logVars
  <2> QED
    BY <1>3, <2>2, FilesUnchanged DEF RemoveRow
<1>4. CASE Reload(f)
  <2>1. TypeOK'
    BY <1>0, <1>4, LoadIsTyped DEF Reload, TypeOK, diskVars, logVars
  <2> QED
    BY <1>4, <2>1, FilesUnchanged DEF Reload
<1>5. CASE AskToConfirm(f)
  <2>1. dialog' \in Dialog
    BY <1>0, <1>5, SectionIsAny DEF AskToConfirm, AsksFirst, Dialog, TypeOK
  <2>2. TypeOK'
    BY <1>0, <1>5, <2>1 DEF AskToConfirm, TypeOK, diskVars, logVars
  <2> QED
    BY <1>5, <2>2, FilesUnchanged DEF AskToConfirm
<1>6. CASE Cancel
  <2>1. TypeOK'
    BY <1>0, <1>6 DEF Cancel, TypeOK, diskVars, logVars
  <2> QED
    BY <1>6, <2>1, FilesUnchanged DEF Cancel
<1>7. CASE Restart
  <2>1. \A g \in File : load(g) \in Seq(Entry(g))
    BY <1>0, LoadIsTyped
  <2>2. TypeOK'
    BY <1>0, <1>7, <2>1 DEF Restart, TypeOK, diskVars, logVars
  <2> QED
    BY <1>7, <2>2, FilesUnchanged DEF Restart
<1>8. CASE Tick
  <2>1. TypeOK'
    BY <1>0, <1>8 DEF Tick, TypeOK, panelVars, diskVars, logVars
  <2> QED
    BY <1>8, <2>1, FilesUnchanged DEF Tick
<1> QED
  BY <1>1, <1>2, <1>3, <1>4, <1>5, <1>6, <1>7, <1>8

-----------------------------------------------------------------------------
(* Saving *)

\* backup_config keeps the types, and the contents last given in full are in the
\* file or in a backup afterwards; of a file that is good, in a backup for sure.
LEMMA BackupKeeps ==
  ASSUME IInv, NEW f \in File, backup_config(f)
  PROVE  /\ DOMAIN backups' = File
         /\ \A g \in File : backups'[g] \in [0..MaxSecond -> Content(g)]
         /\ hasty' \in [File -> BOOLEAN]
         /\ \A g \in File \ {f} : backups'[g] = backups[g] /\ hasty'[g] = hasty[g]
         /\ good[f] # Absent /\ ~hasty'[f] =>
               \E s \in 0..MaxSecond : backups'[f][s] = good[f]
<1>0. TypeOK
  BY DEF IInv
<1>1. CASE disk[f] = Absent
  <2>1. UNCHANGED <<backups, hasty>>
    BY <1>1 DEF backup_config
  <2> QED
    BY <1>0, <1>1, <2>1 DEF TypeOK, IInv, LastGoodIsKept
<1>2. CASE disk[f] # Absent
  <2>1. /\ backups' = [backups EXCEPT ![f][second] = disk[f]]
        /\ hasty' = [hasty EXCEPT ![f] = @ \/ Repeats(f)]
    BY <1>2 DEF backup_config
  <2>2. (hasty[f] \/ Repeats(f)) \in BOOLEAN
    BY <1>0 DEF Repeats, TypeOK
  <2>3. hasty' \in [File -> BOOLEAN] /\ hasty'[f] = (hasty[f] \/ Repeats(f))
    BY <1>0, <2>1, <2>2 DEF TypeOK
  <2>4. /\ backups[f] \in [0..MaxSecond -> Content(f)]
        /\ second \in 0..MaxSecond
        /\ disk[f] \in Content(f)
        /\ DOMAIN backups = File
    BY <1>0 DEF TypeOK
  <2>5. /\ backups'[f] = [backups[f] EXCEPT ![second] = disk[f]]
        /\ \A g \in File \ {f} : backups'[g] = backups[g]
        /\ DOMAIN backups' = File
    BY <2>1, <2>4
  <2>6. backups'[f] \in [0..MaxSecond -> Content(f)]
    BY <2>4, <2>5
  <2>7. ASSUME good[f] # Absent, ~hasty'[f]
        PROVE  \E s \in 0..MaxSecond : backups'[f][s] = good[f]
    <3>1. ~hasty[f] /\ ~Repeats(f)
      BY <2>3, <2>7
    <3>2. CASE disk[f] = good[f]
      BY <2>4, <2>5, <3>2
    <3>3. CASE disk[f] # good[f]
      <4>1. disk[f].kind # "whole"
        BY <3>3 DEF IInv, WholeIsGood
      <4>2. backups[f][second] = Absent
        BY <3>1, <4>1 DEF Repeats
      <4>3. PICK s \in 0..MaxSecond : backups[f][s] = good[f]
        BY <2>7, <3>1, <3>3 DEF IInv, LastGoodIsKept
      <4>4. s # second
        BY <2>7, <4>2, <4>3
      <4> QED
        BY <2>4, <2>5, <4>3, <4>4
    <3> QED
      BY <3>2, <3>3
  <2> QED
    BY <1>0, <2>1, <2>3, <2>5, <2>6, <2>7 DEF TypeOK
<1> QED
  BY <1>1, <1>2

\* A copy that fails leaves the file as it is.
LEMMA BackupFailsKeeps ==
  ASSUME IInv, NEW f \in File, BackupFails(f), UNCHANGED <<rows, second, edits>>,
         dialog' \in {<< >>} \union Dialog
  PROVE  IInv'
<1>0. TypeOK
  BY DEF IInv
<1>1. /\ DOMAIN backups' = File
      /\ \A g \in File : backups'[g] \in [0..MaxSecond -> Content(g)]
      /\ hasty' \in [File -> BOOLEAN]
      /\ \A g \in File \ {f} : backups'[g] = backups[g] /\ hasty'[g] = hasty[g]
      /\ good[f] # Absent /\ ~hasty'[f] /\ disk[f] # good[f] =>
            \E s \in 0..MaxSecond : backups'[f][s] = good[f]
  <2>1. CASE UNCHANGED <<backups, hasty>>
    BY <1>0, <2>1 DEF TypeOK, IInv, LastGoodIsKept
  <2>2. CASE /\ backups' = [backups EXCEPT ![f][second] = Broken]
             /\ hasty' = [hasty EXCEPT ![f] = @ \/ Repeats(f)]
    <3>1. (hasty[f] \/ Repeats(f)) \in BOOLEAN
      BY <1>0 DEF Repeats, TypeOK
    <3>2. hasty' \in [File -> BOOLEAN] /\ hasty'[f] = (hasty[f] \/ Repeats(f))
      BY <1>0, <2>2, <3>1 DEF TypeOK
    <3>3. /\ backups[f] \in [0..MaxSecond -> Content(f)]
          /\ second \in 0..MaxSecond
          /\ Broken \in Content(f)
          /\ DOMAIN backups = File
      BY <1>0 DEF TypeOK, Broken, Content, ContentOf
    <3>4. /\ backups'[f] = [backups[f] EXCEPT ![second] = Broken]
          /\ \A g \in File \ {f} : backups'[g] = backups[g]
          /\ DOMAIN backups' = File
      BY <2>2, <3>3
    <3>5. backups'[f] \in [0..MaxSecond -> Content(f)]
      BY <3>3, <3>4
    <3>6. ASSUME good[f] # Absent, ~hasty'[f], disk[f] # good[f]
          PROVE  \E s \in 0..MaxSecond : backups'[f][s] = good[f]
      <4>1. ~hasty[f] /\ ~Repeats(f)
        BY <3>2, <3>6
      <4>2. disk[f].kind # "whole"
        BY <3>6 DEF IInv, WholeIsGood
      <4>3. backups[f][second] = Absent
        BY <4>1, <4>2 DEF Repeats
      <4>4. PICK s \in 0..MaxSecond : backups[f][s] = good[f]
        BY <3>6, <4>1 DEF IInv, LastGoodIsKept
      <4>5. s # second
        BY <3>6, <4>3, <4>4
      <4> QED
        BY <3>3, <3>4, <4>4, <4>5
    <3> QED
      BY <1>0, <2>2, <3>2, <3>4, <3>5, <3>6 DEF TypeOK
  <2> QED
    BY <2>1, <2>2 DEF BackupFails
<1>2. UNCHANGED <<rows, dirty, disk, good, second, log, open_line, edits, changes>>
  BY DEF BackupFails, logVars
<1>3. faults' \in 0..MaxFaults
  BY <1>0 DEF BackupFails, Spoil, TypeOK
<1>4. TypeOK'
  BY <1>0, <1>1, <1>2, <1>3 DEF TypeOK
<1>5. ReadableIsValid' /\ WholeIsGood'
  BY <1>2 DEF IInv, ReadableIsValid, load, find_file, WholeIsGood
<1>6. LastGoodIsKept'
  <2> SUFFICES ASSUME NEW g \in File, good[g] # Absent, ~hasty'[g]
               PROVE  disk[g] = good[g] \/ \E s \in 0..MaxSecond : backups'[g][s] = good[g]
    BY <1>2 DEF LastGoodIsKept
  <2>1. CASE g = f
    BY <1>1, <2>1
  <2>2. CASE g # f
    <3>1. backups'[g] = backups[g] /\ ~hasty[g]
      BY <1>1, <2>2
    <3>2. disk[g] = good[g] \/ \E s \in 0..MaxSecond : backups[g][s] = good[g]
      BY <3>1 DEF IInv, LastGoodIsKept
    <3> QED
      BY ONLY <3>1, <3>2
  <2> QED
    BY <2>1, <2>2
<1> QED
  BY <1>4, <1>5, <1>6 DEF IInv

\* A write that fails leaves nothing behind that would not pass validation.
LEMMA WriteFailsKeeps ==
  ASSUME IInv, NEW f \in File, Accepts(f), WriteFails(f),
         UNCHANGED <<rows, second, edits>>, dialog' \in {<< >>} \union Dialog
  PROVE  IInv'
<1>0. TypeOK
  BY DEF IInv
<1>1. UNCHANGED <<rows, dirty, good, second, log, open_line, edits, changes>>
  BY DEF WriteFails, logVars
<1>2. faults' \in 0..MaxFaults
  BY <1>0 DEF WriteFails, Spoil, TypeOK
<1>3. /\ DOMAIN disk' = File
      /\ \A g \in File : disk'[g] = disk[g] \/ g = f
      /\ \/ disk'[f] = disk[f]
         \/ disk'[f] = Broken
         \/ \E n \in 0..Len(rows[f]) : disk'[f] = Prefix(rows[f], n)
  BY <1>0 DEF WriteFails, TypeOK
<1>4. rows[f] \in Seq(Entry(f))
  BY <1>0 DEF TypeOK
<1>5. ASSUME NEW n \in 0..Len(rows[f])
      PROVE  /\ Prefix(rows[f], n) \in Content(f) /\ Prefix(rows[f], n) # Absent
             /\ Prefix(rows[f], n).rows = SubSeq(rows[f], 1, n)
             /\ Prefix(rows[f], n).kind = "prefix"
  <2>1. SubSeq(rows[f], 1, n) \in Seq(Entry(f))
    BY <1>4, Beginning
  <2> QED
    BY <2>1 DEF Prefix, Absent, Content, ContentOf
<1>6. Broken \in Content(f) /\ Broken # Absent /\ Broken.rows = <<>> /\ Broken.kind = "broken"
  BY DEF Broken, Absent, Content, ContentOf
<1>7. \A g \in File : disk'[g] \in Content(g)
  BY <1>0, <1>3, <1>5, <1>6 DEF TypeOK
<1>8. TypeOK'
  BY <1>0, <1>1, <1>2, <1>3, <1>7, BackupKeeps DEF WriteFails, TypeOK
<1>9. ReadableIsValid'
  <2> SUFFICES ASSUME NEW g \in {"policy", "criteria", "sockets"}
               PROVE  validate(Section(g, load(g)'))
    BY DEF ReadableIsValid
  <2>0. g \in File /\ validate(Section(g, load(g)))
    BY DEF IInv, ReadableIsValid, File
  <2>1. CASE disk'[g] = disk[g]
    BY <2>0, <2>1 DEF load, find_file
  <2>2. CASE g = f /\ disk'[f] = Broken
    BY <2>0, <2>2, <1>6, EmptyIsValid DEF load, find_file
  <2>3. ASSUME g = f, NEW n \in 0..Len(rows[f]), disk'[f] = Prefix(rows[f], n)
        PROVE  validate(Section(g, load(g)'))
    <3>1. load(g)' = SubSeq(rows[f], 1, n)
      BY <2>3, <1>5 DEF load, find_file
    <3>2. validate(Section(f, rows[f]))
      BY <2>3 DEF Accepts
    <3> QED
      BY <1>4, <2>3, <3>1, <3>2, BeginningIsValid
  <2> QED
    BY <2>0, <2>1, <2>2, <2>3, <1>3
<1>10. WholeIsGood'
  BY <1>1, <1>3, <1>5, <1>6 DEF IInv, WholeIsGood
<1>11. LastGoodIsKept'
  <2>1. ASSUME NEW g \in File, g # f, good[g] # Absent, ~hasty'[g]
        PROVE  disk'[g] = good[g] \/ \E s \in 0..MaxSecond : backups'[g][s] = good[g]
    <3>1. backups'[g] = backups[g] /\ hasty'[g] = hasty[g]
      BY <2>1, BackupKeeps DEF WriteFails
    <3> QED
      BY <2>1, <3>1, <1>3 DEF IInv, LastGoodIsKept
  <2>2. good[f] # Absent /\ ~hasty'[f] => \E s \in 0..MaxSecond : backups'[f][s] = good[f]
    BY BackupKeeps DEF WriteFails
  <2> QED
    BY <1>1, <2>1, <2>2 DEF LastGoodIsKept
<1> QED
  BY <1>8, <1>9, <1>10, <1>11 DEF IInv

\* The log's entries and the ways an append can end.
LEMMA AuditIsTyped ==
  ASSUME TypeOK, NEW entry \in [file : File, old : AnyContent, new : AnyContent],
         record_audit(entry)
  PROVE  /\ log' \in Seq([file : File, old : AnyContent, new : AnyContent])
         /\ open_line' \in {"no", "bytes", "entry"}
         /\ open_line' = "entry" => log' # << >>
         /\ faults' \in 0..MaxFaults
<1> DEFINE Record == [file : File, old : AnyContent, new : AnyContent]
<1>1. /\ log \in Seq(Record) /\ faults \in 0..MaxFaults
      /\ open_line \in {"no", "bytes", "entry"}
      /\ open_line = "entry" => log # << >>
  BY DEF TypeOK
<1>2. entry \in Record
  OBVIOUS
<1>3. faults' \in 0..MaxFaults
  BY <1>1 DEF record_audit, Spoil
<1> HIDE DEF Record
<1>4. Append(log, entry) \in Seq(Record) /\ Append(log, entry) # << >>
  BY <1>1, <1>2
<1>5. open_line = "entry" => Shorter \in Seq(Record)
  BY <1>1 DEF Shorter
<1>6. /\ log' \in Seq(Record)
      /\ open_line' \in {"no", "bytes", "entry"}
      /\ open_line' = "entry" => log' # << >>
  <2>1. CASE append(entry)
    BY <2>1, <1>4, <1>5, <1>1 DEF append
  <2>2. CASE append_breaks_off(entry)
    BY <2>2, <1>1, <1>4, <1>5 DEF append_breaks_off
  <2>3. CASE UNCHANGED logVars
    <3>1. log' = log /\ open_line' = open_line
      BY <2>3 DEF logVars
    <3> QED
      BY <3>1, <1>1
  <2> QED
    BY <2>1, <2>2, <2>3 DEF record_audit
<1> QED
  BY <1>3, <1>6 DEF Record

\* A save that succeeds: the rows are valid, and the file is good from now on.
LEMMA WrittenKeeps ==
  ASSUME IInv, NEW f \in File, Accepts(f), NEW asked \in {<< >>} \union Dialog,
         Written(f, asked), UNCHANGED <<rows, second, edits>>,
         dialog' \in {<< >>} \union Dialog
  PROVE  IInv'
<1> DEFINE change == [file |-> f, old |-> disk[f], new |-> Whole(rows[f]),
                      found |-> find_file(f), asked |-> asked]
           Record == [file : File, old : AnyContent, new : AnyContent]
           Changes == [file : File, old : AnyContent, new : AnyContent,
                       found : AnyContent, asked : {<< >>} \union Dialog]
<1>0. TypeOK
  BY DEF IInv
<1>1. /\ disk' = [disk EXCEPT ![f] = Whole(rows[f])]
      /\ good' = [good EXCEPT ![f] = Whole(rows[f])]
      /\ dirty' = [dirty EXCEPT ![f] = FALSE]
      /\ changes' = Append(changes, change)
  BY DEF Written
<1>2. Whole(rows[f]) \in Content(f) /\ Whole(rows[f]).rows = rows[f]
  BY <1>0 DEF TypeOK, Whole, Content, ContentOf
<1>3. /\ Whole(rows[f]) \in AnyContent /\ disk[f] \in AnyContent
      /\ find_file(f) \in AnyContent
  BY <1>0, <1>2, SectionIsAny, LoadIsTyped DEF TypeOK
<1>4. change \in Changes
  BY <1>3
<1>5. changes' \in Seq(Changes)
  <2>1. changes \in Seq(Changes)
    BY <1>0 DEF TypeOK
  <2> HIDE DEF change, Changes
  <2> QED
    BY <1>1, <1>4, <2>1
<1>6. /\ log' \in Seq(Record)
      /\ open_line' \in {"no", "bytes", "entry"}
      /\ open_line' = "entry" => log' # << >>
      /\ faults' \in 0..MaxFaults
  <2>1. [file |-> f, old |-> disk[f], new |-> Whole(rows[f])] \in Record
    BY <1>3
  <2> QED
    BY <1>0, <2>1, AuditIsTyped DEF Written
<1>7. /\ DOMAIN disk' = File /\ \A g \in File : disk'[g] \in Content(g)
      /\ DOMAIN good' = File /\ \A g \in File : good'[g] \in Content(g)
      /\ dirty' \in [File -> BOOLEAN]
  BY <1>0, <1>1, <1>2 DEF TypeOK
<1>8. /\ DOMAIN backups' = File
      /\ \A g \in File : backups'[g] \in [0..MaxSecond -> Content(g)]
      /\ hasty' \in [File -> BOOLEAN]
      /\ \A g \in File \ {f} : backups'[g] = backups[g] /\ hasty'[g] = hasty[g]
  BY BackupKeeps DEF Written
<1>9. TypeOK'
  BY <1>0, <1>5, <1>6, <1>7, <1>8 DEF TypeOK
<1>10. /\ disk'[f] = Whole(rows[f]) /\ good'[f] = Whole(rows[f])
       /\ \A g \in File \ {f} : disk'[g] = disk[g] /\ good'[g] = good[g]
  BY <1>0, <1>1 DEF TypeOK
<1>11. ReadableIsValid'
  <2> SUFFICES ASSUME NEW g \in {"policy", "criteria", "sockets"}
               PROVE  validate(Section(g, load(g)'))
    BY DEF ReadableIsValid
  <2>0. g \in File /\ validate(Section(g, load(g)))
    BY DEF IInv, ReadableIsValid, File
  <2>1. CASE g # f
    BY <2>0, <2>1, <1>10 DEF load, find_file
  <2>2. CASE g = f
    <3>1. load(g)' = rows[f]
      BY <2>2, <1>2, <1>10 DEF load, find_file, Whole, Absent
    <3> QED
      BY <2>2, <3>1 DEF Accepts
  <2> QED
    BY <2>1, <2>2
<1>12. WholeIsGood'
  BY <1>10 DEF IInv, WholeIsGood
<1>13. LastGoodIsKept'
  BY <1>8, <1>10 DEF IInv, LastGoodIsKept
<1> QED
  BY <1>9, <1>11, <1>12, <1>13 DEF IInv

\* A save, from the button or from the dialog.
LEMMA SaveKeeps ==
  ASSUME IInv, NEW f \in File, NEW asked \in {<< >>} \union Dialog, save(f, asked),
         dialog' \in {<< >>} \union Dialog
  PROVE  IInv'
<1>1. CASE ~Accepts(f)
  <2>1. UNCHANGED <<dirty, disk, backups, good, hasty, log, open_line, faults, changes,
                    rows, second, edits>>
    BY <1>1 DEF save, diskVars, logVars
  <2>2. TypeOK'
    BY <2>1 DEF IInv, TypeOK
  <2> QED
    BY <2>1, <2>2, FilesUnchanged DEF diskVars
<1>2. CASE Accepts(f)
  BY <1>2, BackupFailsKeeps, WriteFailsKeeps, WrittenKeeps DEF save
<1> QED
  BY <1>1, <1>2

-----------------------------------------------------------------------------
(* Theorems *)

\* IInv is invariant: types, valid files and backups of what was good hold each other
\* up.
THEOREM Invariance == Spec => []IInv
<1>1. IInv /\ [Next]_vars => IInv'
  <2> SUFFICES ASSUME IInv, [Next]_vars PROVE IInv'
    OBVIOUS
  <2>0. TypeOK
    BY DEF IInv
  <2>1. ASSUME NEW f \in File, Save(f) PROVE IInv'
    <3>1. save(f, << >>) /\ dialog' = << >>
      BY <2>1 DEF Save, SaveEnabled
    <3> QED
      BY <3>1, SaveKeeps
  <2>2. CASE Confirm
    <3>1. dialog \in Dialog /\ save(dialog[1], dialog) /\ dialog' = << >>
      BY <2>0, <2>2 DEF Confirm, TypeOK
    <3>2. dialog[1] \in File
      BY <3>1 DEF Dialog, File
    <3> QED
      BY <2>2, <3>1, <3>2, SaveKeeps DEF Confirm
  <2>3. CASE Cancel \/ Restart \/ Tick
    <3>1. "policy" \in File
      BY DEF File
    <3> QED
      BY <2>3, <3>1, PanelSteps
  <2>4. CASE UNCHANGED vars
    <3>1. UNCHANGED <<rows, dirty, dialog, disk, backups, second, log, open_line, edits,
                      faults, changes, good, hasty>>
      BY <2>4 DEF vars
    <3>2. TypeOK'
      BY <2>0, <3>1 DEF TypeOK
    <3> QED
      BY <3>1, <3>2, FilesUnchanged DEF diskVars
  <2> QED
    BY <2>1, <2>2, <2>3, <2>4, PanelSteps DEF Next
<1> QED
  BY <1>1, InitIInv, PTL DEF Spec

\* The panel's rows, files, backups, log and history keep their types.
THEOREM TypeCorrectness == Spec => []TypeOK
<1>1. IInv => TypeOK
  BY DEF IInv
<1> QED
  BY <1>1, Invariance, PTL

\* No save, confirmed or not, whole or broken off, leaves a policy, criteria or
\* sockets file that can be read and does not pass validation.
THEOREM FilesAreValid == Spec => []ReadableIsValid
<1>1. IInv => ReadableIsValid
  BY DEF IInv
<1> QED
  BY <1>1, Invariance, PTL

\* What a file was last given in full can be restored, unless a failed save was
\* repeated within one second.
THEOREM BackupsSuffice == Spec => []LastGoodIsKept
<1>1. IInv => LastGoodIsKept
  BY DEF IInv
<1> QED
  BY <1>1, Invariance, PTL

-----------------------------------------------------------------------------
(* The audit log *)

\* An entry of the log tells of a change.
EntryOf(change) == [file |-> change.file, old |-> change.old, new |-> change.new]

\* The log l tells of changes of cs, in their order.
Tells(l, cs) ==
  \E at \in [DOMAIN l -> DOMAIN cs] :
    /\ \A i, j \in DOMAIN l : i < j => at[i] < at[j]
    /\ \A i \in DOMAIN l : l[i] = EntryOf(cs[at[i]])

\* What the end of the log will still cost: a line that broke off takes the next
\* entry along, and is one itself if only its newline is missing.
Pending == CASE open_line = "no" -> 0 [] open_line = "bytes" -> 1 [] open_line = "entry" -> 2

AuditInv ==
  /\ Tells(log, changes)
  /\ Len(changes) - Len(log) + Pending <= 2 * faults

LEMMA TellsLater ==
  ASSUME NEW S, NEW T, NEW l \in Seq(S), NEW cs \in Seq(T), NEW change \in T, Tells(l, cs)
  PROVE  Tells(l, Append(cs, change))
<1>1. PICK at \in [DOMAIN l -> DOMAIN cs] :
        /\ \A i, j \in DOMAIN l : i < j => at[i] < at[j]
        /\ \A i \in DOMAIN l : l[i] = EntryOf(cs[at[i]])
  BY DEF Tells
<1>2. /\ DOMAIN cs \subseteq DOMAIN Append(cs, change)
      /\ \A k \in DOMAIN cs : Append(cs, change)[k] = cs[k]
  OBVIOUS
<1>3. at \in [DOMAIN l -> DOMAIN Append(cs, change)]
  BY <1>2
<1>4. \A i \in DOMAIN l : l[i] = EntryOf(Append(cs, change)[at[i]])
  BY <1>1, <1>2
<1> QED
  BY <1>1, <1>3, <1>4 DEF Tells

LEMMA TellsOfTheLast ==
  ASSUME NEW S, NEW T, NEW l \in Seq(S), NEW cs \in Seq(T), NEW change \in T,
         EntryOf(change) \in S, Tells(l, cs)
  PROVE  Tells(Append(l, EntryOf(change)), Append(cs, change))
<1> DEFINE n == Len(l)
           m == Len(cs)
           more == Append(l, EntryOf(change))
           later == Append(cs, change)
<1>1. PICK at \in [DOMAIN l -> DOMAIN cs] :
        /\ \A i, j \in DOMAIN l : i < j => at[i] < at[j]
        /\ \A i \in DOMAIN l : l[i] = EntryOf(cs[at[i]])
  BY DEF Tells
<1>2. /\ n \in Nat /\ DOMAIN l = 1..n /\ DOMAIN more = 1..n + 1
      /\ more[n + 1] = EntryOf(change) /\ \A i \in 1..n : more[i] = l[i]
  OBVIOUS
<1>3. /\ m \in Nat /\ DOMAIN cs = 1..m /\ DOMAIN later = 1..m + 1
      /\ later[m + 1] = change /\ \A k \in 1..m : later[k] = cs[k]
  OBVIOUS
<1> DEFINE at2 == [i \in 1..n + 1 |-> IF i = n + 1 THEN m + 1 ELSE at[i]]
<1> HIDE DEF n, m, more, later
<1>4. \A i \in 1..n : i \in 1..n + 1 /\ i # n + 1 /\ at2[i] = at[i] /\ at[i] \in 1..m
  BY <1>2, <1>3
<1>5. n + 1 \in 1..n + 1 /\ at2[n + 1] = m + 1
  BY <1>2
<1>6. \A i \in 1..n + 1 : i \in 1..n \/ i = n + 1
  BY <1>2
<1>7. at2 \in [DOMAIN more -> DOMAIN later]
  BY <1>2, <1>3, <1>4, <1>6
<1> HIDE DEF at2
<1>8. ASSUME NEW i \in 1..n + 1, NEW j \in 1..n + 1, i < j
      PROVE  at2[i] < at2[j]
  <2>1. i \in 1..n
    BY <1>2, <1>8
  <2>2. CASE j \in 1..n
    BY <1>1, <1>2, <1>4, <1>8, <2>1, <2>2
  <2>3. CASE j = n + 1
    BY <1>3, <1>4, <1>5, <2>1, <2>3
  <2>4. j \in 1..n \/ j = n + 1
    BY ONLY <1>6, j \in 1..n + 1
  <2> QED
    BY <2>2, <2>3, <2>4
<1>9. ASSUME NEW i \in 1..n + 1
      PROVE  more[i] = EntryOf(later[at2[i]])
  <2>1. CASE i \in 1..n
    <3>1. at2[i] = at[i] /\ at[i] \in 1..m
      BY <1>4, <2>1
    <3>2. more[i] = l[i] /\ i \in DOMAIN l
      BY <1>2, <2>1
    <3>3. l[i] = EntryOf(cs[at[i]])
      BY <1>1, <3>2
    <3>4. later[at[i]] = cs[at[i]]
      BY <1>3, <3>1
    <3> QED
      BY ONLY <3>1, <3>2, <3>3, <3>4
  <2>2. CASE i = n + 1
    BY <1>2, <1>3, <1>5, <2>2
  <2> QED
    BY <1>6, <2>1, <2>2
<1>10. Tells(more, later)
  BY <1>2, <1>7, <1>8, <1>9 DEF Tells
<1> QED
  BY <1>10 DEF more, later

LEMMA TellsShorter ==
  ASSUME NEW S, NEW T, NEW l \in Seq(S), NEW cs \in Seq(T), l # <<>>, Tells(l, cs)
  PROVE  /\ Tells(SubSeq(l, 1, Len(l) - 1), cs)
         /\ SubSeq(l, 1, Len(l) - 1) \in Seq(S)
         /\ Len(SubSeq(l, 1, Len(l) - 1)) = Len(l) - 1
<1> DEFINE less == SubSeq(l, 1, Len(l) - 1)
<1>1. PICK at \in [DOMAIN l -> DOMAIN cs] :
        /\ \A i, j \in DOMAIN l : i < j => at[i] < at[j]
        /\ \A i \in DOMAIN l : l[i] = EntryOf(cs[at[i]])
  BY DEF Tells
<1>2. /\ less \in Seq(S) /\ Len(less) = Len(l) - 1
      /\ DOMAIN less \subseteq DOMAIN l /\ \A i \in DOMAIN less : less[i] = l[i]
  <2>1. Len(l) \in Nat /\ Len(l) > 0
    OBVIOUS
  <2>2. Len(l) - 1 \in 0..Len(l)
    BY <2>1
  <2>3. Len(less) = Len(l) - 1
    <3>1. PICK n \in Nat : n = Len(l) - 1
      BY <2>1
    <3>2. 1 \in Int /\ n \in Int /\ \A i \in 1..n : l[i] \in S
      BY <2>1, <3>1
    <3>3. Len(SubSeq(l, 1, n)) = IF 1 <= n THEN n - 1 + 1 ELSE 0
      BY <3>2, SubSeqProperties
    <3>4. (IF 1 <= n THEN n - 1 + 1 ELSE 0) = n
      OBVIOUS
    <3>5. Len(SubSeq(l, 1, n)) = n
      BY ONLY <3>3, <3>4
    <3> QED
      BY <3>1, <3>5, Zenon
  <2> QED
    BY <2>2, <2>3, Beginning
<1> HIDE DEF less
<1> DEFINE at2 == [i \in DOMAIN less |-> at[i]]
<1>3. at2 \in [DOMAIN less -> DOMAIN cs] /\ \A i \in DOMAIN less : at2[i] = at[i]
  BY <1>2
<1> HIDE DEF at2
<1>4. Tells(less, cs)
  BY <1>1, <1>2, <1>3 DEF Tells
<1> QED
  BY <1>2, <1>4 DEF less

\* A change is written down, with an append that may fail or break off.
LEMMA RecordKeeps ==
  ASSUME TypeOK, AuditInv,
         NEW change, NEW T, changes \in Seq(T), change \in T,
         changes' = Append(changes, change),
         EntryOf(change) \in [file : File, old : AnyContent, new : AnyContent],
         record_audit(EntryOf(change))
  PROVE  AuditInv'
<1> DEFINE S == [file : File, old : AnyContent, new : AnyContent]
           e == EntryOf(change)
<1>0. /\ log \in Seq(S) /\ Tells(log, changes) /\ Len(log) \in Nat /\ Len(changes) \in Nat
      /\ faults \in Nat /\ (open_line = "entry" => log # << >>)
      /\ Len(changes') = Len(changes) + 1
  BY DEF TypeOK, AuditInv
<1>1. e \in S
  OBVIOUS
<1> HIDE DEF S
<1>2. Tells(log, changes')
  BY <1>0, TellsLater
<1>3. Tells(Append(log, e), changes') /\ Len(Append(log, e)) = Len(log) + 1
  BY <1>0, <1>1, TellsOfTheLast
<1>4. open_line = "entry" => Tells(Shorter, changes') /\ Len(Shorter) = Len(log) - 1
  <2> SUFFICES ASSUME open_line = "entry"
               PROVE  Tells(Shorter, changes') /\ Len(Shorter) = Len(log) - 1
    OBVIOUS
  <2>1. /\ Tells(Shorter, changes) /\ Shorter \in Seq(S) /\ Len(Shorter) = Len(log) - 1
    BY <1>0, TellsShorter DEF Shorter
  <2> QED
    BY <2>1, TellsLater
<1>5. Len(changes) - Len(log) + Pending <= 2 * faults
  BY DEF AuditInv
<1> HIDE DEF e
<1>6. CASE append(e) /\ UNCHANGED faults
  <2>1. Tells(log', changes')
    BY <1>2, <1>3, <1>4, <1>6 DEF append
  <2>2. open_line' = "no" /\ (\/ open_line = "no" /\ Len(log') = Len(log) + 1
                              \/ open_line = "bytes" /\ Len(log') = Len(log)
                              \/ open_line = "entry" /\ Len(log') = Len(log) - 1)
    BY <1>3, <1>4, <1>6 DEF append
  <2>3. Pending \in {0, 1, 2} /\ Pending' = 0 /\ Len(log') = Len(log) + 1 - Pending
    BY <1>0, <2>2 DEF Pending
  <2>4. Len(changes') - Len(log') + Pending' <= 2 * faults'
    <3>1. Len(changes') = Len(changes) + 1 /\ faults' = faults
      BY <1>0, <1>6
    <3>2. Len(changes) \in Nat /\ Len(log) \in Nat /\ faults \in Nat
      BY <1>0
    <3> QED
      BY ONLY <1>5, <2>3, <3>1, <3>2
  <2> QED
    BY <2>1, <2>4 DEF AuditInv
<1>7. CASE faults' = faults + 1 /\ append_breaks_off(e)
  <2>1. Tells(log', changes')
    BY <1>2, <1>3, <1>4, <1>7 DEF append_breaks_off
  <2>2. \/ open_line = "no" /\ open_line' = "bytes" /\ Len(log') = Len(log)
        \/ open_line = "no" /\ open_line' = "entry" /\ Len(log') = Len(log) + 1
        \/ open_line = "entry" /\ open_line' = "bytes" /\ Len(log') = Len(log) - 1
    BY <1>3, <1>4, <1>7 DEF append_breaks_off
  <2>3. \/ Pending = 0 /\ Pending' = 1 /\ Len(log') = Len(log)
        \/ Pending = 0 /\ Pending' = 2 /\ Len(log') = Len(log) + 1
        \/ Pending = 2 /\ Pending' = 1 /\ Len(log') = Len(log) - 1
    BY <2>2 DEF Pending
  <2>4. Len(changes') - Len(log') + Pending' <= 2 * faults'
    <3>1. Len(changes') = Len(changes) + 1 /\ faults' = faults + 1
      BY <1>0, <1>7
    <3>2. Len(changes) \in Nat /\ Len(log) \in Nat /\ faults \in Nat
      BY <1>0
    <3> QED
      BY ONLY <1>5, <2>3, <3>1, <3>2
  <2> QED
    BY <2>1, <2>4 DEF AuditInv
<1>8. CASE faults' = faults + 1 /\ UNCHANGED logVars
  <2>1. log' = log /\ open_line' = open_line
    BY <1>8 DEF logVars
  <2>2. Pending' = Pending /\ Pending \in {0, 1, 2}
    BY <2>1 DEF Pending, TypeOK
  <2>3. Len(changes') - Len(log') + Pending' <= 2 * faults'
    <3>1. Len(changes') = Len(changes) + 1 /\ faults' = faults + 1 /\ Len(log') = Len(log)
      BY <1>0, <1>8, <2>1
    <3>2. Len(changes) \in Nat /\ Len(log) \in Nat /\ faults \in Nat
      BY <1>0
    <3> QED
      BY ONLY <1>5, <2>2, <3>1, <3>2
  <2> QED
    BY <1>2, <2>1, <2>3 DEF AuditInv
<1> QED
  BY <1>6, <1>7, <1>8 DEF record_audit, Spoil, e

\* Steps that write nothing down may fail all the same.
LEMMA LogUnchanged ==
  ASSUME TypeOK, AuditInv, UNCHANGED <<log, open_line, changes>>,
         faults' \in {faults, faults + 1}
  PROVE  AuditInv'
<1>1. Pending' = Pending
  BY DEF Pending
<1>2. Pending \in {0, 1, 2} /\ faults \in Nat /\ Len(changes) \in Nat /\ Len(log) \in Nat
  BY DEF TypeOK, Pending
<1> QED
  BY <1>1, <1>2 DEF AuditInv

LEMMA SaveKeepsLog ==
  ASSUME IInv, AuditInv, NEW f \in File, NEW asked \in {<< >>} \union Dialog, save(f, asked)
  PROVE  AuditInv'
<1>0. TypeOK
  BY DEF IInv
<1>1. CASE UNCHANGED <<dirty, diskVars, logVars, faults, changes>>
  BY <1>0, <1>1, LogUnchanged DEF logVars
<1>2. CASE BackupFails(f) \/ WriteFails(f)
  BY <1>0, <1>2, LogUnchanged DEF BackupFails, WriteFails, Spoil, logVars
<1>3. CASE Written(f, asked)
  <2> DEFINE change == [file |-> f, old |-> disk[f], new |-> Whole(rows[f]),
                        found |-> find_file(f), asked |-> asked]
             T == [file : File, old : AnyContent, new : AnyContent,
                   found : AnyContent, asked : {<< >>} \union Dialog]
  <2>1. disk[f] \in AnyContent /\ Whole(rows[f]) \in AnyContent /\ find_file(f) \in AnyContent
    <3>1. disk[f] \in Content(f) /\ Whole(rows[f]) \in Content(f)
      BY <1>0 DEF TypeOK, Whole, Content, ContentOf
    <3> QED
      BY <1>0, <3>1, SectionIsAny, LoadIsTyped
  <2>2. change \in T
    BY <2>1
  <2>3. EntryOf(change) = [file |-> f, old |-> disk[f], new |-> Whole(rows[f])]
    BY DEF EntryOf
  <2>4. EntryOf(change) \in [file : File, old : AnyContent, new : AnyContent]
    BY <2>1, <2>3
  <2>5. changes' = Append(changes, change) /\ record_audit(EntryOf(change))
    BY <1>3, <2>3 DEF Written
  <2>6. changes \in Seq(T)
    BY <1>0 DEF TypeOK
  <2> HIDE DEF change, T
  <2> QED
    BY <1>0, <2>2, <2>4, <2>5, <2>6, RecordKeeps
<1> QED
  BY <1>1, <1>2, <1>3 DEF save

-----------------------------------------------------------------------------
(* The screen *)

\* What CleanIsSaved says of one section.
Shows(f) ==
  IF f = "policy"
  THEN /\ Len(rows[f]) = Len(load(f))
       /\ \A i \in DOMAIN rows[f] : /\ rows[f][i].symbol = load(f)[i].symbol
                                    /\ rows[f][i].auto_approve = load(f)[i].auto_approve
  ELSE rows[f] = load(f)

LEMMA CleanShows ==
  CleanIsSaved <=> \A f \in File : ~dirty[f] /\ disk[f].kind \in {"absent", "whole"} => Shows(f)
  BY DEF CleanIsSaved, Shows

\* Rows that are the loaded ones show what is saved.
LEMMA LoadedShows ==
  ASSUME NEW f \in File, rows[f] = load(f)
  PROVE  Shows(f)
  BY DEF Shows

LEMMA EditKeepsClean ==
  ASSUME TypeOK, CleanIsSaved, NEW f \in File, EditRow(f)
  PROVE  CleanIsSaved'
<1>1. PICK i \in DOMAIN rows[f], new \in Entry(f) :
        /\ Editable(f, rows[f][i], new)
        /\ rows' = [rows EXCEPT ![f][i] = new]
        /\ dirty' = [dirty EXCEPT ![f] = @ \/ Marks(f, rows[f][i], new)]
  BY DEF EditRow
<1>2. disk' = disk /\ \A g \in File : load(g)' = load(g)
  BY DEF EditRow, diskVars, load, find_file
<1>3. /\ DOMAIN rows = File /\ rows[f] \in Seq(Entry(f)) /\ dirty \in [File -> BOOLEAN]
  BY DEF TypeOK
<1>4. /\ rows'[f] = [rows[f] EXCEPT ![i] = new]
      /\ dirty'[f] = (dirty[f] \/ Marks(f, rows[f][i], new))
      /\ \A g \in File \ {f} : rows'[g] = rows[g] /\ dirty'[g] = dirty[g]
  BY <1>1, <1>3
<1>5. ASSUME NEW g \in File, ~dirty'[g], disk[g].kind \in {"absent", "whole"}
      PROVE  Shows(g)'
  <2>1. CASE g # f
    <3>1. Shows(g)
      BY <1>4, <1>5, <2>1, CleanShows
    <3> QED
      BY <1>2, <1>4, <2>1, <3>1 DEF Shows
  <2>2. CASE g = f
    <3>1. ~dirty[f] /\ ~Marks(f, rows[f][i], new)
      BY <1>4, <1>5, <2>2
    <3>2. Shows(f)
      BY <1>5, <2>2, <3>1, CleanShows
    <3>3. f = "policy" /\ new.auto_approve = rows[f][i].auto_approve
      BY <3>1 DEF Marks
    <3>4. new.symbol = rows[f][i].symbol
      BY <1>1, <3>3 DEF Editable
    <3>5. /\ Len(rows'[f]) = Len(rows[f]) /\ DOMAIN rows'[f] = DOMAIN rows[f]
          /\ \A k \in DOMAIN rows[f] : rows'[f][k] = IF k = i THEN new ELSE rows[f][k]
      BY <1>3, <1>4
    <3> QED
      BY <1>2, <2>2, <3>2, <3>3, <3>4, <3>5 DEF Shows
  <2> QED
    BY <2>1, <2>2
<1>6. CleanIsSaved' <=> \A g \in File : ~dirty'[g] /\ disk'[g].kind \in {"absent", "whole"}
                                          => Shows(g)'
  BY DEF CleanIsSaved, Shows
<1> QED
  BY <1>2, <1>5, <1>6

\* A step at one section that marks it, or leaves what a start would load on the
\* screen, or leaves its file in pieces.
LEMMA SectionKeepsClean ==
  ASSUME CleanIsSaved, NEW f \in File,
         \A g \in File \ {f} : /\ rows'[g] = rows[g] /\ dirty'[g] = dirty[g]
                               /\ disk'[g] = disk[g],
         \/ dirty'[f]
         \/ rows'[f] = load(f)'
         \/ disk'[f].kind \in {"prefix", "broken"}
         \/ rows'[f] = rows[f] /\ dirty'[f] = dirty[f] /\ disk'[f] = disk[f]
  PROVE  CleanIsSaved'
<1>1. CleanIsSaved' <=> \A g \in File : ~dirty'[g] /\ disk'[g].kind \in {"absent", "whole"}
                                          => Shows(g)'
  BY DEF CleanIsSaved, Shows
<1>2. \A g \in File : disk'[g] = disk[g] => load(g)' = load(g)
  BY DEF load, find_file
<1>3. \A g \in File : rows'[g] = rows[g] /\ dirty'[g] = dirty[g] /\ disk'[g] = disk[g]
        => (~dirty'[g] /\ disk'[g].kind \in {"absent", "whole"} => Shows(g)')
  BY <1>2, CleanShows DEF Shows
<1>4. rows'[f] = load(f)' => Shows(f)'
  BY DEF Shows
<1> QED
  BY <1>1, <1>3, <1>4

LEMMA SaveKeepsClean ==
  ASSUME TypeOK, CleanIsSaved, NEW f \in File, NEW asked, save(f, asked)
  PROVE  CleanIsSaved'
<1>0. /\ rows' = rows /\ dirty \in [File -> BOOLEAN]
      /\ DOMAIN disk = File
  BY DEF TypeOK, save
<1>1. CASE UNCHANGED <<dirty, disk>>
  BY <1>0, <1>1, SectionKeepsClean
<1>2. CASE WriteFails(f) /\ ~UNCHANGED disk
  <2>1. PICK torn \in {Broken} \union {Prefix(rows[f], n) : n \in 0..Len(rows[f])} :
          disk' = [disk EXCEPT ![f] = torn]
    BY <1>2 DEF WriteFails
  <2>2. torn.kind \in {"prefix", "broken"}
    BY <2>1 DEF Broken, Prefix
  <2>3. dirty' = dirty
    BY <1>2 DEF WriteFails
  <2> QED
    BY <1>0, <2>1, <2>2, <2>3, SectionKeepsClean
<1>3. CASE Written(f, asked)
  <2>1. /\ disk' = [disk EXCEPT ![f] = Whole(rows[f])]
        /\ dirty' = [dirty EXCEPT ![f] = FALSE]
    BY <1>3 DEF Written
  <2>2. disk'[f] = Whole(rows[f]) /\ \A g \in File \ {f} : disk'[g] = disk[g] /\ dirty'[g] = dirty[g]
    BY <1>0, <2>1
  <2>3. load(f)' = rows[f]
    BY <2>2 DEF load, find_file, Whole, Absent
  <2> QED
    BY <1>0, <2>2, <2>3, SectionKeepsClean
<1> QED
  BY <1>1, <1>2, <1>3 DEF save, BackupFails, WriteFails, diskVars

-----------------------------------------------------------------------------
(* Theorems on log and screen *)

\* The audit log tells of the changes in order; every failed operation costs it two
\* entries at most, whatever order appends break off in.
THEOREM LogAccountsForChanges == Spec => []AuditAccountsForChanges
<1>1. Init => AuditInv
  <2> SUFFICES ASSUME Init PROVE AuditInv
    OBVIOUS
  <2>1. log = << >> /\ changes = << >> /\ open_line = "no" /\ faults = 0
    BY DEF Init
  <2>2. Tells(<< >>, << >>)
    <3>1. [i \in {} |-> 0] \in [DOMAIN << >> -> DOMAIN << >>]
      OBVIOUS
    <3> QED
      BY <3>1 DEF Tells
  <2> QED
    BY <2>1, <2>2 DEF AuditInv, Pending
<1>2. IInv /\ AuditInv /\ [Next]_vars => AuditInv'
  <2> SUFFICES ASSUME IInv, AuditInv, [Next]_vars PROVE AuditInv'
    OBVIOUS
  <2>0. TypeOK
    BY DEF IInv
  <2>1. ASSUME NEW f \in File, Save(f) PROVE AuditInv'
    BY <2>1, SaveKeepsLog DEF Save
  <2>2. CASE Confirm
    <3>1. dialog \in Dialog /\ save(dialog[1], dialog)
      BY <2>0, <2>2 DEF Confirm, TypeOK
    <3>2. dialog[1] \in File
      BY <3>1 DEF Dialog, File
    <3> QED
      BY <3>1, <3>2, SaveKeepsLog
  <2>3. ASSUME NEW f \in File,
               \/ EditRow(f) \/ AddRow(f) \/ RemoveRow(f) \/ Reload(f) \/ AskToConfirm(f)
               \/ Cancel \/ Restart \/ Tick \/ UNCHANGED vars
        PROVE  AuditInv'
    <3>1. UNCHANGED <<log, open_line, changes, faults>>
      BY <2>3 DEF EditRow, AddRow, RemoveRow, Reload, AskToConfirm, Cancel, Restart, Tick,
                  vars, logVars
    <3> QED
      BY <2>0, <3>1, LogUnchanged
  <2>4. "policy" \in File
    BY DEF File
  <2> QED
    BY <2>1, <2>2, <2>3, <2>4 DEF Next
<1>3. IInv /\ AuditInv => AuditAccountsForChanges
  <2> SUFFICES ASSUME IInv, AuditInv PROVE AuditAccountsForChanges
    OBVIOUS
  <2>1. Pending \in {0, 1, 2} /\ faults \in Nat /\ Len(changes) \in Nat /\ Len(log) \in Nat
    BY DEF IInv, TypeOK, Pending
  <2>2. Len(changes) - Len(log) <= 2 * faults
    BY <2>1 DEF AuditInv
  <2>3. Tells(log, changes)
    BY DEF AuditInv
  <2> QED
    BY <2>2, <2>3 DEF Tells, EntryOf, AuditAccountsForChanges
<1> QED
  BY <1>1, <1>2, <1>3, Invariance, PTL DEF Spec

\* The panel marks for saving whatever differs from what a start would load, but for
\* classifications, through every order of edits, reloads, failures and saves.
THEOREM CleanSectionsAreSaved == Spec => []CleanIsSaved
<1>1. Init => CleanIsSaved
  BY DEF Init, CleanIsSaved
<1>2. IInv /\ CleanIsSaved /\ [Next]_vars => CleanIsSaved'
  <2> SUFFICES ASSUME IInv, CleanIsSaved, [Next]_vars PROVE CleanIsSaved'
    OBVIOUS
  <2>0. TypeOK /\ DOMAIN rows = File /\ dirty \in [File -> BOOLEAN]
    BY DEF IInv, TypeOK
  <2>1. ASSUME NEW f \in File, Save(f) PROVE CleanIsSaved'
    BY <2>0, <2>1, SaveKeepsClean DEF Save
  <2>2. CASE Confirm
    <3>1. dialog[1] \in File /\ save(dialog[1], dialog)
      BY <2>0, <2>2 DEF Confirm, TypeOK, Dialog, File
    <3> QED
      BY <2>0, <3>1, SaveKeepsClean
  <2>3. ASSUME NEW f \in File, EditRow(f) PROVE CleanIsSaved'
    BY <2>0, <2>3, EditKeepsClean
  <2>4. ASSUME NEW f \in File, AddRow(f) \/ RemoveRow(f) PROVE CleanIsSaved'
    <3>1. disk' = disk /\ dirty' = [dirty EXCEPT ![f] = TRUE]
          /\ \A g \in File \ {f} : rows'[g] = rows[g]
      BY <2>0, <2>4 DEF AddRow, RemoveRow, diskVars
    <3> QED
      BY <2>0, <3>1, SectionKeepsClean
  <2>5. ASSUME NEW f \in File, Reload(f) PROVE CleanIsSaved'
    <3>1. /\ disk' = disk /\ dirty' = [dirty EXCEPT ![f] = FALSE]
          /\ rows' = [rows EXCEPT ![f] = load(f)]
      BY <2>5 DEF Reload, diskVars
    <3>2. rows'[f] = load(f)'
      BY <2>0, <3>1 DEF load, find_file
    <3> QED
      BY <2>0, <3>1, <3>2, SectionKeepsClean
  <2>6. CASE Restart
    <3>1. \A f \in File : rows'[f] = load(f)'
      BY <2>6 DEF Restart, diskVars, load, find_file
    <3> QED
      BY <3>1 DEF CleanIsSaved
  <2>7. ASSUME UNCHANGED <<rows, dirty, disk>> PROVE CleanIsSaved'
    BY <2>7 DEF CleanIsSaved, load, find_file
  <2>8. ASSUME NEW f \in File, AskToConfirm(f) PROVE CleanIsSaved'
    BY <2>7, <2>8 DEF AskToConfirm, diskVars
  <2>9. CASE Cancel \/ Tick \/ UNCHANGED vars
    BY <2>7, <2>9 DEF Cancel, Tick, vars, panelVars, diskVars
  <2> QED
    BY <2>1, <2>2, <2>3, <2>4, <2>5, <2>6, <2>8, <2>9 DEF Next
<1> QED
  BY <1>1, <1>2, Invariance, PTL DEF Spec

-----------------------------------------------------------------------------
(* Lowering in instalments *)

\* Policy rows b go on where policy rows a end: the same symbols in the same places.
Continues(a, b) == Len(a) <= Len(b) /\ \A i \in DOMAIN a : a[i].symbol = b[i].symbol

\* The panel never drops or moves a symbol that the policy in effect names.
RowsContinueFile == Continues(load("policy"), rows["policy"])

\* A file that was changed is there, and was last given in full what its last change
\* gave it.
LastIsGood ==
  \A i \in DOMAIN changes :
    /\ disk[changes[i].file] # Absent
    /\ \E m \in DOMAIN changes :
         /\ i <= m /\ changes[m].file = changes[i].file
         /\ changes[m].new = good[changes[i].file]

\* What unasked saves made of a file is not flagged against what the first of them found,
\* and the policy's symbols stay in their places meanwhile.
NotLowered(f, was, now) ==
  /\ ~is_security_lowering_change(Section(f, now), Section(f, was))
  /\ f = "policy" => Continues(was, now)

Instalments ==
  \A i, j \in DOMAIN changes :
    /\ changes[i].file \in {"policy", "sockets"}
    /\ changes[i].found.kind # "broken"
    /\ Unasked(i, j)
    => NotLowered(changes[i].file, changes[i].found.rows, changes[j].new.rows)

LoweringInv == RowsContinueFile /\ LastIsGood /\ Instalments

\* What lowers security altogether lowers it in one of two steps, as long as the first
\* leaves every symbol of the policy in its place: by the check of admin_config.rs,
\* nothing is gained by taking two steps.
LEMMA LoweringTakesOneStep ==
  ASSUME NEW f \in {"policy", "sockets"},
         NEW a \in Seq(AnyEntry), NEW b \in Seq(Entry(f)), NEW c \in Seq(Entry(f)),
         f = "policy" => Continues(a, b),
         is_security_lowering_change(Section(f, c), Section(f, a))
  PROVE  \/ is_security_lowering_change(Section(f, b), Section(f, a))
         \/ is_security_lowering_change(Section(f, c), Section(f, b))
<1>0. ASSUME NEW r PROVE \A g \in File : Section(f, r)[g] = IF g = f THEN r ELSE <<>>
  BY DEF Section
<1>1. CASE f = "sockets"
  <2>1. \A r : /\ Section(f, r)["allowlist"] = <<>> /\ Section(f, r)["policy"] = <<>>
               /\ Section(f, r)["sockets"] = r
    BY <1>0, <1>1 DEF File
  <2>2. Len(c) < Len(a)
    BY <2>1 DEF is_security_lowering_change
  <2>3. Len(b) < Len(a) \/ Len(c) < Len(b)
    BY <2>2
  <2> QED
    BY <2>1, <2>3 DEF is_security_lowering_change
<1>2. CASE f = "policy"
  <2>1. \A r : /\ Section(f, r)["allowlist"] = <<>> /\ Section(f, r)["sockets"] = <<>>
               /\ Section(f, r)["policy"] = r
    BY <1>0, <1>2 DEF File
  <2> DEFINE lowers(new, old, i, p) ==
               /\ FirstFor(new[i].symbol, old, p)
               /\ \/ old[p].classification = "critical" /\ new[i].classification = "delegable"
                  \/ /\ new[i].symbol \in CRITICAL_SYMBOLS
                     /\ ~old[p].auto_approve
                     /\ new[i].auto_approve
  <2>2. ASSUME NEW new, NEW old
        PROVE  is_security_lowering_change(Section(f, new), Section(f, old))
                 <=> \E i \in DOMAIN new, p \in DOMAIN old : lowers(new, old, i, p)
    BY <2>1 DEF is_security_lowering_change
  <2>3. PICK i \in DOMAIN c, p \in DOMAIN a : lowers(c, a, i, p)
    BY <2>2
  <2>4. /\ p \in DOMAIN b /\ b[p].symbol = a[p].symbol /\ a[p].symbol = c[i].symbol
        /\ FirstFor(b[p].symbol, a, p) /\ FirstFor(c[i].symbol, b, p)
    BY <1>2, <2>3 DEF Continues, FirstFor
  <2>5. /\ b[p] \in PolicySymbolEntry
        /\ b[p].classification \in {"critical", "delegable"}
        /\ b[p].auto_approve \in BOOLEAN
    <3>1. b \in Seq(PolicySymbolEntry)
      BY <1>2 DEF Entry
    <3>2. b[p] \in PolicySymbolEntry
      BY ONLY <2>4, <3>1
    <3> QED
      BY <3>2 DEF PolicySymbolEntry, Classification
  <2>6. lowers(b, a, p, p) \/ lowers(c, b, i, p)
    BY <2>3, <2>4, <2>5
  <2> HIDE DEF lowers
  <2>7. p \in DOMAIN a /\ p \in DOMAIN b /\ i \in DOMAIN c
    BY <2>4
  <2>8. CASE lowers(b, a, p, p)
    BY <2>2, <2>7, <2>8
  <2>9. CASE lowers(c, b, i, p)
    BY <2>2, <2>7, <2>9
  <2> QED
    BY <2>6, <2>8, <2>9
<1> QED
  BY <1>1, <1>2

LEMMA NotLoweredTwice ==
  ASSUME NEW f \in {"policy", "sockets"},
         NEW a \in Seq(AnyEntry), NEW b \in Seq(Entry(f)), NEW c \in Seq(Entry(f)),
         NotLowered(f, a, b), NotLowered(f, b, c)
  PROVE  NotLowered(f, a, c)
<1>1. ~is_security_lowering_change(Section(f, c), Section(f, a))
  BY LoweringTakesOneStep DEF NotLowered
<1>2. f = "policy" => Continues(a, c)
  BY DEF NotLowered, Continues
<1> QED
  BY <1>1, <1>2 DEF NotLowered

\* Clicks on the rows, reloads and starts keep the symbols in their places.
LEMMA PanelKeepsSymbols ==
  ASSUME TypeOK, RowsContinueFile, NEW f \in File,
         EditRow(f) \/ AddRow(f) \/ RemoveRow(f) \/ Reload(f) \/ Restart
  PROVE  RowsContinueFile'
<1>0. /\ "policy" \in File /\ DOMAIN rows = File
      /\ \A g \in File : rows[g] \in Seq(Entry(g))
  BY DEF TypeOK, File
<1>1. load("policy")' = load("policy")
  BY DEF EditRow, AddRow, RemoveRow, Reload, Restart, diskVars, load, find_file
<1>2. CASE rows'["policy"] = load("policy")
  BY <1>1, <1>2, <1>0, LoadIsTyped DEF RowsContinueFile, Continues
<1>3. CASE rows'["policy"] = rows["policy"]
  BY <1>1, <1>3 DEF RowsContinueFile
<1>4. CASE EditRow(f) /\ f = "policy"
  <2>1. PICK i \in DOMAIN rows[f], new \in Entry(f) :
          /\ Editable(f, rows[f][i], new)
          /\ rows' = [rows EXCEPT ![f][i] = new]
    BY <1>4 DEF EditRow
  <2>2. new.symbol = rows[f][i].symbol
    BY <1>4, <2>1 DEF Editable
  <2>3. /\ Len(rows'[f]) = Len(rows[f])
        /\ \A k \in DOMAIN rows[f] : rows'[f][k].symbol = rows[f][k].symbol
    <3>1. rows'[f] = [rows[f] EXCEPT ![i] = new]
      BY <1>0, <2>1
    <3> QED
      BY <1>0, <2>2, <3>1
  <2>4. load(f) \in Seq(Entry(f))
    BY LoadIsTyped
  <2>5. \A k \in DOMAIN load(f) : k \in DOMAIN rows[f]
    BY <1>0, <1>4, <2>4 DEF RowsContinueFile, Continues
  <2> QED
    BY <1>1, <1>4, <2>3, <2>5 DEF RowsContinueFile, Continues
<1>5. CASE EditRow(f) /\ f # "policy"
  BY <1>0, <1>3, <1>5 DEF EditRow
<1>6. CASE AddRow(f) \/ RemoveRow(f)
  BY <1>0, <1>3, <1>6 DEF AddRow, RemoveRow, Listed
<1>7. CASE Reload(f)
  BY <1>0, <1>2, <1>3, <1>7 DEF Reload
<1>8. CASE Restart
  BY <1>0, <1>2, <1>8 DEF Restart
<1> QED
  BY <1>4, <1>5, <1>6, <1>7, <1>8

\* Steps that change no file and none of the history.
LEMMA PanelKeepsLowering ==
  ASSUME LoweringInv, UNCHANGED <<disk, good, changes>>, RowsContinueFile'
  PROVE  LoweringInv'
<1>1. LastIsGood'
  BY DEF LoweringInv, LastIsGood
<1>2. Instalments'
  BY DEF LoweringInv, Instalments, Unasked
<1> QED
  BY <1>1, <1>2 DEF LoweringInv

LEMMA ChangesAreOfFiles ==
  ASSUME TypeOK
  PROVE  \A i \in DOMAIN changes : /\ changes[i].file \in File
                                   /\ changes[i].found.rows \in Seq(AnyEntry)
                                   /\ changes[i].new.rows \in Seq(AnyEntry)
<1> DEFINE Change == [file : File, old : AnyContent, new : AnyContent,
                      found : AnyContent, asked : {<< >>} \union Dialog]
<1>1. changes \in Seq(Change)
  BY DEF TypeOK
<1>2. \A change \in Change : /\ change.file \in File
                            /\ change.found \in AnyContent /\ change.new \in AnyContent
  OBVIOUS
<1>3. \A content \in AnyContent : content.rows \in Seq(AnyEntry)
  BY DEF AnyContent, ContentOf
<1> HIDE DEF Change
<1> QED
  BY <1>1, <1>2, <1>3

\* A save that fails leaves the file as it was, in pieces, or with the beginning of
\* the rows, whose symbols are in their places.
LEMMA FailureKeepsLowering ==
  ASSUME TypeOK, LoweringInv, NEW f \in File, BackupFails(f) \/ WriteFails(f), rows' = rows
  PROVE  LoweringInv'
<1>0. /\ "policy" \in File /\ DOMAIN disk = File /\ good' = good /\ changes' = changes
      /\ \A g \in File : rows[g] \in Seq(Entry(g))
  BY DEF TypeOK, File, BackupFails, WriteFails
<1>1. CASE disk' = disk
  <2>1. RowsContinueFile'
    BY <1>1 DEF LoweringInv, RowsContinueFile, load, find_file
  <2> QED
    BY <1>0, <1>1, <2>1, PanelKeepsLowering
<1>2. CASE disk' # disk
  <2>1. PICK torn \in {Broken} \union {Prefix(rows[f], n) : n \in 0..Len(rows[f])} :
          disk' = [disk EXCEPT ![f] = torn]
    BY <1>2 DEF BackupFails, WriteFails
  <2>2. torn # Absent
    BY <2>1 DEF Broken, Prefix, Absent
  <2>3. disk'[f] = torn /\ \A g \in File \ {f} : disk'[g] = disk[g]
    BY <1>0, <2>1
  <2>4. RowsContinueFile'
    <3>1. CASE f # "policy"
      BY <1>0, <2>3, <3>1 DEF LoweringInv, RowsContinueFile, load, find_file
    <3>2. CASE f = "policy" /\ torn = Broken
      <4>1. load("policy")' = <<>>
        BY <2>2, <2>3, <3>2 DEF load, find_file, Broken
      <4> QED
        BY <1>0, <4>1 DEF RowsContinueFile, Continues
    <3>3. ASSUME f = "policy", NEW n \in 0..Len(rows[f]), torn = Prefix(rows[f], n)
          PROVE  RowsContinueFile'
      <4>1. load("policy")' = SubSeq(rows[f], 1, n)
        BY <2>2, <2>3, <3>3 DEF load, find_file, Prefix
      <4>2. /\ SubSeq(rows[f], 1, n) \in Seq(Entry(f))
            /\ DOMAIN SubSeq(rows[f], 1, n) \subseteq DOMAIN rows[f]
            /\ \A i \in DOMAIN SubSeq(rows[f], 1, n) : SubSeq(rows[f], 1, n)[i] = rows[f][i]
        BY <1>0, Beginning
      <4>3. Len(SubSeq(rows[f], 1, n)) <= Len(rows[f])
        BY <1>0, <4>2
      <4> QED
        BY <3>3, <4>1, <4>2, <4>3 DEF RowsContinueFile, Continues
    <3> QED
      BY <2>1, <3>1, <3>2, <3>3
  <2>5. LastIsGood'
    <3>1. \A g \in File : disk[g] # Absent => disk'[g] # Absent
      BY <2>2, <2>3
    <3>2. \A i \in DOMAIN changes : changes[i].file \in File
      BY ChangesAreOfFiles
    <3> QED
      BY <1>0, <3>1, <3>2 DEF LoweringInv, LastIsGood
  <2>6. Instalments'
    BY <1>0 DEF LoweringInv, Instalments, Unasked
  <2> QED
    BY <2>4, <2>5, <2>6 DEF LoweringInv
<1> QED
  BY <1>1, <1>2

\* A save that succeeds adds a last change.  If nobody is asked it does not lower what
\* it found, and what it found, if whole, is what the change before it made.
LEMMA WrittenKeepsLowering ==
  ASSUME IInv, LoweringInv, NEW f \in File, NEW asked,
         asked # << >> \/ ~AsksFirst(f), Accepts(f), Written(f, asked), rows' = rows
  PROVE  LoweringInv'
<1> DEFINE change == [file |-> f, old |-> disk[f], new |-> Whole(rows[f]),
                      found |-> find_file(f), asked |-> asked]
           n == Len(changes) + 1
<1>0. /\ TypeOK /\ "policy" \in File /\ DOMAIN disk = File /\ DOMAIN good = File
      /\ rows[f] \in Seq(Entry(f)) /\ load(f) \in Seq(Entry(f)) /\ disk[f] \in Content(f)
  BY LoadIsTyped DEF IInv, TypeOK, File
<1>1. /\ disk' = [disk EXCEPT ![f] = Whole(rows[f])]
      /\ good' = [good EXCEPT ![f] = Whole(rows[f])]
      /\ changes' = Append(changes, change)
  BY DEF Written
<1>2. /\ disk'[f] = Whole(rows[f]) /\ good'[f] = Whole(rows[f])
      /\ \A g \in File \ {f} : disk'[g] = disk[g] /\ good'[g] = good[g]
  BY <1>0, <1>1
<1>3. /\ change.file = f /\ change.found = find_file(f) /\ change.found.rows = load(f)
      /\ change.new = Whole(rows[f]) /\ change.new.rows = rows[f] /\ change.asked = asked
  BY DEF load, Whole
<1> HIDE DEF change
<1>4. /\ n \in Nat /\ DOMAIN changes = 1..n - 1 /\ DOMAIN changes' = 1..n
      /\ changes'[n] = change /\ \A k \in 1..n - 1 : changes'[k] = changes[k]
  <2>1. PICK T : changes \in Seq(T)
    BY <1>0 DEF TypeOK
  <2> QED
    BY <1>1, <2>1
<1> HIDE DEF n
<1>5. \A k \in 1..n : k \in 1..n - 1 \/ k = n
  BY <1>4
<1>6. RowsContinueFile'
  <2>1. CASE f = "policy"
    <3>1. load(f)' = rows[f]
      BY <1>2 DEF load, find_file, Whole, Absent
    <3> QED
      BY <1>0, <2>1, <3>1 DEF RowsContinueFile, Continues
  <2>2. CASE f # "policy"
    BY <1>0, <1>2, <2>2 DEF LoweringInv, RowsContinueFile, load, find_file
  <2> QED
    BY <2>1, <2>2
<1>7. LastIsGood'
  <2> SUFFICES ASSUME NEW i \in 1..n
               PROVE  /\ disk'[changes'[i].file] # Absent
                      /\ \E m \in 1..n : /\ i <= m /\ changes'[m].file = changes'[i].file
                                         /\ changes'[m].new = good'[changes'[i].file]
    BY <1>4 DEF LastIsGood
  <2>1. CASE changes'[i].file = f
    <3>1. Whole(rows[f]) # Absent
      BY DEF Whole, Absent
    <3> QED
      BY <1>2, <1>3, <1>4, <2>1, <3>1
  <2>2. CASE changes'[i].file # f
    <3>1. i \in 1..n - 1 /\ changes'[i] = changes[i] /\ changes[i].file \in File \ {f}
      BY <1>0, <1>3, <1>4, <1>5, <2>2, ChangesAreOfFiles
    <3>2. disk'[changes[i].file] = disk[changes[i].file]
          /\ good'[changes[i].file] = good[changes[i].file]
      BY <1>2, <3>1
    <3>3. disk[changes[i].file] # Absent
      BY <1>4, <3>1 DEF LoweringInv, LastIsGood
    <3>4. PICK m \in 1..n - 1 : /\ i <= m /\ changes[m].file = changes[i].file
                                /\ changes[m].new = good[changes[i].file]
      BY <1>4, <3>1 DEF LoweringInv, LastIsGood
    <3>5. m \in 1..n /\ changes'[m] = changes[m]
      BY <1>4
    <3> QED
      BY <3>1, <3>2, <3>3, <3>4, <3>5
  <2> QED
    BY <2>1, <2>2
<1>8. ASSUME f \in {"policy", "sockets"}, find_file(f).kind # "broken", asked = << >>
      PROVE  NotLowered(f, load(f), rows[f])
  <2>1. ~is_security_lowering_change(Section(f, rows[f]), Section(f, load(f)))
    BY <1>8 DEF AsksFirst, Lowers, Accepts
  <2>2. f = "policy" => Continues(load(f), rows[f])
    BY DEF LoweringInv, RowsContinueFile
  <2> QED
    BY <2>1, <2>2 DEF NotLowered
<1>9. ASSUME NEW i \in 1..n, NEW j \in 1..n, changes'[i].file \in {"policy", "sockets"},
             changes'[i].found.kind # "broken", Unasked(i, j)'
      PROVE  NotLowered(changes'[i].file, changes'[i].found.rows, changes'[j].new.rows)
  <2>0. /\ i <= j /\ changes'[i].file = changes'[j].file
        /\ \A k \in i..j : changes'[k].file = changes'[i].file =>
             changes'[k].asked = << >> /\ (k = i \/ changes'[k].found.kind = "whole")
    BY <1>9 DEF Unasked
  <2>1. CASE j # n
    <3>1. i \in 1..n - 1 /\ j \in 1..n - 1 /\ changes'[i] = changes[i] /\ changes'[j] = changes[j]
      BY <1>4, <1>5, <2>0, <2>1
    <3>2. \A k \in i..j : changes'[k] = changes[k]
      BY <1>4, <3>1
    <3>3. Unasked(i, j)
      BY <2>0, <3>1, <3>2 DEF Unasked
    <3> QED
      BY <1>4, <1>9, <3>1, <3>3 DEF LoweringInv, Instalments
  <2>2. CASE j = n /\ i = n
    <3>1. n \in i..j
      BY <1>4, <2>2
    <3> QED
      BY <1>3, <1>4, <1>8, <1>9, <2>0, <2>2, <3>1
  <2>3. CASE j = n /\ i # n
    <3>1. i \in 1..n - 1 /\ changes'[i] = changes[i] /\ changes[i].file = f /\ n \in i..n
      BY <1>3, <1>4, <1>5, <2>0, <2>3
    <3>2. asked = << >> /\ find_file(f).kind = "whole"
      BY <1>3, <1>4, <2>0, <2>3, <3>1
    <3>3. disk[f] # Absent
      BY <1>4, <3>1 DEF LoweringInv, LastIsGood
    <3>4. PICK m \in 1..n - 1 : i <= m /\ changes[m].file = f /\ changes[m].new = good[f]
      BY <1>4, <3>1 DEF LoweringInv, LastIsGood
    <3>5. changes[m].new.rows = load(f)
      BY <3>2, <3>3, <3>4 DEF IInv, WholeIsGood, find_file, load
    <3>6. Unasked(i, m)
      <4>1. \A k \in i..m : k \in i..n /\ changes'[k] = changes[k]
        BY <1>4, <3>1, <3>4
      <4> QED
        BY <2>0, <2>3, <3>1, <3>4, <4>1 DEF Unasked
    <3>7. NotLowered(f, changes[i].found.rows, load(f))
      BY <1>4, <1>9, <3>1, <3>4, <3>5, <3>6 DEF LoweringInv, Instalments
    <3>8. NotLowered(f, load(f), rows[f])
      BY <1>8, <1>9, <3>1, <3>2
    <3>9. NotLowered(f, changes[i].found.rows, rows[f])
      BY <1>0, <1>4, <1>9, <3>1, <3>7, <3>8, NotLoweredTwice, ChangesAreOfFiles
    <3> QED
      BY <1>3, <1>4, <2>3, <3>1, <3>9
  <2> QED
    BY <2>1, <2>2, <2>3
<1>10. Instalments'
  BY <1>4, <1>9 DEF Instalments
<1> QED
  BY <1>6, <1>7, <1>10 DEF LoweringInv

\* No symbol that is critical in the policy in effect becomes delegable without the
\* dialog, neither at once nor in instalments, unless a torn file was saved over
\* meanwhile, for the check then misses what the tear took away (admin_panel.rs:816-846,
\* admin_config.rs:217-247).
THEOREM DelegatingNeedsConfirmation == Spec => []DelegatingIsConfirmed
<1>1. Init => LoweringInv
  <2> SUFFICES ASSUME Init PROVE LoweringInv
    OBVIOUS
  <2>1. /\ changes = << >> /\ rows["policy"] = load("policy")
        /\ rows["policy"] \in Seq(Entry("policy"))
    <3>1. TypeOK /\ "policy" \in File
      BY InitIInv DEF IInv, File
    <3> QED
      BY <3>1 DEF Init, TypeOK
  <2> QED
    BY <2>1 DEF LoweringInv, RowsContinueFile, Continues, LastIsGood, Instalments
<1>2. IInv /\ LoweringInv /\ [Next]_vars => LoweringInv'
  <2> SUFFICES ASSUME IInv, LoweringInv, [Next]_vars PROVE LoweringInv'
    OBVIOUS
  <2>0. TypeOK /\ RowsContinueFile /\ "policy" \in File
    BY DEF IInv, LoweringInv, File
  <2>1. ASSUME NEW f \in File, NEW asked, asked # << >> \/ ~AsksFirst(f), save(f, asked)
        PROVE  LoweringInv'
    <3>1. rows' = rows
      BY <2>1 DEF save
    <3>2. CASE UNCHANGED <<disk, good, changes>>
      <4>1. RowsContinueFile'
        BY <2>0, <3>1, <3>2 DEF RowsContinueFile, load, find_file
      <4> QED
        BY <3>2, <4>1, PanelKeepsLowering
    <3>3. CASE BackupFails(f) \/ WriteFails(f)
      BY <2>0, <3>1, <3>3, FailureKeepsLowering
    <3>4. CASE Accepts(f) /\ Written(f, asked)
      BY <2>1, <3>1, <3>4, WrittenKeepsLowering
    <3> QED
      BY <2>1, <3>2, <3>3, <3>4 DEF save, diskVars
  <2>2. ASSUME NEW f \in File, Save(f) PROVE LoweringInv'
    BY <2>1, <2>2 DEF Save
  <2>3. CASE Confirm
    <3>1. dialog # << >> /\ dialog[1] \in File /\ save(dialog[1], dialog)
      BY <2>0, <2>3 DEF Confirm, TypeOK, Dialog, File
    <3> QED
      BY <2>1, <3>1
  <2>4. ASSUME NEW f \in File,
               EditRow(f) \/ AddRow(f) \/ RemoveRow(f) \/ Reload(f) \/ Restart
        PROVE  LoweringInv'
    <3>1. UNCHANGED <<disk, good, changes>>
      BY <2>4 DEF EditRow, AddRow, RemoveRow, Reload, Restart, diskVars
    <3> QED
      BY <2>0, <2>4, <3>1, PanelKeepsSymbols, PanelKeepsLowering
  <2>5. ASSUME UNCHANGED <<rows, disk, good, changes>> PROVE LoweringInv'
    <3>1. RowsContinueFile'
      BY <2>0, <2>5 DEF RowsContinueFile, load, find_file
    <3> QED
      BY <2>5, <3>1, PanelKeepsLowering
  <2>6. ASSUME NEW f \in File, AskToConfirm(f) PROVE LoweringInv'
    BY <2>5, <2>6 DEF AskToConfirm, diskVars
  <2>7. CASE Cancel \/ Tick \/ UNCHANGED vars
    BY <2>5, <2>7 DEF Cancel, Tick, vars, panelVars, diskVars
  <2> QED
    BY <2>0, <2>2, <2>3, <2>4, <2>6, <2>7 DEF Next
<1>3. LoweringInv => DelegatingIsConfirmed
  <2> SUFFICES ASSUME LoweringInv, NEW i \in DOMAIN changes, NEW j \in DOMAIN changes,
                      changes[i].file = "policy", changes[i].found.kind # "broken",
                      Unasked(i, j)
               PROVE  Lowered("policy", changes[i].found.rows, changes[j].new.rows) = {}
    BY DEF DelegatingIsConfirmed
  <2> DEFINE was == changes[i].found.rows
             now == changes[j].new.rows
  <2>1. ~is_security_lowering_change(Section("policy", now), Section("policy", was))
    BY DEF LoweringInv, Instalments, NotLowered
  <2>2. Section("policy", now)["policy"] = now /\ Section("policy", was)["policy"] = was
    BY DEF Section, File
  <2> HIDE DEF was, now
  <2>3. \A m \in DOMAIN now, p \in DOMAIN was :
          ~ /\ FirstFor(now[m].symbol, was, p)
            /\ was[p].classification = "critical" /\ now[m].classification = "delegable"
    BY <2>1, <2>2 DEF is_security_lowering_change
  <2>4. Lowered("policy", was, now) = {}
    BY <2>3 DEF Lowered
  <2> QED
    BY <2>4 DEF was, now
<1> QED
  BY <1>1, <1>2, <1>3, Invariance, PTL DEF Spec
=============================================================================
