--------------------------- MODULE RootBranch_proofs ---------------------------
(***************************************************************************)
(* Safety of the branches' calls and of the delivery of their results, for *)
(* any tasks, asks and runs of the daemon.                                 *)
(***************************************************************************)
EXTENDS RootBranch, TLAPS, FiniteSetTheorems

USE BoundsAssumption

\* A reply is of a run that was or is; one of this run has an index that was counted.
RepliesAreCounted ==
  \A b \in Branch : \A i \in DOMAIN replies[b] :
    /\ replies[b][i].run <= run
    /\ replies[b][i].run = run => replies[b][i].call_index < sub_chat_counter[b]

BranchInv ==
  /\ TypeOK
  /\ RepliesAreCounted
  /\ IndicesRise
  /\ CallsAreAccountedFor

\* Both results are never stored at once: the second is delivered as it comes.
OneIsStored == \E b \in Branch : branch_results[b] = NoResult

\* What is stored, or waits for the root, is of this run of the daemon.
OfThisRun ==
  \A b \in Branch :
    /\ branch_results[b] # NoResult => replies[b][branch_results[b]].run = run
    /\ \A i \in taken[b] + 1..Len(replies[b]) : replies[b][i].run = run

\* What is stored came after what was delivered.
StoredIsNewest ==
  \A b \in Branch : branch_results[b] # NoResult =>
    \A n \in Delivered(b) : n < branch_results[b]

RootInv ==
  /\ RootTypeOK
  /\ StoredIsNewest
  /\ OneIsStored
  /\ OfThisRun
  /\ DeliveredOnce
  /\ RecordedIsAccountedFor

IInv == BranchInv /\ RootInv

-----------------------------------------------------------------------------
(* The calls of the branches *)

LEMMA BranchInit == Init => BranchInv
<1> SUFFICES ASSUME Init PROVE BranchInv
  OBVIOUS
<1>1. TypeOK
  BY DEF Init, TypeOK, sub_chat_limit, Reply
<1>2. RepliesAreCounted /\ IndicesRise
  BY DEF Init, RepliesAreCounted, IndicesRise
<1>3. \A b \in Branch : ReceivedInRun(b, run) = {}
  BY DEF Init, ReceivedInRun
<1>4. CallsAreAccountedFor
  BY <1>3, FS_EmptySet DEF Init, CallsAreAccountedFor
<1> QED
  BY <1>1, <1>2, <1>4 DEF BranchInv

LEMMA ReceivedIsFinite ==
  ASSUME TypeOK, NEW b \in Branch, NEW r
  PROVE  IsFiniteSet(ReceivedInRun(b, r))
<1>1. DOMAIN replies[b] = 1..Len(replies[b]) /\ Len(replies[b]) \in Nat
  BY DEF TypeOK
<1>2. IsFiniteSet(1..Len(replies[b]))
  BY <1>1, FS_Interval
<1> QED
  BY <1>1, <1>2, FS_Subset DEF ReceivedInRun

LEMMA RepliesAreTyped ==
  ASSUME TypeOK, NEW b \in Branch, NEW i \in DOMAIN replies[b]
  PROVE  replies[b][i].run \in Nat /\ replies[b][i].call_index \in Nat
<1>1. replies[b][i] \in Reply
  BY DEF TypeOK
<1>2. \A x \in Reply : x.run \in 1..MaxRuns /\ x.call_index \in 0..2
  BY DEF Reply, sub_chat_limit
<1> QED
  BY <1>1, <1>2

\* Steps that touch neither counters nor replies.
LEMMA BranchQuiet ==
  ASSUME BranchInv, UNCHANGED <<run, sub_chat_counter, replies, lost>>,
         asks' \in [Branch -> Seq(Task)], asked' \in [Branch -> Nat]
  PROVE  BranchInv'
  BY DEF BranchInv, TypeOK, RepliesAreCounted, IndicesRise, CallsAreAccountedFor,
         ReceivedInRun

LEMMA AskInvariant ==
  ASSUME BranchInv, NEW b \in Branch, NEW t \in Task, Ask(b, t)
  PROVE  BranchInv'
<1>1. asks \in [Branch -> Seq(Task)] /\ asked \in [Branch -> Nat]
  BY DEF BranchInv, TypeOK
<1>2. /\ asks' = [asks EXCEPT ![b] = Append(asks[b], t)]
      /\ asked' = [asked EXCEPT ![b] = asked[b] + 1]
  BY DEF Ask
<1>3. Append(asks[b], t) \in Seq(Task) /\ asked[b] + 1 \in Nat
  BY ONLY <1>1, b \in Branch, t \in Task
<1>4. asks' \in [Branch -> Seq(Task)] /\ asked' \in [Branch -> Nat]
  BY ONLY <1>1, <1>2, <1>3
<1> QED
  BY <1>4, BranchQuiet DEF Ask

LEMMA TailOfAsks ==
  ASSUME TypeOK, NEW b \in Branch, asks[b] # <<>>,
         asks' = [asks EXCEPT ![b] = Tail(@)]
  PROVE  asks' \in [Branch -> Seq(Task)]
<1>1. Tail(asks[b]) \in Seq(Task)
  BY DEF TypeOK
<1> QED
  BY <1>1 DEF TypeOK

LEMMA RefuseInvariant ==
  ASSUME BranchInv, NEW b \in Branch, refuse_sub_chat(b)
  PROVE  BranchInv'
<1>1. asks' \in [Branch -> Seq(Task)] /\ asked' \in [Branch -> Nat]
  BY TailOfAsks DEF BranchInv, TypeOK, refuse_sub_chat
<1> QED
  BY <1>1, BranchQuiet DEF refuse_sub_chat

\* The reply of a call is the last of its branch and has the last index.
LEMMA OpenInvariant ==
  ASSUME BranchInv, NEW b \in Branch, open_sub_chat(b)
  PROVE  BranchInv'
<1> DEFINE n == sub_chat_counter[b]
           r == [run |-> run, call_index |-> n]
<1>0. TypeOK /\ RepliesAreCounted /\ IndicesRise /\ CallsAreAccountedFor
  BY DEF BranchInv
<1>1. n \in 0..sub_chat_limit - 1 /\ run \in 1..MaxRuns
  BY <1>0 DEF TypeOK, open_sub_chat, can_open_more, sub_chat_limit
<1>2. /\ sub_chat_counter' = [sub_chat_counter EXCEPT ![b] = n + 1]
      /\ sub_chat_counter' \in [Branch -> 0..sub_chat_limit]
      /\ sub_chat_counter'[b] - 1 = n
  BY <1>0, <1>1 DEF TypeOK, open_sub_chat, sub_chat_limit
<1>3. asks' \in [Branch -> Seq(Task)] /\ asked' = asked /\ run' = run
  BY <1>0, TailOfAsks DEF open_sub_chat
<1>4. r \in Reply /\ r.run = run /\ r.call_index = n
  BY <1>1 DEF Reply
<1>5. Deliver(b, n)
  BY <1>2 DEF open_sub_chat
<1>6. \A c \in Branch : sub_chat_counter'[c] = IF c = b THEN n + 1 ELSE sub_chat_counter[c]
  BY <1>0, <1>2 DEF TypeOK
<1> HIDE DEF r
<1>7. CASE replies' = [replies EXCEPT ![b] = Append(@, r)] /\ UNCHANGED lost
  <2> DEFINE l == Len(replies[b])
  <2>1. /\ replies' \in [Branch -> Seq(Reply)]
        /\ \A c \in Branch : c # b => replies'[c] = replies[c]
        /\ replies'[b] = Append(replies[b], r)
    BY <1>0, <1>4, <1>7 DEF TypeOK
  <2>2. /\ l \in Nat /\ DOMAIN replies[b] = 1..l /\ DOMAIN replies'[b] = 1..l + 1
        /\ \A i \in 1..l : replies'[b][i] = replies[b][i] /\ replies[b][i] \in Reply
        /\ replies'[b][l + 1] = r
    BY <1>0, <1>4, <2>1 DEF TypeOK
  <2> HIDE DEF l
  <2>3. TypeOK'
    BY <1>0, <1>2, <1>3, <1>7, <2>1 DEF TypeOK
  <2>4. RepliesAreCounted'
    <3> SUFFICES ASSUME NEW c \in Branch, NEW i \in DOMAIN replies'[c]
                 PROVE  /\ replies'[c][i].run <= run
                        /\ replies'[c][i].run = run
                             => replies'[c][i].call_index < sub_chat_counter'[c]
      BY <1>3 DEF RepliesAreCounted
    <3>1. CASE c # b
      BY <1>0, <1>6, <2>1, <3>1 DEF RepliesAreCounted
    <3>2. CASE c = b /\ i \in 1..l
      <4>1. /\ replies[b][i].run <= run
            /\ replies[b][i].run = run => replies[b][i].call_index < n
        BY <1>0, <2>2, <3>2 DEF RepliesAreCounted
      <4>2. replies[b][i].call_index \in Nat
        BY <1>0, <2>2, <3>2, RepliesAreTyped
      <4>3. n < n + 1 /\ n \in Nat
        BY <1>1 DEF sub_chat_limit
      <4>4. replies'[c][i] = replies[b][i] /\ sub_chat_counter'[c] = n + 1
        BY <1>6, <2>2, <3>2
      <4> HIDE DEF n
      <4> QED
        BY <4>1, <4>2, <4>3, <4>4
    <3>3. CASE c = b /\ i = l + 1
      BY <1>1, <1>4, <1>6, <2>2, <3>3
    <3> QED
      BY <2>2, <3>1, <3>2, <3>3
  <2>5. IndicesRise'
    <3> SUFFICES ASSUME NEW c \in Branch, NEW i \in DOMAIN replies'[c],
                        NEW j \in DOMAIN replies'[c], i < j
                 PROVE  LET x == replies'[c][i]  y == replies'[c][j]
                        IN x.run < y.run \/ (x.run = y.run /\ x.call_index < y.call_index)
      BY DEF IndicesRise
    <3>1. CASE c # b
      <4>1. replies'[c] = replies[c]
        BY <2>1, <3>1
      <4> QED
        BY <1>0, <4>1 DEF IndicesRise
    <3>2. CASE c = b /\ j \in 1..l
      <4>1. i \in 1..l
        BY <2>2, <3>2
      <4>2. replies'[c][i] = replies[b][i] /\ replies'[c][j] = replies[b][j]
        BY <2>2, <3>2, <4>1
      <4> QED
        BY <1>0, <2>2, <3>2, <4>1, <4>2 DEF IndicesRise
    <3>3. CASE c = b /\ j = l + 1
      <4>1. /\ i \in 1..l
            /\ replies[b][i].run <= run
            /\ replies[b][i].run = run => replies[b][i].call_index < n
            /\ replies[b][i].run \in Nat
        BY <1>0, <2>2, <3>3, RepliesAreTyped DEF RepliesAreCounted
      <4>2. replies'[c][i] = replies[b][i] /\ replies'[c][j] = r
        BY <2>2, <3>3, <4>1
      <4>3. CASE replies[b][i].run = run
        BY <1>4, <4>1, <4>2, <4>3
      <4>4. CASE replies[b][i].run # run
        BY <1>1, <1>4, <4>1, <4>2, <4>4
      <4> QED
        BY <4>3, <4>4
    <3> QED
      BY <2>2, <3>1, <3>2, <3>3
  <2>6. CallsAreAccountedFor'
    <3> SUFFICES ASSUME NEW c \in Branch
                 PROVE  sub_chat_counter'[c] = Cardinality(ReceivedInRun(c, run)') + lost'[c]
      BY <1>3 DEF CallsAreAccountedFor
    <3>0. sub_chat_counter[c] = Cardinality(ReceivedInRun(c, run)) + lost[c]
      BY <1>0 DEF CallsAreAccountedFor
    <3>1. CASE c # b
      <4>1. ReceivedInRun(c, run)' = ReceivedInRun(c, run)
        BY <1>3, <2>1, <3>1 DEF ReceivedInRun
      <4> QED
        BY <1>6, <1>7, <3>0, <3>1, <4>1
    <3>2. CASE c = b
      <4>1. ReceivedInRun(b, run)' = ReceivedInRun(b, run) \cup {l + 1}
        BY <1>3, <1>4, <2>2 DEF ReceivedInRun
      <4>2. l + 1 \notin ReceivedInRun(b, run)
        BY <2>2 DEF ReceivedInRun
      <4>3. IsFiniteSet(ReceivedInRun(b, run))
        BY <1>0, ReceivedIsFinite
      <4>4. /\ Cardinality(ReceivedInRun(b, run)) \in Nat
            /\ Cardinality(ReceivedInRun(b, run)') = Cardinality(ReceivedInRun(b, run)) + 1
        BY <4>1, <4>2, <4>3, FS_AddElement, FS_CardinalityType
      <4>5. lost'[b] = lost[b] /\ lost[b] \in Nat
        BY <1>0, <1>7 DEF TypeOK
      <4> QED
        BY <1>1, <1>6, <3>0, <3>2, <4>4, <4>5
    <3> QED
      BY <3>1, <3>2
  <2> QED
    BY <2>3, <2>4, <2>5, <2>6 DEF BranchInv
<1>8. CASE lost' = [lost EXCEPT ![b] = @ + 1] /\ UNCHANGED replies
  <2>1. TypeOK'
    BY <1>0, <1>2, <1>3, <1>8 DEF TypeOK
  <2>2. RepliesAreCounted' /\ IndicesRise'
    <3>1. IndicesRise'
      BY <1>0, <1>8 DEF IndicesRise
    <3>2. ASSUME NEW c \in Branch, NEW i \in DOMAIN replies[c]
          PROVE  /\ replies[c][i].run <= run
                 /\ replies[c][i].run = run => replies[c][i].call_index < sub_chat_counter'[c]
      <4>1. replies[c][i].call_index \in Nat
        BY <1>0, RepliesAreTyped
      <4>2. /\ replies[c][i].run <= run
            /\ replies[c][i].run = run => replies[c][i].call_index < sub_chat_counter[c]
        BY <1>0 DEF RepliesAreCounted
      <4> QED
        BY <1>1, <1>6, <4>1, <4>2
    <3> QED
      BY <1>3, <1>8, <3>1, <3>2 DEF RepliesAreCounted
  <2>3. CallsAreAccountedFor'
    <3> SUFFICES ASSUME NEW c \in Branch
                 PROVE  sub_chat_counter'[c] = Cardinality(ReceivedInRun(c, run)) + lost'[c]
      BY <1>3, <1>8 DEF CallsAreAccountedFor, ReceivedInRun
    <3>1. sub_chat_counter[c] = Cardinality(ReceivedInRun(c, run)) + lost[c]
      BY <1>0 DEF CallsAreAccountedFor
    <3>2. Cardinality(ReceivedInRun(c, run)) \in Nat /\ lost[c] \in Nat
      BY <1>0, ReceivedIsFinite, FS_CardinalityType DEF TypeOK
    <3>3. lost'[c] = IF c = b THEN lost[c] + 1 ELSE lost[c]
      BY <1>0, <1>8 DEF TypeOK
    <3> QED
      BY <1>1, <1>6, <3>1, <3>2, <3>3
  <2> QED
    BY <2>1, <2>2, <2>3 DEF BranchInv
<1> QED
  BY <1>5, <1>7, <1>8 DEF Deliver, r

\* After a restart no reply is of the new run yet.
LEMMA RestartInvariant ==
  ASSUME BranchInv, Restart
  PROVE  BranchInv'
<1>0. TypeOK /\ RepliesAreCounted /\ IndicesRise
  BY DEF BranchInv
<1>1. run' = run + 1 /\ run' \in 1..MaxRuns /\ replies' = replies
  BY <1>0 DEF Restart, TypeOK
<1>2. TypeOK'
  BY <1>0, <1>1 DEF Restart, TypeOK, sub_chat_limit
<1>3. IndicesRise'
  BY <1>0, <1>1 DEF IndicesRise
<1>4. \A b \in Branch : \A i \in DOMAIN replies[b] :
        replies[b][i].run <= run /\ replies[b][i].run \in Nat
  BY <1>0, RepliesAreTyped DEF RepliesAreCounted
<1>5. RepliesAreCounted'
  BY <1>0, <1>1, <1>4 DEF RepliesAreCounted, TypeOK
<1>6. \A b \in Branch : ReceivedInRun(b, run)' = {}
  BY <1>0, <1>1, <1>4 DEF ReceivedInRun, TypeOK
<1>7. CallsAreAccountedFor'
  BY <1>6, FS_EmptySet DEF Restart, CallsAreAccountedFor
<1> QED
  BY <1>2, <1>3, <1>5, <1>7 DEF BranchInv

-----------------------------------------------------------------------------
(* The results at the root *)

\* What the root holds, delivered or lost are replies that were handed over.
LEMMA Places ==
  ASSUME BranchInv, RootInv, NEW b \in Branch
  PROVE  /\ taken[b] \in Nat /\ Len(replies[b]) \in Nat /\ taken[b] <= Len(replies[b])
         /\ DOMAIN replies[b] = 1..Len(replies[b])
         /\ branch_results[b] \in 0..taken[b]
         /\ Delivered(b) \subseteq 1..taken[b]
         /\ gone[b] \subseteq 1..taken[b]
<1>1. /\ taken[b] \in Nat /\ Len(replies[b]) \in Nat /\ taken[b] <= Len(replies[b])
      /\ DOMAIN replies[b] = 1..Len(replies[b])
      /\ branch_results[b] \in Nat
  BY DEF RootInv, RootTypeOK, TypeOK
<1>2. 1..taken[b] = Delivered(b) \cup Stored(b) \cup gone[b]
  BY DEF RootInv, RecordedIsAccountedFor
<1>3. branch_results[b] \in 0..taken[b]
  BY <1>1, <1>2 DEF Stored, NoResult
<1> QED
  BY <1>1, <1>2, <1>3

LEMMA DeliveredIsDelivered ==
  ASSUME NEW b \in Branch, NEW k \in DOMAIN deliveries, deliveries[k][b] # NoResult
  PROVE  deliveries[k][b] \in Delivered(b)
  BY DEF Delivered

LEMMA RootInitial == RootInit => RootInv
<1> SUFFICES ASSUME RootInit PROVE RootInv
  OBVIOUS
<1>1. TypeOK /\ deliveries = <<>> /\ \A b \in Branch : replies[b] = <<>>
  BY BranchInit DEF RootInit, BranchInv, Init
<1>2. RootTypeOK
  <2>1. /\ branch_results \in [Branch -> Nat]
        /\ late \in BOOLEAN
        /\ taken \in [Branch -> Nat]
        /\ gone \in [Branch -> SUBSET Nat]
    BY DEF RootInit, NewState, NoResult
  <2>2. deliveries \in Seq([Branch -> Nat])
    BY <1>1
  <2>3. \A b \in Branch : taken[b] <= Len(replies[b])
    BY <1>1 DEF RootInit
  <2> QED
    BY <1>1, <2>1, <2>2, <2>3 DEF RootTypeOK
<1>3. OneIsStored
  BY DEF RootInit, OneIsStored, NewState, Branch
<1>4. OfThisRun
  BY <1>1 DEF RootInit, OfThisRun, NewState
<1>5. DeliveredOnce
  BY <1>1 DEF DeliveredOnce
<1>6. RecordedIsAccountedFor
  BY <1>1 DEF RootInit, RecordedIsAccountedFor, Delivered, Stored, NewState
<1>7. StoredIsNewest
  BY DEF RootInit, StoredIsNewest, NewState
<1> QED
  BY <1>2, <1>3, <1>4, <1>5, <1>6, <1>7 DEF RootInv

\* A step of a branch may add replies of this run at the end, and nothing else.
RepliesGrow ==
  \A b \in Branch :
    /\ Len(replies[b]) <= Len(replies'[b])
    /\ \A i \in 1..Len(replies[b]) : replies'[b][i] = replies[b][i]
    /\ \A i \in Len(replies[b]) + 1..Len(replies'[b]) : replies'[b][i].run = run

LEMMA OpenGrows ==
  ASSUME BranchInv, NEW b \in Branch, open_sub_chat(b)
  PROVE  RepliesGrow /\ run' = run
<1> DEFINE r == [run |-> run, call_index |-> sub_chat_counter'[b] - 1]
<1>1. run' = run /\ replies \in [Branch -> Seq(Reply)] /\ r.run = run
  BY DEF BranchInv, TypeOK, open_sub_chat
<1> HIDE DEF r
<1>2. \/ replies' = [replies EXCEPT ![b] = Append(@, r)]
      \/ replies' = replies
  BY DEF open_sub_chat, Deliver, r
<1>3. CASE replies' = replies
  BY <1>1, <1>3 DEF RepliesGrow
<1>4. CASE replies' = [replies EXCEPT ![b] = Append(@, r)]
  <2>1. /\ replies'[b] = Append(replies[b], r)
        /\ replies[b] \in Seq(Reply)
        /\ \A c \in Branch \ {b} : replies'[c] = replies[c]
    BY <1>1, <1>4
  <2>2. /\ Len(replies[b]) \in Nat
        /\ Len(replies'[b]) = Len(replies[b]) + 1
        /\ replies'[b][Len(replies[b]) + 1] = r
        /\ \A i \in 1..Len(replies[b]) : replies'[b][i] = replies[b][i]
    BY <2>1
  <2>3. \A c \in Branch \ {b} : Len(replies[c]) \in Nat
    BY <1>1
  <2> SUFFICES ASSUME NEW c \in Branch
               PROVE  /\ Len(replies[c]) <= Len(replies'[c])
                      /\ \A i \in 1..Len(replies[c]) : replies'[c][i] = replies[c][i]
                      /\ \A i \in Len(replies[c]) + 1..Len(replies'[c]) :
                           replies'[c][i].run = run
    BY <1>1 DEF RepliesGrow
  <2>4. CASE c = b
    BY <1>1, <2>2, <2>4
  <2>5. CASE c # b
    BY <2>1, <2>3, <2>5
  <2> QED
    BY <2>4, <2>5
<1> QED
  BY <1>1, <1>2, <1>3, <1>4

\* The root's state stands still while the branches answer.
LEMMA GrowthKeepsRoot ==
  ASSUME BranchInv, BranchInv', RootInv, RepliesGrow, run' = run, UNCHANGED rootVars
  PROVE  RootInv'
<1>1. \A b \in Branch : Delivered(b)' = Delivered(b) /\ Stored(b)' = Stored(b)
  BY DEF Delivered, Stored, rootVars
<1>2. \A b \in Branch : Len(replies'[b]) \in Nat
  BY DEF BranchInv, TypeOK
<1>3. RootTypeOK'
  <2>1. ASSUME NEW b \in Branch PROVE taken[b] <= Len(replies'[b])
    BY <1>2, Places DEF RepliesGrow
  <2> QED
    BY <2>1 DEF RootInv, RootTypeOK, BranchInv, rootVars
<1>4. OneIsStored'
  BY DEF RootInv, OneIsStored, rootVars
<1>5. OfThisRun'
  <2> SUFFICES ASSUME NEW b \in Branch
               PROVE  /\ branch_results[b] # NoResult => replies'[b][branch_results[b]].run = run
                      /\ \A i \in taken[b] + 1..Len(replies'[b]) : replies'[b][i].run = run
    BY DEF OfThisRun, rootVars
  <2>1. /\ branch_results[b] # NoResult => replies[b][branch_results[b]].run = run
        /\ \A i \in taken[b] + 1..Len(replies[b]) : replies[b][i].run = run
    BY DEF RootInv, OfThisRun
  <2>2. branch_results[b] # NoResult => branch_results[b] \in 1..Len(replies[b])
    BY Places DEF NoResult
  <2>3. ASSUME NEW i \in taken[b] + 1..Len(replies'[b])
        PROVE  replies'[b][i].run = run
    <3>1. CASE i \in 1..Len(replies[b])
      BY <2>1, <3>1, Places DEF RepliesGrow
    <3>2. CASE i \in Len(replies[b]) + 1..Len(replies'[b])
      BY <3>2 DEF RepliesGrow
    <3> QED
      BY <1>2, <3>1, <3>2, Places
  <2> QED
    BY <2>1, <2>2, <2>3 DEF RepliesGrow
<1>6. DeliveredOnce'
  <2>1. ASSUME NEW k \in DOMAIN deliveries,
               \A b \in Branch : deliveries[k][b] # NoResult,
               NEW c \in Branch
        PROVE  replies'[c][deliveries[k][c]] = replies[c][deliveries[k][c]]
    <3>1. deliveries[k][c] \in 1..Len(replies[c])
      BY <2>1, Places, DeliveredIsDelivered
    <3> QED
      BY <3>1 DEF RepliesGrow
  <2> QED
    BY <2>1 DEF RootInv, DeliveredOnce, rootVars, Branch
<1>7. RecordedIsAccountedFor'
  BY <1>1 DEF RootInv, RecordedIsAccountedFor, rootVars
<1>8. StoredIsNewest'
  BY <1>1 DEF RootInv, StoredIsNewest, rootVars
<1> QED
  BY <1>3, <1>4, <1>5, <1>6, <1>7, <1>8 DEF RootInv

\* What is delivered is newer than all before and of this run, so that nothing is
\* delivered twice or after a newer result.
LEMMA DeliverNew ==
  ASSUME BranchInv, RootInv, NEW d \in [Branch -> Nat],
         deliveries' = Append(deliveries, d), replies' = replies,
         \A b \in Branch : d[b] # NoResult =>
           /\ \A i \in Delivered(b) : i < d[b]
           /\ replies[b][d[b]].run = run
  PROVE  /\ DeliveredOnce'
         /\ deliveries' \in Seq([Branch -> Nat])
         /\ deliveries' # deliveries
         /\ \A b \in Branch : Delivered(b)' = Delivered(b) \cup ({d[b]} \ {NoResult})
<1> DEFINE n == Len(deliveries)
<1>1. deliveries \in Seq([Branch -> Nat]) /\ DeliveredOnce
  BY DEF RootInv, RootTypeOK
<1>2. /\ n \in Nat /\ DOMAIN deliveries = 1..n /\ DOMAIN deliveries' = 1..n + 1
      /\ deliveries' \in Seq([Branch -> Nat])
      /\ \A k \in 1..n : deliveries'[k] = deliveries[k]
      /\ deliveries'[n + 1] = d
      /\ Len(deliveries') = n + 1 /\ Len(deliveries) = n
  BY <1>1
<1> HIDE DEF n
<1>3. deliveries' # deliveries
  <2> SUFFICES ASSUME deliveries' = deliveries PROVE FALSE
    OBVIOUS
  <2>1. n + 1 = n
    BY <1>2
  <2> QED
    BY <1>2, <2>1
<1>4. ASSUME NEW b \in Branch
      PROVE  Delivered(b)' = Delivered(b) \cup ({d[b]} \ {NoResult})
  <2>1. 1..n + 1 = 1..n \cup {n + 1}
    BY <1>2
  <2>2. {deliveries'[k][b] : k \in DOMAIN deliveries'}
          = {deliveries[k][b] : k \in DOMAIN deliveries} \cup {d[b]}
    <3>1. ASSUME NEW k \in 1..n + 1
          PROVE  deliveries'[k][b] \in {deliveries[i][b] : i \in 1..n} \cup {d[b]}
      BY <1>2, <2>1
    <3>2. ASSUME NEW k \in 1..n
          PROVE  deliveries[k][b] \in {deliveries'[i][b] : i \in 1..n + 1}
      BY <1>2, <2>1
    <3>3. d[b] \in {deliveries'[i][b] : i \in 1..n + 1}
      BY <1>2, <2>1
    <3> QED
      BY <1>2, <3>1, <3>2, <3>3
  <2> QED
    BY <2>2 DEF Delivered
<1>5. ASSUME NEW j \in 1..n + 1, NEW k \in 1..n + 1, NEW b \in Branch,
             j < k, deliveries'[j][b] # NoResult, deliveries'[k][b] # NoResult
      PROVE  deliveries'[j][b] < deliveries'[k][b]
  <2>1. CASE j \in 1..n /\ k \in 1..n
    <3>1. deliveries'[j] = deliveries[j] /\ deliveries'[k] = deliveries[k]
      BY <1>2, <2>1
    <3>2. /\ j \in DOMAIN deliveries /\ k \in DOMAIN deliveries
          /\ deliveries[j][b] # NoResult /\ deliveries[k][b] # NoResult
      BY <1>2, <1>5, <2>1, <3>1
    <3> QED
      BY <1>1, <1>5, <3>1, <3>2 DEF DeliveredOnce
  <2>2. CASE j \in 1..n /\ k = n + 1
    <3>1. deliveries[j][b] \in Delivered(b)
      BY <1>2, <1>5, <2>2, DeliveredIsDelivered
    <3>2. deliveries[j][b] < d[b]
      BY <1>2, <1>5, <2>2, <3>1
    <3> QED
      BY <1>2, <2>2, <3>2
  <2>3. j \in 1..n /\ (k \in 1..n \/ k = n + 1)
    <3>1. n \in Nat /\ j \in 1..n + 1 /\ k \in 1..n + 1 /\ j < k
      BY <1>2, <1>5
    <3> QED
      BY ONLY <3>1
  <2> QED
    BY <2>1, <2>2, <2>3
<1>6. ASSUME NEW k \in 1..n + 1, \A b \in Branch : deliveries'[k][b] # NoResult
      PROVE  replies["A"][deliveries'[k]["A"]].run = replies["B"][deliveries'[k]["B"]].run
  <2>1. CASE k \in 1..n
    BY <1>1, <1>2, <1>6, <2>1 DEF DeliveredOnce
  <2>2. CASE k = n + 1
    BY <1>2, <1>6, <2>2 DEF Branch
  <2> QED
    BY <1>2, <2>1, <2>2
<1>7. DeliveredOnce'
  <2>1. \A j, k \in DOMAIN deliveries', b \in Branch :
          j < k /\ deliveries'[j][b] # NoResult /\ deliveries'[k][b] # NoResult
            => deliveries'[j][b] < deliveries'[k][b]
    BY <1>2, <1>5
  <2>2. \A k \in DOMAIN deliveries' :
          (\A b \in Branch : deliveries'[k][b] # NoResult)
            => replies'["A"][deliveries'[k]["A"]].run = replies'["B"][deliveries'[k]["B"]].run
    BY <1>2, <1>6
  <2> QED
    BY ONLY <2>1, <2>2 DEF DeliveredOnce
<1> QED
  BY <1>2, <1>3, <1>4, <1>7

\* The result of a call is new: it is neither stored, delivered nor gone, and comes
\* after all that is.
LEMMA ResultIsNew ==
  ASSUME BranchInv, RootInv, NEW b \in Branch, taken[b] < Len(replies[b])
  PROVE  /\ Result(b) \in Nat /\ Result(b) # NoResult
         /\ Result(b) \in 1..Len(replies[b])
         /\ 1..Result(b) = 1..taken[b] \cup {Result(b)}
         /\ Result(b) \notin Delivered(b) \cup Stored(b) \cup gone[b]
         /\ \A i \in Delivered(b) : i < Result(b)
         /\ replies[b][Result(b)].run = run
<1>1. taken[b] \in Nat /\ Len(replies[b]) \in Nat
  BY Places
<1>2. Result(b) \notin 1..taken[b]
  BY <1>1 DEF Result
<1>3. 1..taken[b] = Delivered(b) \cup Stored(b) \cup gone[b]
  BY DEF RootInv, RecordedIsAccountedFor
<1>4. replies[b][Result(b)].run = run
  BY <1>1 DEF RootInv, OfThisRun, Result
<1>5. \A i \in 1..taken[b] : i < Result(b)
  BY <1>1 DEF Result
<1> QED
  BY <1>1, <1>2, <1>3, <1>4, <1>5 DEF Result, NoResult

\* The calls of record_and_decide leave the branches alone.
LEMMA RecordTypes ==
  ASSUME BranchInv, RootInv, NEW b \in Branch, record_and_decide(b)
  PROVE  /\ UNCHANGED vars
         /\ taken' \in [Branch -> Nat]
         /\ taken'[b] = Result(b)
         /\ gone' \in [Branch -> SUBSET Nat]
         /\ \A c \in Branch : taken'[c] <= Len(replies[c])
         /\ \A c \in Branch \ {b} : taken'[c] = taken[c] /\ gone'[c] = gone[c]
         /\ \A i \in taken'[b] + 1..Len(replies[b]) : replies[b][i].run = run
<1>1. /\ taken \in [Branch -> Nat] /\ gone \in [Branch -> SUBSET Nat]
      /\ branch_results \in [Branch -> Nat]
      /\ \A c \in Branch : taken[c] <= Len(replies[c])
  BY DEF RootInv, RootTypeOK
<1>2. Result(b) \in Nat /\ Result(b) \in 1..Len(replies[b])
  BY ResultIsNew DEF record_and_decide
<1>3. Superseded(b) \subseteq Nat
  BY <1>1 DEF Superseded
<1>4. taken' = [taken EXCEPT ![b] = Result(b)] /\ UNCHANGED vars
  BY DEF record_and_decide, Result
<1>5. gone' \in [Branch -> SUBSET Nat] /\ \A c \in Branch \ {b} : gone'[c] = gone[c]
  BY <1>1, <1>2, <1>3 DEF record_and_decide
<1>6. taken[b] \in Nat /\ Len(replies[b]) \in Nat
  BY Places
<1>7. \A i \in taken'[b] + 1..Len(replies[b]) : replies[b][i].run = run
  BY <1>1, <1>4, <1>6 DEF RootInv, OfThisRun, Result
<1>8. \A c \in Branch : taken'[c] = IF c = b THEN Result(b) ELSE taken[c]
  BY <1>1, <1>4
<1>9. \A c \in Branch : taken'[c] <= Len(replies[c])
  <2>1. Result(b) <= Len(replies[b])
    BY <1>2, <1>6
  <2> QED
    BY <1>1, <1>8, <2>1
<1>10. taken' \in [Branch -> Nat]
  BY <1>1, <1>2, <1>4
<1> HIDE DEF Result
<1> QED
  BY <1>4, <1>5, <1>7, <1>8, <1>9, <1>10

\* What a call does, by the three ways it can end: the other branch keeps its account.
LEMMA FullDeliveryInvariant ==
  ASSUME BranchInv, RootInv, NEW b \in Branch, record_and_decide(b), FullDelivery(b)
  PROVE  RootInv'
<1> DEFINE m == Result(b)
           d == mark_finished(b)
<1>0. /\ branch_results \in [Branch -> Nat] /\ taken[b] < Len(replies[b])
      /\ UNCHANGED <<vars, replies, run>>
  BY DEF RootInv, RootTypeOK, record_and_decide, vars
<1>1. /\ m \in Nat /\ m # NoResult /\ 1..m = 1..taken[b] \cup {m}
      /\ m \notin Delivered(b) \cup Stored(b) \cup gone[b] /\ replies[b][m].run = run
      /\ \A i \in Delivered(b) : i < m
  BY <1>0, ResultIsNew
<1> HIDE DEF m
<1>2. /\ d \in [Branch -> Nat] /\ d[b] = m
      /\ \A c \in Branch \ {b} : d[c] = branch_results[c]
  BY <1>0, <1>1 DEF mark_finished, m
<1> HIDE DEF d
<1>3. /\ deliveries' = Append(deliveries, d) /\ branch_results' = NewState /\ late' = FALSE
      /\ branch_results[b] = NoResult
  BY DEF FullDelivery, DeliverAndWipe, RootInv, OneIsStored, Branch, Other, d
<1>4. \A c \in Branch : d[c] # NoResult => /\ \A i \in Delivered(c) : i < d[c]
                                         /\ replies[c][d[c]].run = run
  BY <1>1, <1>2 DEF RootInv, OfThisRun, StoredIsNewest
<1>5. /\ DeliveredOnce'
      /\ deliveries' \in Seq([Branch -> Nat])
      /\ deliveries' # deliveries
      /\ \A c \in Branch : Delivered(c)' = Delivered(c) \cup ({d[c]} \ {NoResult})
  BY <1>0, <1>2, <1>3, <1>4, DeliverNew
<1>6. gone'[b] = gone[b]
  BY <1>3, <1>5 DEF record_and_decide, Superseded, RootInv, RootTypeOK
<1>7. /\ \A c \in Branch : branch_results'[c] = NoResult /\ Stored(c)' = {}
      /\ branch_results' \in [Branch -> Nat]
  BY <1>3 DEF NewState, Stored, NoResult
<1>8. /\ taken' \in [Branch -> Nat] /\ gone' \in [Branch -> SUBSET Nat]
      /\ taken'[b] = m
      /\ \A c \in Branch : taken'[c] <= Len(replies[c])
      /\ \A c \in Branch \ {b} : taken'[c] = taken[c] /\ gone'[c] = gone[c]
      /\ \A i \in taken'[b] + 1..Len(replies[b]) : replies[b][i].run = run
  BY RecordTypes DEF m
<1>9. RecordedIsAccountedFor'
  <2> SUFFICES ASSUME NEW c \in Branch
               PROVE  /\ 1..taken'[c] = Delivered(c)' \cup Stored(c)' \cup gone'[c]
                      /\ Delivered(c)' \cap Stored(c)' = {}
                      /\ gone'[c] \cap (Delivered(c)' \cup Stored(c)') = {}
    BY DEF RecordedIsAccountedFor
  <2>1. /\ 1..taken[c] = Delivered(c) \cup Stored(c) \cup gone[c]
        /\ gone[c] \cap (Delivered(c) \cup Stored(c)) = {}
    BY DEF RootInv, RecordedIsAccountedFor
  <2>2. CASE c = b
    <3>1. Stored(b) = {}
      BY <1>3 DEF Stored
    <3>2. Delivered(b)' = Delivered(b) \cup {m}
      BY <1>1, <1>2, <1>5
    <3> QED
      BY <1>1, <1>6, <1>7, <1>8, <2>1, <2>2, <3>1, <3>2
  <2>3. CASE c # b
    <3>1. Delivered(c)' = Delivered(c) \cup Stored(c)
      BY <1>2, <1>5, <2>3 DEF Stored
    <3> QED
      BY <1>7, <1>8, <2>1, <2>3, <3>1
  <2> QED
    BY <2>2, <2>3
<1>10. OfThisRun'
  BY <1>0, <1>7, <1>8 DEF RootInv, OfThisRun
<1>11. OneIsStored'
  BY <1>7 DEF OneIsStored, Branch
<1>12. RootTypeOK'
  BY <1>0, <1>3, <1>5, <1>7, <1>8 DEF RootInv, RootTypeOK, BranchInv, TypeOK, vars
<1>13. StoredIsNewest'
  BY <1>7 DEF StoredIsNewest
<1> QED
  BY <1>5, <1>9, <1>10, <1>11, <1>12, <1>13 DEF RootInv

LEMMA PartialDeliveryInvariant ==
  ASSUME BranchInv, RootInv, NEW b \in Branch, record_and_decide(b), PartialDelivery(b)
  PROVE  RootInv'
<1> DEFINE m == Result(b)
           d == [NewState EXCEPT ![b] = m]
<1>0. /\ branch_results \in [Branch -> Nat] /\ taken[b] < Len(replies[b])
      /\ UNCHANGED <<vars, replies, run>>
  BY DEF RootInv, RootTypeOK, record_and_decide, vars
<1>1. /\ m \in Nat /\ m # NoResult /\ 1..m = 1..taken[b] \cup {m}
      /\ m \notin Delivered(b) \cup Stored(b) \cup gone[b] /\ replies[b][m].run = run
      /\ \A i \in Delivered(b) : i < m
  BY <1>0, ResultIsNew
<1>3. /\ deliveries' = Append(deliveries, d) /\ branch_results' = NewState /\ late' = FALSE
      /\ \A c \in Branch \ {b} : branch_results[c] = NoResult
  BY DEF PartialDelivery, DeliverAndWipe, Branch, Other
<1> HIDE DEF m
<1>2. /\ d \in [Branch -> Nat] /\ d[b] = m
      /\ \A c \in Branch \ {b} : d[c] = NoResult
  BY <1>1 DEF NewState, NoResult
<1> HIDE DEF d
<1>4. \A c \in Branch : d[c] # NoResult => /\ \A i \in Delivered(c) : i < d[c]
                                         /\ replies[c][d[c]].run = run
  BY <1>1, <1>2
<1>5. /\ DeliveredOnce'
      /\ deliveries' \in Seq([Branch -> Nat])
      /\ deliveries' # deliveries
      /\ \A c \in Branch : Delivered(c)' = Delivered(c) \cup ({d[c]} \ {NoResult})
  BY <1>0, <1>2, <1>3, <1>4, DeliverNew
<1>6. gone'[b] = gone[b] \cup Stored(b)
  BY <1>5 DEF record_and_decide, Superseded, Stored, RootInv, RootTypeOK
<1>7. /\ \A c \in Branch : branch_results'[c] = NoResult /\ Stored(c)' = {}
      /\ branch_results' \in [Branch -> Nat]
  BY <1>3 DEF NewState, Stored, NoResult
<1>8. /\ taken' \in [Branch -> Nat] /\ gone' \in [Branch -> SUBSET Nat]
      /\ taken'[b] = m
      /\ \A c \in Branch : taken'[c] <= Len(replies[c])
      /\ \A c \in Branch \ {b} : taken'[c] = taken[c] /\ gone'[c] = gone[c]
      /\ \A i \in taken'[b] + 1..Len(replies[b]) : replies[b][i].run = run
  BY RecordTypes DEF m
<1>9. RecordedIsAccountedFor'
  <2> SUFFICES ASSUME NEW c \in Branch
               PROVE  /\ 1..taken'[c] = Delivered(c)' \cup Stored(c)' \cup gone'[c]
                      /\ Delivered(c)' \cap Stored(c)' = {}
                      /\ gone'[c] \cap (Delivered(c)' \cup Stored(c)') = {}
    BY DEF RecordedIsAccountedFor
  <2>1. /\ 1..taken[c] = Delivered(c) \cup Stored(c) \cup gone[c]
        /\ Delivered(c) \cap Stored(c) = {}
        /\ gone[c] \cap (Delivered(c) \cup Stored(c)) = {}
    BY DEF RootInv, RecordedIsAccountedFor
  <2>2. CASE c = b
    <3>1. Delivered(b)' = Delivered(b) \cup {m}
      BY <1>1, <1>2, <1>5
    <3> QED
      BY <1>1, <1>6, <1>7, <1>8, <2>1, <2>2, <3>1
  <2>3. CASE c # b
    <3>1. Delivered(c)' = Delivered(c) /\ Stored(c) = {}
      BY <1>2, <1>3, <1>5, <2>3 DEF Stored
    <3> QED
      BY <1>7, <1>8, <2>1, <2>3, <3>1
  <2> QED
    BY <2>2, <2>3
<1>10. OfThisRun'
  BY <1>0, <1>7, <1>8 DEF RootInv, OfThisRun
<1>11. OneIsStored'
  BY <1>7 DEF OneIsStored, Branch
<1>12. RootTypeOK'
  BY <1>0, <1>3, <1>5, <1>7, <1>8 DEF RootInv, RootTypeOK, BranchInv, TypeOK, vars
<1>13. StoredIsNewest'
  BY <1>7 DEF StoredIsNewest
<1> QED
  BY <1>5, <1>9, <1>10, <1>11, <1>12, <1>13 DEF RootInv

LEMMA PanicInvariant ==
  ASSUME BranchInv, RootInv, NEW b \in Branch, record_and_decide(b), PanicInTime(b)
  PROVE  RootInv'
<1> DEFINE m == Result(b)
<1>0. /\ branch_results \in [Branch -> Nat] /\ taken[b] < Len(replies[b])
      /\ UNCHANGED <<vars, replies, run, deliveries>>
      /\ late' \in BOOLEAN
  BY DEF RootInv, RootTypeOK, record_and_decide, PanicInTime, vars
<1>1. /\ m \in Nat /\ m # NoResult /\ 1..m = 1..taken[b] \cup {m}
      /\ m \notin Delivered(b) \cup Stored(b) \cup gone[b] /\ replies[b][m].run = run
      /\ \A i \in Delivered(b) : i < m
  BY <1>0, ResultIsNew
<1>2. \A c \in Branch \ {b} : branch_results[c] = NoResult
  BY DEF PanicInTime, Branch, Other
<1>3. /\ branch_results' \in [Branch -> Nat]
      /\ branch_results'[b] \in {m, NoResult}
      /\ \A c \in Branch \ {b} : branch_results'[c] = NoResult
  <2> HIDE DEF m
  <2>1. CASE branch_results' = [branch_results EXCEPT ![b] = m]
    BY <1>0, <1>1, <1>2, <2>1
  <2>2. CASE branch_results' = NewState
    BY <2>2 DEF NewState, NoResult
  <2> QED
    BY <2>1, <2>2 DEF PanicInTime, mark_finished, m
<1>4. gone'[b] = gone[b] \cup Stored(b)
                    \cup IF branch_results'[b] = NoResult THEN {m} ELSE {}
  BY <1>0 DEF record_and_decide, Superseded, Stored, RootInv, RootTypeOK
<1>5. \A c \in Branch : Delivered(c)' = Delivered(c)
  BY <1>0 DEF Delivered
<1>6. /\ taken' \in [Branch -> Nat] /\ gone' \in [Branch -> SUBSET Nat]
      /\ taken'[b] = m
      /\ \A c \in Branch : taken'[c] <= Len(replies[c])
      /\ \A c \in Branch \ {b} : taken'[c] = taken[c] /\ gone'[c] = gone[c]
      /\ \A i \in taken'[b] + 1..Len(replies[b]) : replies[b][i].run = run
  BY RecordTypes
<1> HIDE DEF m
<1>7. DeliveredOnce'
  BY <1>0 DEF RootInv, DeliveredOnce
<1>8. RecordedIsAccountedFor'
  <2> SUFFICES ASSUME NEW c \in Branch
               PROVE  /\ 1..taken'[c] = Delivered(c)' \cup Stored(c)' \cup gone'[c]
                      /\ Delivered(c)' \cap Stored(c)' = {}
                      /\ gone'[c] \cap (Delivered(c)' \cup Stored(c)') = {}
    BY DEF RecordedIsAccountedFor
  <2>1. /\ 1..taken[c] = Delivered(c) \cup Stored(c) \cup gone[c]
        /\ Delivered(c) \cap Stored(c) = {}
        /\ gone[c] \cap (Delivered(c) \cup Stored(c)) = {}
    BY DEF RootInv, RecordedIsAccountedFor
  <2>2. CASE c = b /\ branch_results'[b] = m
    <3>1. Stored(b)' = {m} /\ gone'[b] = gone[b] \cup Stored(b)
      BY <1>1, <1>4, <2>2 DEF Stored
    <3> QED
      BY <1>1, <1>5, <1>6, <2>1, <2>2, <3>1
  <2>3. CASE c = b /\ branch_results'[b] = NoResult
    <3>1. Stored(b)' = {} /\ gone'[b] = gone[b] \cup Stored(b) \cup {m}
      BY <1>1, <1>4, <2>3 DEF Stored
    <3> QED
      BY <1>1, <1>5, <1>6, <2>1, <2>3, <3>1
  <2>4. CASE c # b
    <3>1. Stored(c)' = {} /\ Stored(c) = {}
      BY <1>2, <1>3, <2>4 DEF Stored
    <3> QED
      BY <1>5, <1>6, <2>1, <2>4, <3>1
  <2> QED
    BY <1>3, <2>2, <2>3, <2>4
<1>9. OfThisRun'
  BY <1>0, <1>1, <1>3, <1>6 DEF RootInv, OfThisRun
<1>10. OneIsStored'
  BY <1>3 DEF OneIsStored, Branch
<1>11. RootTypeOK'
  BY <1>0, <1>3, <1>6 DEF RootInv, RootTypeOK, BranchInv, TypeOK, vars
<1>12. StoredIsNewest'
  BY <1>1, <1>3, <1>5 DEF StoredIsNewest
<1> QED
  BY <1>7, <1>8, <1>9, <1>10, <1>11, <1>12 DEF RootInv

LEMMA RecordInvariant ==
  ASSUME BranchInv, RootInv, NEW b \in Branch, record_and_decide(b)
  PROVE  BranchInv' /\ RootInv'
<1>1. BranchInv'
  <2>1. UNCHANGED vars
    BY DEF record_and_decide
  <2> QED
    BY <2>1 DEF BranchInv, TypeOK, RepliesAreCounted, IndicesRise, CallsAreAccountedFor,
                ReceivedInRun, vars
<1>2. FullDelivery(b) \/ PartialDelivery(b) \/ PanicInTime(b)
  BY DEF record_and_decide
<1> QED
  BY <1>1, <1>2, FullDeliveryInvariant, PartialDeliveryInvariant, PanicInvariant

LEMMA TimeoutInvariant ==
  ASSUME BranchInv, RootInv, TimeoutPasses
  PROVE  BranchInv' /\ RootInv'
<1>1. UNCHANGED <<vars, branch_results, taken, deliveries, gone>> /\ late' \in BOOLEAN
  BY DEF TimeoutPasses
<1>2. BranchInv'
  BY <1>1 DEF BranchInv, TypeOK, RepliesAreCounted, IndicesRise, CallsAreAccountedFor,
              ReceivedInRun, vars
<1>3. RootTypeOK' /\ OneIsStored' /\ OfThisRun'
  BY <1>1 DEF RootInv, RootTypeOK, TypeOK, OneIsStored, OfThisRun, vars
<1>4. DeliveredOnce' /\ RecordedIsAccountedFor'
  BY <1>1 DEF RootInv, DeliveredOnce, RecordedIsAccountedFor, Delivered, Stored, vars
<1>5. StoredIsNewest'
  BY <1>1 DEF RootInv, StoredIsNewest, Delivered
<1> QED
  BY <1>2, <1>3, <1>4, <1>5 DEF RootInv

\* A restart leaves nothing stored and nothing to hand over: all of it is gone.
LEMMA RootRestartInvariant ==
  ASSUME BranchInv, RootInv, RootRestart
  PROVE  BranchInv' /\ RootInv'
<1>1. BranchInv'
  BY RestartInvariant DEF RootRestart
<1>2. /\ UNCHANGED <<replies, deliveries>> /\ late' = FALSE /\ branch_results' = NewState
      /\ \A b \in Branch :
           /\ branch_results'[b] = NoResult
           /\ taken'[b] = Len(replies[b])
           /\ gone'[b] = gone[b] \cup Stored(b) \cup (taken[b] + 1)..Len(replies[b])
  BY DEF RootRestart, Restart, NewState, Stored
<1>3. RootTypeOK'
  <2>1. \A b \in Branch : Len(replies[b]) \in Nat
    BY Places
  <2>2. /\ taken' \in [Branch -> Nat]
        /\ branch_results' \in [Branch -> Nat]
    BY <2>1 DEF RootRestart, NewState, NoResult
  <2>3. ASSUME NEW b \in Branch
        PROVE  gone[b] \cup ({branch_results[b]} \ {NoResult})
                       \cup (taken[b] + 1)..Len(replies[b]) \in SUBSET Nat
    BY <2>1, Places DEF RootInv, RootTypeOK
  <2>4. gone' \in [Branch -> SUBSET Nat]
    BY <2>3 DEF RootRestart
  <2>5. \A b \in Branch : taken'[b] <= Len(replies'[b])
    BY <1>2, <2>1
  <2> QED
    BY <1>1, <1>2, <2>2, <2>4, <2>5 DEF RootInv, RootTypeOK, BranchInv
<1>4. OneIsStored'
  BY <1>2 DEF OneIsStored, Branch
<1>5. OfThisRun'
  <2> SUFFICES ASSUME NEW b \in Branch
               PROVE  \A i \in taken'[b] + 1..Len(replies'[b]) : replies'[b][i].run = run'
    BY <1>2 DEF OfThisRun
  <2>1. Len(replies[b]) \in Nat
    BY Places
  <2> QED
    BY <1>2, <2>1
<1>6. DeliveredOnce'
  BY <1>2 DEF RootInv, DeliveredOnce
<1>7. RecordedIsAccountedFor'
  <2> SUFFICES ASSUME NEW b \in Branch
               PROVE  /\ 1..taken'[b] = Delivered(b)' \cup Stored(b)' \cup gone'[b]
                      /\ Delivered(b)' \cap Stored(b)' = {}
                      /\ gone'[b] \cap (Delivered(b)' \cup Stored(b)') = {}
    BY DEF RecordedIsAccountedFor
  <2>1. /\ 1..taken[b] = Delivered(b) \cup Stored(b) \cup gone[b]
        /\ Delivered(b) \cap Stored(b) = {}
        /\ gone[b] \cap (Delivered(b) \cup Stored(b)) = {}
    BY DEF RootInv, RecordedIsAccountedFor
  <2>2. /\ 1..Len(replies[b]) = 1..taken[b] \cup (taken[b] + 1)..Len(replies[b])
        /\ 1..taken[b] \cap (taken[b] + 1)..Len(replies[b]) = {}
    BY Places
  <2>3. Stored(b)' = {} /\ Delivered(b)' = Delivered(b)
    BY <1>2 DEF Stored, Delivered
  <2> HIDE DEF Stored, Delivered
  <2> QED
    BY <1>2, <2>1, <2>2, <2>3
<1>8. StoredIsNewest'
  BY <1>2 DEF StoredIsNewest
<1> QED
  BY <1>1, <1>3, <1>4, <1>5, <1>6, <1>7, <1>8 DEF RootInv

LEMMA BranchStepInvariant ==
  ASSUME BranchInv, RootInv, BranchStep
  PROVE  BranchInv' /\ RootInv'
<1>1. UNCHANGED rootVars
  BY DEF BranchStep
<1>2. CASE \E b \in Branch, t \in Task : Ask(b, t)
  <2>1. UNCHANGED <<run, replies>> /\ BranchInv'
    BY <1>2, AskInvariant DEF Ask
  <2>2. RepliesGrow
    BY <2>1 DEF RepliesGrow, BranchInv, TypeOK
  <2> QED
    BY <1>1, <2>1, <2>2, GrowthKeepsRoot
<1>3. CASE \E b \in Branch : refuse_sub_chat(b)
  <2>1. UNCHANGED <<run, replies>> /\ BranchInv'
    BY <1>3, RefuseInvariant DEF refuse_sub_chat
  <2>2. RepliesGrow
    BY <2>1 DEF RepliesGrow, BranchInv, TypeOK
  <2> QED
    BY <1>1, <2>1, <2>2, GrowthKeepsRoot
<1>4. CASE \E b \in Branch : open_sub_chat(b)
  BY <1>1, <1>4, OpenInvariant, OpenGrows, GrowthKeepsRoot
<1> QED
  BY <1>2, <1>3, <1>4 DEF BranchStep

-----------------------------------------------------------------------------
(* The theorems *)

\* The invariant: what the branches counted and replied, and where at the root every
\* result is, hold together in every reachable state.
THEOREM Invariance == RootSpec => []IInv
<1>1. RootInit => IInv
  BY BranchInit, RootInitial DEF RootInit, IInv
<1>2. IInv /\ [RootNext]_allVars => IInv'
  <2> SUFFICES ASSUME IInv, [RootNext]_allVars PROVE IInv'
    OBVIOUS
  <2>0. BranchInv /\ RootInv
    BY DEF IInv
  <2>1. CASE BranchStep
    BY <2>0, <2>1, BranchStepInvariant DEF IInv
  <2>2. CASE \E b \in Branch : record_and_decide(b)
    BY <2>0, <2>2, RecordInvariant DEF IInv
  <2>3. CASE TimeoutPasses
    BY <2>0, <2>3, TimeoutInvariant DEF IInv
  <2>4. CASE RootRestart
    BY <2>0, <2>4, RootRestartInvariant DEF IInv
  <2>5. CASE UNCHANGED allVars
    <3>1. BranchInv'
      BY <2>0, <2>5 DEF BranchInv, TypeOK, RepliesAreCounted, IndicesRise,
                        CallsAreAccountedFor, ReceivedInRun, allVars, vars
    <3>2. RootTypeOK' /\ OneIsStored' /\ OfThisRun'
      BY <2>0, <2>5 DEF RootInv, RootTypeOK, TypeOK, OneIsStored, OfThisRun,
                        allVars, vars, rootVars
    <3>3. DeliveredOnce' /\ RecordedIsAccountedFor'
      BY <2>0, <2>5 DEF RootInv, DeliveredOnce, RecordedIsAccountedFor, Delivered,
                        Stored, allVars, vars, rootVars
    <3>4. StoredIsNewest'
      BY <2>0, <2>5 DEF RootInv, StoredIsNewest, Delivered, allVars, rootVars
    <3> QED
      BY <3>1, <3>2, <3>3, <3>4 DEF IInv, RootInv
  <2> QED
    BY <2>1, <2>2, <2>3, <2>4, <2>5 DEF RootNext
<1> QED
  BY <1>1, <1>2, PTL DEF RootSpec

\* No branch gives a call index twice in a run of the daemon, whoever loses a reply
\* (open_sub_chat counts before the worker runs).
THEOREM IndicesNeverRepeat == RootSpec => []IndicesRise
<1>1. IInv => IndicesRise
  BY DEF IInv, BranchInv
<1> QED
  BY <1>1, Invariance, PTL

\* The counter of a branch is the replies received plus the replies lost.
THEOREM CallsAccounted == RootSpec => []CallsAreAccountedFor
<1>1. IInv => CallsAreAccountedFor
  BY DEF IInv, BranchInv
<1> QED
  BY <1>1, Invariance, PTL

\* The root delivers a branch's results in order, none twice, and never joins results
\* of two runs, for any number of replies, timeouts, panics and restarts
\* (record_and_decide).
THEOREM NoResultTwice == RootSpec => []DeliveredOnce
<1>1. IInv => DeliveredOnce
  BY DEF IInv, RootInv
<1> QED
  BY <1>1, Invariance, PTL

\* Every recorded result is delivered, stored, or gone with a newer result, a panic
\* or a restart, and only one of the three.
THEOREM NoResultForgotten == RootSpec => []RecordedIsAccountedFor
<1>1. IInv => RecordedIsAccountedFor
  BY DEF IInv, RootInv
<1> QED
  BY <1>1, Invariance, PTL

\* The root takes nothing away from the branches and adds nothing to what they do: with
\* it, they behave as SubChat says they do on their own.
THEOREM ImplementsSubChat == RootSpec => Spec
<1>1. RootInit => Init
  BY DEF RootInit
<1>2. [RootNext]_allVars => [Next]_vars
  <2> SUFFICES ASSUME [RootNext]_allVars PROVE [Next]_vars
    OBVIOUS
  <2>1. CASE BranchStep
    BY <2>1 DEF BranchStep, Next
  <2>2. ASSUME NEW b \in Branch, record_and_decide(b) PROVE UNCHANGED vars
    BY <2>2 DEF record_and_decide
  <2>3. CASE TimeoutPasses
    BY <2>3 DEF TimeoutPasses, vars
  <2>4. CASE RootRestart
    BY <2>4 DEF RootRestart, Next
  <2>5. CASE UNCHANGED allVars
    BY <2>5 DEF allVars
  <2> QED
    BY <2>1, <2>2, <2>3, <2>4, <2>5 DEF RootNext
<1> QED
  BY <1>1, <1>2, PTL DEF RootSpec, Spec

\* The type of the branches' and the root's state.
THEOREM TypeCorrectness == RootSpec => []RootTypeOK
<1>1. IInv => RootTypeOK
  BY DEF IInv, RootInv
<1> QED
  BY <1>1, Invariance, PTL
=============================================================================
