---------------------------- MODULE WatchdogProofs ----------------------------
(***************************************************************************)
(* What is marked as sent was told or unwanted, messages arrive in order,  *)
(* and a problem is not repeated too soon: for any batch size, any number  *)
(* of messages, failures and problems.                                     *)
(***************************************************************************)
EXTENDS Watchdog, NumberFacts

RowSet == [kind : Kinds, refused : BOOLEAN, about : SUBSET Problems, time : 0 .. MaxTime,
           sent : BOOLEAN, deleted : BOOLEAN]

(* What waits for the commit was told or unwanted; a message that waits in *)
(* the batch has no older one outside it that the owner could still get.   *)
MarksTold == marks \subseteq told \cup skipped
Ahead(i, j) == i < j /\ rows[i].kind # "virtual" /\ rows[j].kind # "virtual"
BatchOldest ==
  \A j \in batch : \A i \in Ids :
    Ahead(i, j) => i \in batch \cup told \cup skipped \/ rows[i].deleted

OutboxInv ==
  /\ OutboxTypeOK /\ rows \in Seq(RowSet)
  /\ SentMeansTold /\ InOrder /\ MarksTold /\ BatchOldest

(* What the setting remembers is the last alert, and a problem it does not *)
(* remember was never reported or has been gone since.                     *)
Remembers ==
  \A k \in Problems :
    /\ seen[k] # Never => seen[k] = alerted[k]
    /\ seen[k] = Never => absent[k] \/ alerted[k] = Never

WatchIInv == OutboxInv /\ WatchTypeOK /\ Remembers

-----------------------------------------------------------------------------
LEMMA RowFacts ==
  ASSUME NEW k \in Kinds, NEW b \in BOOLEAN, NEW S \in SUBSET Problems, NEW t \in 0 .. MaxTime
  PROVE  /\ Row(k, b, S, t) \in RowSet
         /\ ~Row(k, b, S, t).sent /\ Row(k, b, S, t).about = S
BY DEF Row, RowSet

LEMMA IdsAreNumbers ==
  ASSUME rows \in Seq(RowSet)
  PROVE  /\ Ids = 1 .. Len(rows) /\ Len(rows) \in Nat
         /\ \A i \in Ids : rows[i] \in RowSet /\ i \in Nat
BY DEF Ids

LEMMA RowTypes ==
  ASSUME rows \in Seq(RowSet), NEW i \in Ids
  PROVE  /\ rows[i].kind \in Kinds /\ rows[i].about \subseteq Problems
         /\ rows[i].sent \in BOOLEAN /\ rows[i].deleted \in BOOLEAN
<1>1. rows[i] \in RowSet
  BY IdsAreNumbers
<1> QED
  BY <1>1 DEF RowSet

LEMMA InitWatch == Init => WatchIInv
<1> SUFFICES ASSUME Init PROVE WatchIInv
  OBVIOUS
<1>1. rows = <<>> /\ rows \in Seq(RowSet) /\ Ids = {}
  BY DEF Init, OutboxInit, Ids
<1>2. {} \cup {} = {} /\ Cardinality({}) = 0
  BY FS_EmptySet
<1>3. OutboxTypeOK
  BY <1>1, <1>2, OutboxBounds, LimitAssumption DEF Init, OutboxInit, OutboxTypeOK
<1>4. SentMeansTold /\ InOrder /\ MarksTold /\ BatchOldest
  BY <1>1 DEF Init, OutboxInit, SentMeansTold, InOrder, MarksTold, BatchOldest
<1>5. WatchTypeOK
  <2>1. 0 \in 0 .. MaxTime /\ 0 \in 0 .. MaxDisk /\ TRUE \in BOOLEAN /\ FALSE \in BOOLEAN
    BY WatchBounds
  <2>2. Never \in {Never} \cup 0 .. MaxTime
    OBVIOUS
  <2> QED
    BY <2>1, <2>2, Zenon DEF Init, WatchTypeOK
<1>6. Remembers
  BY DEF Init, Remembers
<1> QED
  BY <1>1, <1>3, <1>4, <1>5, <1>6 DEF WatchIInv, OutboxInv

-----------------------------------------------------------------------------
(* New rows, behind those that are there.                                  *)
Behind ==
  /\ rows' \in Seq(RowSet) /\ Ids \subseteq Ids'
  /\ \A i \in Ids : rows'[i] = rows[i]
  /\ \A i \in Ids' \ Ids : ~rows'[i].sent /\ \A j \in Ids : j < i

LEMMA AddingOne ==
  ASSUME rows \in Seq(RowSet), NEW r \in RowSet, ~r.sent, rows' = Append(rows, r)
  PROVE  Behind /\ Len(rows') = Len(rows) + 1 /\ rows'[Len(rows')] = r
<1>1. /\ Len(rows) \in Nat /\ Ids = 1 .. Len(rows)
      /\ rows' \in Seq(RowSet) /\ Len(rows') = Len(rows) + 1
      /\ \A i \in 1 .. Len(rows) : rows'[i] = rows[i]
      /\ rows'[Len(rows) + 1] = r
  BY DEF Ids
<1>2. Ids' = 1 .. Len(rows) + 1
  BY <1>1 DEF Ids
<1> QED
  BY <1>1, <1>2 DEF Behind

LEMMA GrowingKeeps ==
  ASSUME OutboxInv, Behind, UNCHANGED <<muted, batch, marks, told, skipped, turns>>,
         at' \in {"check", "read", "send"}, posts' \in 0 .. MaxPosts
  PROVE  OutboxInv'
<1>1. rows \in Seq(RowSet) /\ rows' \in Seq(RowSet)
  BY DEF OutboxInv, Behind
<1>2. \A i \in Ids' : rows'[i].kind \in Kinds /\ rows'[i].about \subseteq Problems
  <2>1. ASSUME NEW i \in Ids'
        PROVE  rows'[i].kind \in Kinds /\ rows'[i].about \subseteq Problems
    <3>1. rows'[i] \in RowSet
      BY <1>1 DEF Ids
    <3> QED
      BY <3>1 DEF RowSet
  <2> QED
    BY <2>1
<1>3. OutboxTypeOK'
  BY <1>2 DEF OutboxInv, OutboxTypeOK, Behind
<1>4. SentMeansTold' /\ MarksTold'
  BY DEF OutboxInv, SentMeansTold, MarksTold, Behind
<1>5. \A i \in Ids' : \A j \in Ids : i < j => i \in Ids
  BY <1>1, IdsAreNumbers DEF Behind, Ids
<1>6. told \subseteq Ids /\ batch \subseteq Ids
  BY DEF OutboxInv, OutboxTypeOK
<1>7. InOrder' /\ BatchOldest'
  BY <1>5, <1>6 DEF OutboxInv, InOrder, BatchOldest, Ahead, Behind
<1> QED
  BY <1>1, <1>3, <1>4, <1>7 DEF OutboxInv

LEMMA PostStep ==
  ASSUME WatchIInv, Post
  PROVE  OutboxInv'
<1>1. PICK k \in {"news", "virtual"}, bad \in BOOLEAN :
        rows' = Append(rows, Row(k, bad /\ k = "news", {}, 0))
  BY DEF Post
<1>2. k \in Kinds /\ (bad /\ k = "news") \in BOOLEAN /\ {} \in SUBSET Problems /\ 0 \in 0 .. MaxTime
  BY WatchBounds DEF Kinds
<1> DEFINE r == Row(k, bad /\ k = "news", {}, 0)
<1>3. r \in RowSet /\ ~r.sent
  BY <1>2, RowFacts
<1> HIDE DEF r
<1>4. Behind
  BY <1>1, <1>3, AddingOne DEF WatchIInv, OutboxInv, r
<1>5. posts' \in 0 .. MaxPosts
  BY OutboxBounds DEF Post, WatchIInv, OutboxInv, OutboxTypeOK
<1> QED
  BY <1>4, <1>5, GrowingKeeps DEF Post, WatchIInv, OutboxInv, OutboxTypeOK

(* The rows stay, but for marks that go up.                                *)
LEMMA FlagsKeep ==
  ASSUME OutboxInv, rows' \in Seq(RowSet), Ids' = Ids,
         \A i \in Ids : rows'[i].kind = rows[i].kind /\ rows'[i].about = rows[i].about
                        /\ (rows[i].deleted => rows'[i].deleted),
         UNCHANGED <<told, skipped>>, batch' \subseteq batch, batch' = batch \/ batch' = {}
  PROVE  InOrder' /\ BatchOldest'
<1>1. InOrder'
  BY DEF OutboxInv, InOrder
<1>2. CASE batch' = {}
  BY <1>1, <1>2 DEF BatchOldest
<1>3. CASE batch' = batch
  <2>1. batch \subseteq Ids
    BY DEF OutboxInv, OutboxTypeOK
  <2>2. BatchOldest'
    BY <1>3, <2>1 DEF OutboxInv, BatchOldest, Ahead
  <2> QED
    BY <1>1, <2>2
<1> QED
  BY <1>2, <1>3

LEMMA DeleteStep ==
  ASSUME OutboxInv, DeleteRow
  PROVE  OutboxInv'
<1>1. PICK d \in Ids : rows' = [rows EXCEPT ![d].deleted = TRUE]
  BY DEF DeleteRow
<1>2. rows \in Seq(RowSet) /\ rows[d] \in RowSet /\ Ids = 1 .. Len(rows) /\ Len(rows) \in Nat
  BY IdsAreNumbers DEF OutboxInv
<1> DEFINE w == [rows[d] EXCEPT !.deleted = TRUE]
<1>3. /\ w \in RowSet /\ w.deleted /\ w.kind = rows[d].kind /\ w.about = rows[d].about
      /\ w.sent = rows[d].sent
  BY <1>2 DEF RowSet
<1>4. rows' = [rows EXCEPT ![d] = w]
  BY <1>1
<1> HIDE DEF w
<1>5. rows' \in Seq(RowSet) /\ Ids' = Ids
  BY <1>2, <1>3, <1>4 DEF Ids
<1>6. \A i \in Ids : /\ rows'[i].kind = rows[i].kind /\ rows'[i].about = rows[i].about
                     /\ rows'[i].sent = rows[i].sent
                     /\ rows[i].deleted => rows'[i].deleted
  BY <1>2, <1>3, <1>4
<1>7. InOrder' /\ BatchOldest'
  BY <1>5, <1>6, FlagsKeep DEF DeleteRow
<1>8. OutboxTypeOK'
  <2>1. turns' \in 0 .. MaxTurns
    BY OutboxBounds DEF DeleteRow, OutboxInv, OutboxTypeOK
  <2> QED
    BY <1>5, <1>6, <2>1 DEF DeleteRow, OutboxInv, OutboxTypeOK
<1>9. SentMeansTold' /\ MarksTold'
  BY <1>5, <1>6 DEF DeleteRow, OutboxInv, SentMeansTold, MarksTold
<1> QED
  BY <1>5, <1>7, <1>8, <1>9 DEF OutboxInv

LEMMA CommitStep ==
  ASSUME OutboxInv, Commit
  PROVE  OutboxInv'
<1> DEFINE done == [i \in Ids |-> IF i \in marks THEN [rows[i] EXCEPT !.sent = TRUE] ELSE rows[i]]
<1>1. /\ rows' = rows \/ rows' = done
      /\ batch = {} /\ batch' = {} /\ marks' = {} /\ at' = "check"
      /\ UNCHANGED <<muted, told, skipped, posts, turns>>
  BY DEF Commit
<1>2. rows \in Seq(RowSet) /\ Ids = 1 .. Len(rows) /\ Len(rows) \in Nat
      /\ \A i \in Ids : rows[i] \in RowSet
  BY IdsAreNumbers DEF OutboxInv
<1>3. ASSUME NEW i \in Ids
      PROVE  /\ done[i] \in RowSet /\ done[i].kind = rows[i].kind /\ done[i].about = rows[i].about
             /\ done[i].deleted = rows[i].deleted
             /\ done[i].sent => rows[i].sent \/ i \in marks
  <2>1. rows[i] \in RowSet
    BY <1>2
  <2>2. /\ [rows[i] EXCEPT !.sent = TRUE] \in RowSet
        /\ [rows[i] EXCEPT !.sent = TRUE].kind = rows[i].kind
        /\ [rows[i] EXCEPT !.sent = TRUE].about = rows[i].about
        /\ [rows[i] EXCEPT !.sent = TRUE].deleted = rows[i].deleted
    BY <2>1 DEF RowSet
  <2> QED
    BY <2>1, <2>2
<1>4. DOMAIN done = 1 .. Len(rows)
  BY <1>2
<1> HIDE DEF done
<1>5. done \in Seq(RowSet) /\ DOMAIN done = Ids
  <2>1. done \in [1 .. Len(rows) -> RowSet]
    BY <1>2, <1>3, <1>4, Zenon DEF done
  <2> QED
    BY <1>2, <1>4, <2>1
<1>6. rows' \in Seq(RowSet) /\ Ids' = Ids
  BY <1>1, <1>2, <1>5 DEF Ids
<1>7. \A i \in Ids : /\ rows'[i].kind = rows[i].kind /\ rows'[i].about = rows[i].about
                     /\ rows[i].deleted => rows'[i].deleted
                     /\ rows'[i].sent => rows[i].sent \/ i \in marks
  BY <1>1, <1>3
<1>8. InOrder' /\ BatchOldest'
  BY <1>1, <1>6, <1>7, FlagsKeep
<1>9. SentMeansTold' /\ MarksTold'
  BY <1>1, <1>6, <1>7 DEF OutboxInv, SentMeansTold, MarksTold
<1>10. OutboxTypeOK'
  <2>1. {} \cup {} = {} /\ Cardinality({}) = 0
    BY FS_EmptySet
  <2> QED
    BY <1>1, <1>6, <1>7, <2>1, LimitAssumption DEF OutboxInv, OutboxTypeOK
<1> QED
  BY <1>6, <1>8, <1>9, <1>10 DEF OutboxInv

(* A batch is the oldest of what waits.                                    *)
LEMMA FirstIsOldest ==
  ASSUME NEW n \in Nat, NEW S, S \subseteq 1 .. n, NEW k \in Nat,
         NEW j \in First(S, k), NEW i \in S, i < j
  PROVE  i \in First(S, k)
<1>1. i \in 1 .. n /\ j \in 1 .. n /\ j \in S
  BY DEF First
<1> DEFINE lower(m) == {l \in S : l < m}
<1>2. IsFiniteSet(lower(j)) /\ lower(i) \in SUBSET lower(j)
  <2>1. IsFiniteSet(1 .. n) /\ lower(j) \in SUBSET (1 .. n)
    <3>1. IsFiniteSet(1 .. n)
      BY FS_Interval
    <3>2. \A l \in lower(j) : l \in 1 .. n
      OBVIOUS
    <3> HIDE DEF lower
    <3> QED
      BY <3>1, <3>2
  <2>2. ASSUME NEW l \in lower(i) PROVE l \in lower(j)
    <3>1. l \in S /\ l < i /\ l \in 1 .. n
      OBVIOUS
    <3> QED
      BY <1>1, <3>1
  <2>3. IsFiniteSet(lower(j))
    <3> HIDE DEF lower
    <3> QED
      BY <2>1, FS_Subset
  <2> QED
    BY <2>2, <2>3
<1>3. Cardinality(lower(j)) < k
  BY DEF First
<1> HIDE DEF lower
<1>4. /\ Cardinality(lower(i)) <= Cardinality(lower(j)) /\ IsFiniteSet(lower(i))
      /\ Cardinality(lower(i)) \in Nat /\ Cardinality(lower(j)) \in Nat
  BY <1>2, FS_Subset, FS_CardinalityType
<1>5. Cardinality(lower(i)) < k
  BY <1>3, <1>4
<1> QED
  BY <1>5 DEF First, lower

LEMMA ReadStep ==
  ASSUME OutboxInv, ReadBatch
  PROVE  OutboxInv'
<1> DEFINE read == First(Unsent, Limit)
           off == {i \in read : rows[i].kind \in muted}
<1>1. /\ batch' = read \ off /\ marks' = off /\ skipped' = skipped \cup off /\ at' = "send"
      /\ UNCHANGED <<rows, muted, told, posts, turns>>
  BY DEF ReadBatch
<1>2. /\ rows \in Seq(RowSet) /\ Ids = 1 .. Len(rows) /\ Len(rows) \in Nat /\ Ids' = Ids
      /\ Unsent \subseteq Ids /\ Limit \in Nat
  BY <1>1, IdsAreNumbers, LimitAssumption DEF OutboxInv, Unsent, Ids
<1>3. IsFiniteSet(read) /\ Cardinality(read) <= Limit /\ read \subseteq Unsent
  BY <1>2, FewHaveFewBelow DEF First
<1>4. /\ off \subseteq read
      /\ batch' \cup marks' = read /\ batch' \cap marks' = {}
  BY <1>1
<1> HIDE DEF read, off
<1>5. OutboxTypeOK'
  BY <1>1, <1>2, <1>3, <1>4 DEF OutboxInv, OutboxTypeOK
<1>6. SentMeansTold' /\ MarksTold' /\ InOrder'
  BY <1>1, <1>2 DEF OutboxInv, SentMeansTold, MarksTold, InOrder
<1>7. ASSUME NEW j \in batch', NEW i \in Ids, i < j
      PROVE  i \in batch' \cup told \cup skipped' \/ rows[i].deleted
  <2>1. j \in read
    BY <1>4
  <2>2. CASE i \in Unsent
    <3>1. i \in read
      BY <1>2, <1>7, <2>1, <2>2, FirstIsOldest DEF read
    <3> QED
      BY <1>1, <1>4, <3>1
  <2>3. CASE i \notin Unsent
    <3>1. rows[i].sent \/ rows[i].deleted
      BY <1>2, <2>3, RowTypes DEF Unsent
    <3> QED
      BY <1>1, <3>1 DEF OutboxInv, SentMeansTold
  <2> QED
    BY <2>2, <2>3
<1>8. BatchOldest'
  BY <1>1, <1>2, <1>7 DEF BatchOldest, Ahead
<1> QED
  BY <1>1, <1>5, <1>6, <1>8 DEF OutboxInv

LEMMA SendStep ==
  ASSUME OutboxInv, Send
  PROVE  OutboxInv'
<1>1. /\ at' = at /\ batch # {} /\ UNCHANGED <<rows, muted, skipped, posts, turns>>
      /\ batch \subseteq Ids /\ told \subseteq Ids /\ marks \subseteq Ids /\ Ids' = Ids
      /\ rows \in Seq(RowSet)
  BY DEF Send, OutboxInv, OutboxTypeOK, Ids
<1>2. NextGroup \subseteq batch /\ NextGroup # {}
  <2>1. CASE Virtual # {}
    BY <2>1 DEF NextGroup, Virtual
  <2>2. CASE Virtual = {}
    <3>1. batch \subseteq Nat
      BY <1>1, IdsAreNumbers
    <3> QED
      BY <1>1, <2>2, <3>1, MinIsLeast DEF NextGroup
  <2> QED
    BY <2>1, <2>2
<1>3. /\ told' \in {told, told \cup NextGroup}
      /\ batch' \in {batch \ NextGroup, {}}
      /\ batch' # {} => told' = told \cup NextGroup
      /\ marks' \in {marks, marks \cup NextGroup}
      /\ marks' # marks => told' = told \cup NextGroup /\ batch' = batch \ NextGroup
  BY DEF Send, Marked, GiveUp
<1>4. OutboxTypeOK'
  <2>1. IsFiniteSet(batch \cup marks)
    <3>1. IsFiniteSet(Ids)
      BY <1>1, IdsAreNumbers, FS_Interval
    <3>2. batch \cup marks \in SUBSET Ids
      BY <1>1
    <3> QED
      BY <3>1, <3>2, FS_Subset
  <2>2. batch' \cup marks' \subseteq batch \cup marks /\ batch' \cap marks' = {}
    BY <1>2, <1>3 DEF OutboxInv, OutboxTypeOK
  <2>3. Cardinality(batch' \cup marks') <= Limit
    BY <2>1, <2>2, SmallerIsSmaller, LimitAssumption DEF OutboxInv, OutboxTypeOK
  <2> QED
    BY <1>1, <1>2, <1>3, <2>2, <2>3 DEF OutboxInv, OutboxTypeOK
<1>5. SentMeansTold' /\ MarksTold'
  BY <1>1, <1>3 DEF OutboxInv, SentMeansTold, MarksTold
<1>6. ASSUME NEW j \in NextGroup, NEW i \in Ids, Ahead(i, j)
      PROVE  i \in told \cup skipped \/ rows[i].deleted
  <2>1. Virtual = {} /\ j = Min(batch) /\ j \in batch
    BY <1>2, <1>6 DEF NextGroup, Virtual, Ahead
  <2>2. i \notin batch
    <3>1. batch \subseteq Nat /\ i \in Nat
      BY <1>1, IdsAreNumbers
    <3>2. i \in batch => Min(batch) <= i
      BY <1>1, <3>1, MinIsLeast
    <3> QED
      BY <1>6, <2>1, <3>1, <3>2 DEF Ahead
  <2> QED
    BY <1>6, <2>1, <2>2 DEF OutboxInv, BatchOldest
<1>7. InOrder'
  BY <1>1, <1>3, <1>6 DEF OutboxInv, InOrder, Ahead
<1>8. BatchOldest'
  BY <1>1, <1>2, <1>3 DEF OutboxInv, BatchOldest, Ahead
<1> QED
  BY <1>1, <1>4, <1>5, <1>7, <1>8 DEF OutboxInv

-----------------------------------------------------------------------------
(* What a check adds: an alert about what is due, a word of what is over.  *)
LEMMA CheckRows ==
  ASSUME WatchIInv, Check
  PROVE  /\ Behind
         /\ \A i \in Ids' \ Ids : rows'[i].about \subseteq Due
<1>1. rows \in Seq(RowSet) /\ time \in 0 .. MaxTime /\ Ids = 1 .. Len(rows) /\ Len(rows) \in Nat
  BY IdsAreNumbers DEF WatchIInv, OutboxInv, WatchTypeOK
<1>2. "system" \in Kinds /\ Due \in SUBSET Problems /\ {} \in SUBSET Problems /\ FALSE \in BOOLEAN
  BY ProblemsAssumption DEF Kinds, Due, Found
<1> DEFINE a == Row("system", FALSE, Due, time)
           b == Row("system", FALSE, {}, time)
<1>3. a \in RowSet /\ ~a.sent /\ a.about = Due
  BY <1>1, <1>2, RowFacts
<1>4. b \in RowSet /\ ~b.sent /\ b.about = {}
  BY <1>1, <1>2, RowFacts
<1>5. \E r1 \in {<<>>, <<a>>}, r2 \in {<<>>, <<b>>} : rows' = rows \o r1 \o r2
  BY DEF Check
<1> HIDE DEF a, b
<1>6. PICK n \in 0 .. 2 :
        /\ rows' \in Seq(RowSet) /\ Len(rows') = Len(rows) + n
        /\ \A i \in 1 .. Len(rows) : rows'[i] = rows[i]
        /\ \A i \in 1 .. Len(rows) + n : i > Len(rows) => rows'[i] \in {a, b}
  <2>1. ASSUME rows' = rows PROVE \E n \in 0 .. 2 :
        /\ rows' \in Seq(RowSet) /\ Len(rows') = Len(rows) + n
        /\ \A i \in 1 .. Len(rows) : rows'[i] = rows[i]
        /\ \A i \in 1 .. Len(rows) + n : i > Len(rows) => rows'[i] \in {a, b}
    BY <1>1, <2>1
  <2>2. ASSUME NEW c \in {a, b}, rows' = Append(rows, c) PROVE \E n \in 0 .. 2 :
        /\ rows' \in Seq(RowSet) /\ Len(rows') = Len(rows) + n
        /\ \A i \in 1 .. Len(rows) : rows'[i] = rows[i]
        /\ \A i \in 1 .. Len(rows) + n : i > Len(rows) => rows'[i] \in {a, b}
    <3>1. c \in RowSet
      BY <1>3, <1>4
    <3> QED
      BY <1>1, <2>2, <3>1
  <2>3. ASSUME rows' = Append(Append(rows, a), b) PROVE \E n \in 0 .. 2 :
        /\ rows' \in Seq(RowSet) /\ Len(rows') = Len(rows) + n
        /\ \A i \in 1 .. Len(rows) : rows'[i] = rows[i]
        /\ \A i \in 1 .. Len(rows) + n : i > Len(rows) => rows'[i] \in {a, b}
    BY <1>1, <1>3, <1>4, <2>3
  <2>4. \A c : rows \o <<c>> = Append(rows, c)
    BY <1>1
  <2>5. rows \o <<>> = rows
    BY <1>1
  <2>6. \/ rows' = rows \/ \E c \in {a, b} : rows' = Append(rows, c)
        \/ rows' = Append(Append(rows, a), b)
    <3>1. rows \o <<a>> = Append(rows, a) /\ rows \o <<b>> = Append(rows, b)
      BY <2>4
    <3>2. Append(rows, a) \o <<>> = Append(rows, a) /\ Append(rows, a) \o <<b>> = Append(Append(rows, a), b)
      BY <1>1, <1>3
    <3> QED
      BY <1>5, <2>5, <3>1, <3>2
  <2> QED
    BY <2>1, <2>2, <2>3, <2>6
<1>7. Ids' = 1 .. Len(rows) + n
  BY <1>1, <1>6 DEF Ids
<1> QED
  BY <1>1, <1>3, <1>4, <1>6, <1>7 DEF Behind

LEMMA CheckStep ==
  ASSUME WatchIInv, Check
  PROVE  WatchIInv'
<1>1. OutboxInv'
  BY CheckRows, GrowingKeeps DEF Check, WatchIInv, OutboxInv, OutboxTypeOK
<1>2. /\ time' = time /\ seen' = Kept
      /\ alerted' = [k \in Problems |-> IF k \in Due THEN time ELSE alerted[k]]
      /\ absent' = [k \in Problems |-> (absent[k] /\ k \notin Due) \/ k \notin Found]
      /\ UNCHANGED <<beat, full, swings>>
  BY DEF Check
<1>3. time \in 0 .. MaxTime /\ time # Never /\ Due \subseteq Found
  BY DEF WatchIInv, WatchTypeOK, Due, Never
<1>4. seen' \in [Problems -> {Never} \cup 0 .. MaxTime]
  BY <1>2, <1>3 DEF Kept, WatchIInv, WatchTypeOK
<1>5. alerted' \in [Problems -> {Never} \cup 0 .. MaxTime]
  BY <1>2, <1>3 DEF WatchIInv, WatchTypeOK
<1>6. absent' \in [Problems -> BOOLEAN]
  BY <1>2 DEF WatchIInv, WatchTypeOK
<1>7. WatchTypeOK'
  BY <1>2, <1>4, <1>5, <1>6 DEF WatchIInv, WatchTypeOK
<1>8. ASSUME NEW k \in Problems
      PROVE  /\ seen'[k] # Never => seen'[k] = alerted'[k]
             /\ seen'[k] = Never => absent'[k] \/ alerted'[k] = Never
  <2>1. CASE k \in Due
    BY <1>2, <1>3, <2>1 DEF Kept
  <2>2. CASE k \in Found \ Due
    <3>1. seen'[k] = seen[k] /\ alerted'[k] = alerted[k]
      BY <1>2, <2>2 DEF Kept
    <3>2. seen[k] # Never
      BY <2>2 DEF Due
    <3> QED
      BY <3>1, <3>2 DEF WatchIInv, Remembers
  <2>3. CASE k \notin Found
    <3>1. seen'[k] = Never /\ absent'[k]
      BY <1>2, <1>3, <2>3 DEF Kept
    <3> QED
      BY <3>1
  <2> QED
    BY <2>1, <2>2, <2>3
<1> QED
  BY <1>1, <1>7, <1>8 DEF WatchIInv, Remembers

LEMMA NextWatch == WatchIInv /\ [Next]_vars => WatchIInv'
<1> SUFFICES ASSUME WatchIInv, [Next]_vars PROVE WatchIInv'
  OBVIOUS
<1>1. ASSUME UNCHANGED watchVars, OutboxInv' PROVE WatchIInv'
  BY <1>1 DEF watchVars, WatchIInv, WatchTypeOK, Remembers
<1>2. ASSUME UNCHANGED outboxVars PROVE OutboxInv'
  BY <1>2 DEF outboxVars, WatchIInv, OutboxInv, OutboxTypeOK, SentMeansTold, InOrder, MarksTold,
              BatchOldest, Ahead, Ids
<1>3. ASSUME SetPrefs PROVE OutboxInv'
  <2>1. muted' \subseteq Kinds /\ turns' \in 0 .. MaxTurns
    BY <1>3, OutboxBounds DEF SetPrefs, WatchIInv, OutboxInv, OutboxTypeOK
  <2> QED
    BY <1>3, <2>1 DEF SetPrefs, WatchIInv, OutboxInv, OutboxTypeOK, SentMeansTold, InOrder,
                      MarksTold, BatchOldest, Ahead, Ids
<1>4. ASSUME Lose PROVE OutboxInv'
  <2>1. {} \cup {} = {} /\ Cardinality({}) = 0
    BY FS_EmptySet
  <2>2. OutboxTypeOK'
    BY <1>4, <2>1, OutboxBounds, LimitAssumption DEF Lose, WatchIInv, OutboxInv, OutboxTypeOK, Ids
  <2> QED
    BY <1>4, <2>2 DEF Lose, WatchIInv, OutboxInv, SentMeansTold, InOrder, MarksTold, BatchOldest, Ids
<1>5. ASSUME OutboxNext, UNCHANGED watchVars PROVE WatchIInv'
  BY <1>1, <1>3, <1>4, <1>5, PostStep, DeleteStep, ReadStep, SendStep, CommitStep
  DEF OutboxNext, Dispatch, WatchIInv
<1>6. ASSUME Passes PROVE WatchIInv'
  BY <1>2, <1>6, WatchBounds DEF Passes, WatchIInv, WatchTypeOK, Remembers
<1>7. ASSUME DiskSwings PROVE WatchIInv'
  BY <1>2, <1>7, WatchBounds DEF DiskSwings, WatchIInv, WatchTypeOK, Remembers
<1>8. ASSUME NEW w \in Watched, Beat(w) PROVE WatchIInv'
  <2>1. beat' \in [Watched -> 0 .. MaxTime]
    BY <1>8 DEF Beat, WatchIInv, WatchTypeOK
  <2> QED
    BY <1>2, <1>8, <2>1 DEF Beat, WatchIInv, WatchTypeOK, Remembers
<1>9. ASSUME UNCHANGED vars PROVE WatchIInv'
  BY <1>1, <1>2, <1>9 DEF vars
<1> QED
  BY <1>5, <1>6, <1>7, <1>8, <1>9, CheckStep DEF Next

(* Through deaths, rollbacks, lost answers, muted categories and deleted   *)
(* rows, what is marked as sent was told or unwanted, and messages that    *)
(* are not virtual alerts arrive in the order of their ids                 *)
(* (notify/service.py:70-86).                                              *)
THEOREM DeliveredInOrder == Spec => []DeliveryInv
<1>1. WatchIInv => DeliveryInv
  BY DEF WatchIInv, OutboxInv, DeliveryInv
<1> QED
  BY InitWatch, NextWatch, <1>1, PTL DEF Spec

(* A problem that no check has found gone is not reported again within     *)
(* REPEAT_SECONDS (watchdog.py:52).                                        *)
THEOREM RepeatsRarely == Spec => NotTooOften
<1> DEFINE Rare ==
      \A k \in Problems :
        Len(rows') > Len(rows) /\ (\E i \in DOMAIN rows' \ Ids : k \in rows'[i].about) =>
          absent[k] \/ alerted[k] = Never \/ time - alerted[k] >= Repeat
<1>1. WatchIInv /\ [Next]_vars => [Rare]_vars
  <2> SUFFICES ASSUME WatchIInv, Next, NEW k \in Problems, NEW i \in DOMAIN rows' \ Ids,
                      k \in rows'[i].about
               PROVE  absent[k] \/ alerted[k] = Never \/ time - alerted[k] >= Repeat
    BY DEF Rare
  <2>1. CASE Check
    <3>1. k \in Due
      BY <2>1, CheckRows DEF Ids
    <3>2. seen[k] = Never \/ time - seen[k] >= Repeat
      BY <3>1 DEF Due
    <3> QED
      BY <3>2 DEF WatchIInv, Remembers
  <2>2. CASE Post
    <3>1. PICK kind \in {"news", "virtual"}, bad \in BOOLEAN :
            rows' = Append(rows, Row(kind, bad /\ kind = "news", {}, 0))
      BY <2>2 DEF Post
    <3> DEFINE r == Row(kind, bad /\ kind = "news", {}, 0)
    <3>2. r \in RowSet /\ ~r.sent /\ r.about = {}
      <4>1. kind \in Kinds /\ (bad /\ kind = "news") \in BOOLEAN /\ {} \in SUBSET Problems
            /\ 0 \in 0 .. MaxTime
        BY WatchBounds DEF Kinds
      <4> QED
        BY <4>1, RowFacts
    <3> HIDE DEF r
    <3>3. rows \in Seq(RowSet) /\ rows' = Append(rows, r)
      BY <3>1 DEF r, WatchIInv, OutboxInv
    <3>4. i = Len(rows) + 1 /\ rows'[i] = r
      BY <3>2, <3>3 DEF Ids
    <3> QED
      BY <3>2, <3>4
  <2>3. CASE ~Check /\ ~Post
    <3>1. DOMAIN rows' = Ids
      <4>1. CASE rows' = rows
        BY <4>1 DEF Ids
      <4>2. CASE DeleteRow
        BY <4>2 DEF DeleteRow, Ids
      <4>3. CASE Commit
        BY <4>3 DEF Commit, Ids
      <4> QED
        BY <2>3, <4>1, <4>2, <4>3
        DEF Next, OutboxNext, Dispatch, SetPrefs, ReadBatch, Send, Lose, Passes, DiskSwings, Beat,
            outboxVars
    <3> QED
      BY <3>1
  <2> QED
    BY <2>1, <2>2, <2>3
<1> QED
  BY InitWatch, NextWatch, <1>1, PTL DEF Spec, NotTooOften
=============================================================================
