-------------------------- MODULE TableMerge_proofs --------------------------
(***************************************************************************)
(* The merge loop is right for sections of every length, over every set of *)
(* keys and with every length of key.  The reader finds every record of a  *)
(* flush's table and of a compaction's, and a compaction reads back what   *)
(* either wrote.                                                           *)
(*                                                                         *)
(* What a recursive function computes is proved by its least               *)
(* counterexample (RecursionTheorems).                                     *)
(***************************************************************************)
EXTENDS TableMerge, RecursionTheorems, FiniteSetTheorems, TLAPS

-----------------------------------------------------------------------------
(* Sections                                                                *)

LEMMA RecordType ==
  ASSUME NEW data \in Seq(Record), NEW i \in 1..Len(data)
  PROVE  data[i] \in Record /\ data[i].key \in Nat
<1>1. data[i] \in Record
  OBVIOUS
<1>2. Keys \subseteq Nat
  BY KeyAssumption
<1> QED
  BY <1>1, <1>2 DEF Record

\* In a sorted section the places of two records compare as their keys do.
LEMMA Order ==
  ASSUME NEW data \in Seq(Record), Ascending(data),
         NEW i \in 1..Len(data), NEW j \in 1..Len(data)
  PROVE  data[i].key < data[j].key <=> i < j
<1>1. data[i].key \in Nat /\ data[j].key \in Nat
  BY RecordType
<1>2. i < j => data[i].key < data[j].key
  BY DEF Ascending
<1>3. j < i => data[j].key < data[i].key
  BY DEF Ascending
<1> QED
  BY <1>1, <1>2, <1>3

LEMMA SectionsType ==
  ASSUME NEW source \in {"left", "right"}, NEW data \in Sections(source)
  PROVE  data \in Seq(Record) /\ Ascending(data)
<1>1. Cardinality(Keys) \in Nat
  BY KeyAssumption, FS_CardinalityType
<1>2. PICK n \in 0..Cardinality(Keys) :
        data \in [1..n -> [key : Keys, dead : BOOLEAN, from : {source}]]
  BY DEF Sections
<1>3. [key : Keys, dead : BOOLEAN, from : {source}] \subseteq Record
  BY SourcesAssumption DEF Record
<1>4. data \in [1..n -> Record] /\ n \in Nat
  BY <1>1, <1>2, <1>3
<1>5. data \in Seq(Record)
  BY <1>4
<1> QED
  BY <1>5 DEF Sections

LEMMA AppendSorted ==
  ASSUME NEW data \in Seq(Record), NEW w \in Record, Ascending(data),
         \A r \in RecordsOf(data) : r.key < w.key
  PROVE  /\ Append(data, w) \in Seq(Record)
         /\ Ascending(Append(data, w))
         /\ RecordsOf(Append(data, w)) = RecordsOf(data) \cup {w}
<1> DEFINE longer == Append(data, w)
<1>1. /\ longer \in Seq(Record)
      /\ Len(longer) = Len(data) + 1
      /\ \A i \in 1..Len(data) : longer[i] = data[i]
      /\ longer[Len(data) + 1] = w
  OBVIOUS
<1>2. Ascending(longer)
  <2> SUFFICES ASSUME NEW i \in 1..Len(longer), NEW j \in 1..Len(longer), i < j
               PROVE  longer[i].key < longer[j].key
    BY <1>1 DEF Ascending
  <2>1. i \in 1..Len(data) /\ longer[i] = data[i]
    BY <1>1
  <2>2. CASE j \in 1..Len(data)
    BY <1>1, <2>1, <2>2 DEF Ascending
  <2>3. CASE j = Len(data) + 1
    BY <1>1, <2>1, <2>3 DEF RecordsOf
  <2> QED
    BY <1>1, <2>2, <2>3
<1>3. RecordsOf(longer) = RecordsOf(data) \cup {w}
  <2>1. DOMAIN longer = 1..(Len(data) + 1) /\ DOMAIN data = 1..Len(data)
    BY <1>1
  <2>2. 1..(Len(data) + 1) = (1..Len(data)) \cup {Len(data) + 1}
    OBVIOUS
  <2> QED
    BY <1>1, <2>1, <2>2 DEF RecordsOf
<1> QED
  BY <1>1, <1>2, <1>3

-----------------------------------------------------------------------------
(* Types                                                                   *)

LEMMA InitType == Init => TypeOK
<1> SUFFICES ASSUME Init PROVE TypeOK
  OBVIOUS
<1>1. left \in Seq(Record) /\ right \in Seq(Record)
  BY SectionsType DEF Init
<1>2. out \in Seq(Record)
  BY DEF Init
<1> QED
  BY <1>1, <1>2 DEF Init, TypeOK

LEMMA NextType == TypeOK /\ [Next]_mergeVars => TypeOK'
<1> SUFFICES ASSUME TypeOK, [Next]_mergeVars PROVE TypeOK'
  OBVIOUS
<1> USE DEF TypeOK, HasLeft, HasRight
<1>1. CASE SkipLeft
  BY <1>1 DEF SkipLeft, LeftRead
<1>2. CASE SkipRight
  BY <1>2 DEF SkipRight, RightRead
<1>3. CASE TakeLeft
  BY <1>3, RecordType DEF TakeLeft, WriteLeft
<1>4. CASE TakeRight
  BY <1>4, RecordType DEF TakeRight, WriteRight
<1>5. CASE TakeBoth
  BY <1>5, RecordType DEF TakeBoth, WriteLeft
<1>6. CASE DrainLeft
  BY <1>6, RecordType DEF DrainLeft, WriteLeft
<1>7. CASE DrainRight
  BY <1>7, RecordType DEF DrainRight, WriteRight
<1>8. CASE BuildTable
  BY <1>8 DEF BuildTable
<1>9. CASE UNCHANGED mergeVars
  BY <1>9 DEF mergeVars
<1> QED
  BY <1>1, <1>2, <1>3, <1>4, <1>5, <1>6, <1>7, <1>8, <1>9 DEF Next, Ended

\* Whatever the two sections, the merge reads no record behind the end of a
\* section and writes nothing but records.
THEOREM TypeCorrect == Spec => []TypeOK
<1>1. Init => TypeOK
  BY InitType
<1>2. TypeOK /\ [Next]_mergeVars => TypeOK'
  BY NextType
<1> QED
  BY <1>1, <1>2, PTL DEF Spec

-----------------------------------------------------------------------------
(* The invariant                                                           *)

\* What one section has read and not skipped comes before all the other has yet
\* to offer.
Precedes(a, p, b, q) ==
  \A i \in 1..(p - 1) : q <= Len(b) /\ ~IsTombstone(a[i]) => a[i].key < b[q].key

ReadRecords == {left[i] : i \in 1..(lp - 1)} \cup {right[i] : i \in 1..(rp - 1)}

\* MergedSoFar speaks of keys; which of them are behind changes when a tombstone
\* is skipped, too.  What is written is, more directly, what of the join is read.
IInv ==
  /\ TypeOK
  /\ Ascending(left) /\ Ascending(right) /\ Ascending(out)
  /\ Precedes(left, lp, right, rp)
  /\ Precedes(right, rp, left, lp)
  /\ RecordsOf(out) = JoinedRecords \cap ReadRecords

LEMMA PrecedesNext ==
  ASSUME NEW a \in Seq(Record), NEW b \in Seq(Record), Ascending(b),
         NEW p \in 1..(Len(a) + 1), NEW q \in 1..Len(b), Precedes(a, p, b, q)
  PROVE  Precedes(a, p, b, q + 1)
<1> SUFFICES ASSUME NEW i \in 1..(p - 1), q + 1 <= Len(b), ~IsTombstone(a[i])
             PROVE  a[i].key < b[q + 1].key
  BY DEF Precedes
<1>1. a[i].key < b[q].key
  BY DEF Precedes
<1>2. b[q].key < b[q + 1].key
  BY Order
<1>3. a[i].key \in Nat /\ b[q].key \in Nat /\ b[q + 1].key \in Nat
  BY RecordType
<1> QED
  BY <1>1, <1>2, <1>3

LEMMA PrecedesRead ==
  ASSUME NEW a, NEW b, NEW p \in Nat \ {0}, NEW q, Precedes(a, p, b, q),
         q <= Len(b) /\ ~IsTombstone(a[p]) => a[p].key < b[q].key
  PROVE  Precedes(a, p + 1, b, q)
BY DEF Precedes

\* The records of the join that are read are those whose keys are behind.
LEMMA ReadIsBehind ==
  ASSUME IInv, NEW r \in JoinedRecords
  PROVE  r \in ReadRecords <=> Behind(r.key)
<1> USE DEF IInv, TypeOK
<1>1. ~IsTombstone(r)
  BY DEF JoinedRecords, Alive
<1>2. ASSUME NEW i \in 1..(lp - 1), r = left[i]
      PROVE  Behind(r.key)
  <2>1. HasLeft => r.key < left[lp].key
    BY <1>2, Order DEF HasLeft
  <2>2. HasRight => r.key < right[rp].key
    BY <1>1, <1>2 DEF HasRight, Precedes
  <2> QED
    BY <2>1, <2>2 DEF Behind
<1>3. ASSUME NEW i \in 1..(rp - 1), r = right[i]
      PROVE  Behind(r.key)
  <2>1. HasRight => r.key < right[rp].key
    BY <1>3, Order DEF HasRight
  <2>2. HasLeft => r.key < left[lp].key
    BY <1>1, <1>3 DEF HasLeft, Precedes
  <2> QED
    BY <2>1, <2>2 DEF Behind
<1>4. ASSUME Behind(r.key), NEW i \in 1..Len(left), r = left[i]
      PROVE  i \in 1..(lp - 1)
  <2>1. CASE HasLeft
    BY <1>4, <2>1, Order DEF HasLeft, Behind
  <2>2. CASE ~HasLeft
    BY <2>2 DEF HasLeft
  <2> QED
    BY <2>1, <2>2
<1>5. ASSUME Behind(r.key), NEW i \in 1..Len(right), r = right[i]
      PROVE  i \in 1..(rp - 1)
  <2>1. CASE HasRight
    BY <1>5, <2>1, Order DEF HasRight, Behind
  <2>2. CASE ~HasRight
    BY <2>2 DEF HasRight
  <2> QED
    BY <2>1, <2>2
<1>6. \/ \E i \in 1..Len(left) : r = left[i]
      \/ \E i \in 1..Len(right) : r = right[i]
  BY DEF JoinedRecords, Alive, RecordsOf
<1> QED
  BY <1>2, <1>3, <1>4, <1>5, <1>6 DEF ReadRecords

LEMMA InitInvariant == Init => IInv
<1> SUFFICES ASSUME Init PROVE IInv
  OBVIOUS
<1>1. Ascending(left) /\ Ascending(right)
  BY SectionsType DEF Init
<1>2. Ascending(out) /\ RecordsOf(out) = {}
  BY DEF Init, Ascending, RecordsOf
<1>3. ReadRecords = {}
  BY DEF Init, ReadRecords
<1>4. Precedes(left, lp, right, rp) /\ Precedes(right, rp, left, lp)
  BY DEF Init, Precedes
<1> QED
  BY <1>1, <1>2, <1>3, <1>4, InitType DEF IInv

LEMMA InvariantGivesProperty == IInv => MergedSoFar
BY ReadIsBehind DEF MergedSoFar, IInv

-----------------------------------------------------------------------------
(* The steps                                                               *)

\* The next record of either side comes after all that is written.
LEMMA WriteNext ==
  ASSUME IInv, NEW w,
         (HasLeft /\ w = left[lp]) \/ (HasRight /\ w = right[rp])
  PROVE  /\ Ascending(Append(out, w))
         /\ RecordsOf(Append(out, w)) = (JoinedRecords \cap ReadRecords) \cup {w}
<1> USE DEF IInv, TypeOK
<1>1. w \in Record
  BY RecordType DEF HasLeft, HasRight
<1>2. ASSUME NEW r \in RecordsOf(out)
      PROVE  r.key < w.key
  <2>1. r \in JoinedRecords /\ r \in ReadRecords
    BY <1>2
  <2> QED
    BY <2>1, ReadIsBehind DEF Behind
<1> QED
  BY <1>1, <1>2, AppendSorted

\* A record of the left side that counts is in the join.
LEMMA LeftJoined ==
  ASSUME IInv, HasLeft, LeftRead
  PROVE  left[lp] \in JoinedRecords
BY DEF IInv, TypeOK, HasLeft, LeftRead, JoinedRecords, Alive, RecordsOf

\* One of the right side is, if the left side has only greater keys to come.
LEMMA RightJoined ==
  ASSUME IInv, HasRight, RightRead, HasLeft => right[rp].key < left[lp].key
  PROVE  right[rp] \in JoinedRecords
<1> USE DEF IInv, TypeOK
<1>1. right[rp] \in Alive(right) /\ right[rp].key \in Nat
  BY RecordType DEF HasRight, RightRead, Alive, RecordsOf
<1>2. ASSUME NEW i \in 1..Len(left), ~IsTombstone(left[i])
      PROVE  left[i].key # right[rp].key
  <2>1. left[i].key \in Nat
    BY RecordType
  <2>2. CASE i \in 1..(lp - 1)
    <3>1. left[i].key < right[rp].key
      BY <1>2, <2>2 DEF HasRight, Precedes
    <3> QED
      BY <1>1, <2>1, <3>1
  <2>3. CASE i = lp
    BY <1>1, <2>1, <2>3 DEF HasLeft
  <2>4. CASE i > lp
    <3>1. HasLeft /\ lp \in 1..Len(left)
      BY <2>4 DEF HasLeft
    <3>2. left[lp].key < left[i].key /\ left[lp].key \in Nat
      BY <2>4, <3>1, Order, RecordType
    <3> QED
      BY <1>1, <2>1, <3>1, <3>2
  <2> QED
    BY <2>2, <2>3, <2>4
<1>3. ASSUME NEW s \in Alive(left)
      PROVE  s.key # right[rp].key
  <2>1. PICK i \in 1..Len(left) : s = left[i] /\ ~IsTombstone(s)
    BY DEF Alive, RecordsOf
  <2> QED
    BY <1>2, <2>1
<1> QED
  BY <1>1, <1>3 DEF JoinedRecords

\* Of two records with the same key the join has only the left one.
LEMMA EqualKeys ==
  ASSUME IInv, HasLeft, HasRight, LeftRead, left[lp].key = right[rp].key
  PROVE  JoinedRecords \cap {left[lp], right[rp]} = {left[lp]}
<1> USE DEF IInv, TypeOK
<1>1. left[lp] \in JoinedRecords /\ left[lp] \in Alive(left)
  BY LeftJoined DEF HasLeft, LeftRead, Alive, RecordsOf
<1>2. ASSUME right[rp] \in JoinedRecords
      PROVE  right[rp] = left[lp]
  <2>1. right[rp] \in Alive(left)
    BY <1>1, <1>2 DEF JoinedRecords
  <2>2. PICK i \in 1..Len(left) : right[rp] = left[i]
    BY <2>1 DEF Alive, RecordsOf
  <2>3. lp \in 1..Len(left) /\ left[i].key \in Nat /\ left[lp].key \in Nat
    BY RecordType DEF HasLeft
  <2>4. i = lp
    BY <2>2, <2>3, Order
  <2> QED
    BY <2>2, <2>4
<1> QED
  BY <1>1, <1>2

\* Reading on adds a record to those read.
LEMMA LeftReadNext ==
  ASSUME IInv, HasLeft, lp' = lp + 1, UNCHANGED <<left, right, rp>>
  PROVE  ReadRecords' = ReadRecords \cup {left[lp]}
BY DEF IInv, TypeOK, ReadRecords, HasLeft

LEMMA RightReadNext ==
  ASSUME IInv, HasRight, rp' = rp + 1, UNCHANGED <<left, right, lp>>
  PROVE  ReadRecords' = ReadRecords \cup {right[rp]}
BY DEF IInv, TypeOK, ReadRecords, HasRight

LEMMA BothReadNext ==
  ASSUME IInv, HasLeft, HasRight, lp' = lp + 1, rp' = rp + 1, UNCHANGED <<left, right>>
  PROVE  ReadRecords' = ReadRecords \cup {left[lp], right[rp]}
BY DEF IInv, TypeOK, ReadRecords, HasLeft, HasRight

\* The inputs and what the join of them holds stay the same.
LEMMA JoinStays ==
  ASSUME UNCHANGED <<left, right>>
  PROVE  JoinedRecords' = JoinedRecords
BY DEF JoinedRecords, Alive, RecordsOf, IsTombstone

\* One side reads on: the two sides still precede each other.
LEMMA LeftAdvances ==
  ASSUME IInv, HasLeft, lp' = lp + 1, UNCHANGED <<left, right, rp>>,
         HasRight /\ ~IsTombstone(left[lp]) => left[lp].key < right[rp].key
  PROVE  Precedes(left, lp, right, rp)' /\ Precedes(right, rp, left, lp)'
<1> USE DEF IInv, TypeOK, HasLeft, HasRight
<1>1. Precedes(left, lp + 1, right, rp)
  <2>1. lp \in Nat \ {0}
    OBVIOUS
  <2>2. rp <= Len(right) /\ ~IsTombstone(left[lp]) => left[lp].key < right[rp].key
    OBVIOUS
  <2> QED
    BY <2>1, <2>2, PrecedesRead
<1>2. Precedes(right, rp, left, lp + 1)
  BY PrecedesNext
<1> QED
  BY <1>1, <1>2 DEF Precedes, IsTombstone

LEMMA RightAdvances ==
  ASSUME IInv, HasRight, rp' = rp + 1, UNCHANGED <<left, right, lp>>,
         HasLeft /\ ~IsTombstone(right[rp]) => right[rp].key < left[lp].key
  PROVE  Precedes(left, lp, right, rp)' /\ Precedes(right, rp, left, lp)'
<1> USE DEF IInv, TypeOK, HasLeft, HasRight
<1>1. Precedes(right, rp + 1, left, lp)
  <2>1. rp \in Nat \ {0}
    OBVIOUS
  <2>2. lp <= Len(left) /\ ~IsTombstone(right[rp]) => right[rp].key < left[lp].key
    OBVIOUS
  <2> QED
    BY <2>1, <2>2, PrecedesRead
<1>2. Precedes(left, lp, right, rp + 1)
  BY PrecedesNext
<1> QED
  BY <1>1, <1>2 DEF Precedes, IsTombstone

LEMMA BothAdvance ==
  ASSUME IInv, HasLeft, HasRight, left[lp].key = right[rp].key,
         lp' = lp + 1, rp' = rp + 1, UNCHANGED <<left, right>>
  PROVE  Precedes(left, lp, right, rp)' /\ Precedes(right, rp, left, lp)'
<1> USE DEF IInv, TypeOK, HasLeft, HasRight
<1>1. Precedes(left, lp, right, rp + 1) /\ Precedes(right, rp, left, lp + 1)
  BY PrecedesNext
<1>2. rp + 1 <= Len(right) => left[lp].key < right[rp + 1].key
  BY Order
<1>3. lp + 1 <= Len(left) => right[rp].key < left[lp + 1].key
  BY Order
<1>4. lp \in Nat \ {0} /\ rp \in Nat \ {0}
  OBVIOUS
<1>5. Precedes(left, lp + 1, right, rp + 1)
  BY <1>1, <1>2, <1>4, PrecedesRead
<1>6. Precedes(right, rp + 1, left, lp + 1)
  BY <1>1, <1>3, <1>4, PrecedesRead
<1> QED
  BY <1>5, <1>6 DEF Precedes, IsTombstone

LEMMA NextInvariant == IInv /\ [Next]_mergeVars => IInv'
<1> SUFFICES ASSUME IInv, [Next]_mergeVars PROVE IInv'
  OBVIOUS
<1>0. TypeOK'
  BY NextType DEF IInv
<1>1. CASE SkipLeft
  <2>1. HasLeft /\ IsTombstone(left[lp])
    BY <1>1 DEF SkipLeft, LeftRead
  <2>2. /\ lp' = lp + 1
        /\ UNCHANGED <<left, right, rp, out>>
    BY <1>1 DEF SkipLeft
  <2>3. Precedes(left, lp, right, rp)' /\ Precedes(right, rp, left, lp)'
    BY <2>1, <2>2, LeftAdvances
  <2>4. left[lp] \notin JoinedRecords
    BY <2>1 DEF JoinedRecords, Alive
  <2>5. JoinedRecords' \cap ReadRecords' = JoinedRecords \cap ReadRecords
    BY <2>1, <2>2, <2>4, JoinStays, LeftReadNext
  <2> QED
    BY <1>0, <2>2, <2>3, <2>5 DEF IInv, Ascending, RecordsOf
<1>2. CASE SkipRight
  <2>1. HasRight /\ IsTombstone(right[rp])
    BY <1>2 DEF SkipRight, RightRead
  <2>2. /\ rp' = rp + 1
        /\ UNCHANGED <<left, right, lp, out>>
    BY <1>2 DEF SkipRight
  <2>3. Precedes(left, lp, right, rp)' /\ Precedes(right, rp, left, lp)'
    BY <2>1, <2>2, RightAdvances
  <2>4. right[rp] \notin JoinedRecords
    BY <2>1 DEF JoinedRecords, Alive
  <2>5. JoinedRecords' \cap ReadRecords' = JoinedRecords \cap ReadRecords
    BY <2>1, <2>2, <2>4, JoinStays, RightReadNext
  <2> QED
    BY <1>0, <2>2, <2>3, <2>5 DEF IInv, Ascending, RecordsOf
<1>3. ASSUME TakeLeft \/ DrainLeft
      PROVE  IInv'
  <2>1. /\ HasLeft /\ LeftRead
        /\ HasRight => left[lp].key < right[rp].key
        /\ lp' = lp + 1
        /\ out' = Append(out, left[lp])
        /\ UNCHANGED <<left, right, rp>>
    BY <1>3 DEF TakeLeft, DrainLeft, WriteLeft
  <2>2. Precedes(left, lp, right, rp)' /\ Precedes(right, rp, left, lp)'
    BY <2>1, LeftAdvances
  <2>3. JoinedRecords' \cap ReadRecords' = (JoinedRecords \cap ReadRecords) \cup {left[lp]}
    BY <2>1, JoinStays, LeftReadNext, LeftJoined
  <2>4. Ascending(out') /\ RecordsOf(out') = JoinedRecords' \cap ReadRecords'
    BY <2>1, <2>3, WriteNext
  <2> QED
    BY <1>0, <2>1, <2>2, <2>4 DEF IInv, Ascending, RecordsOf
<1>4. ASSUME TakeRight \/ DrainRight
      PROVE  IInv'
  <2>1. /\ HasRight /\ RightRead
        /\ HasLeft => left[lp].key > right[rp].key
        /\ rp' = rp + 1
        /\ out' = Append(out, right[rp])
        /\ UNCHANGED <<left, right, lp>>
    BY <1>4 DEF TakeRight, DrainRight, WriteRight
  <2>2. HasLeft => right[rp].key < left[lp].key
    <3>1. HasLeft => left[lp].key \in Nat /\ right[rp].key \in Nat
      BY <2>1, RecordType DEF IInv, TypeOK, HasLeft, HasRight
    <3> QED
      BY <2>1, <3>1
  <2>3. Precedes(left, lp, right, rp)' /\ Precedes(right, rp, left, lp)'
    BY <2>1, <2>2, RightAdvances
  <2>4. JoinedRecords' \cap ReadRecords' = (JoinedRecords \cap ReadRecords) \cup {right[rp]}
    BY <2>1, <2>2, JoinStays, RightReadNext, RightJoined
  <2>5. Ascending(out') /\ RecordsOf(out') = JoinedRecords' \cap ReadRecords'
    BY <2>1, <2>4, WriteNext
  <2> QED
    BY <1>0, <2>1, <2>3, <2>5 DEF IInv, Ascending, RecordsOf
<1>5. CASE TakeBoth
  <2>1. /\ HasLeft /\ HasRight /\ LeftRead
        /\ left[lp].key = right[rp].key
        /\ lp' = lp + 1 /\ rp' = rp + 1
        /\ out' = Append(out, left[lp])
        /\ UNCHANGED <<left, right>>
    BY <1>5 DEF TakeBoth, WriteLeft
  <2>2. Precedes(left, lp, right, rp)' /\ Precedes(right, rp, left, lp)'
    BY <2>1, BothAdvance
  <2>3. JoinedRecords' \cap ReadRecords' = (JoinedRecords \cap ReadRecords) \cup {left[lp]}
    BY <2>1, JoinStays, BothReadNext, EqualKeys
  <2>4. Ascending(out') /\ RecordsOf(out') = JoinedRecords' \cap ReadRecords'
    BY <2>1, <2>3, WriteNext
  <2> QED
    BY <1>0, <2>1, <2>2, <2>4 DEF IInv, Ascending, RecordsOf
<1>6. ASSUME BuildTable \/ UNCHANGED mergeVars
      PROVE  IInv'
  <2>1. UNCHANGED <<left, right, lp, rp, out>>
    BY <1>6 DEF BuildTable, mergeVars
  <2>2. JoinedRecords' = JoinedRecords /\ ReadRecords' = ReadRecords
    BY <2>1, JoinStays DEF ReadRecords
  <2>3. Precedes(left, lp, right, rp)' /\ Precedes(right, rp, left, lp)'
    BY <2>1 DEF IInv, Precedes, IsTombstone
  <2> QED
    BY <1>0, <2>1, <2>2, <2>3 DEF IInv, Ascending, RecordsOf
<1> QED
  BY <1>1, <1>2, <1>3, <1>4, <1>5, <1>6 DEF Next, Ended

\* join_tables merges any two sorted sections, however long: what it has written
\* at any moment is sorted and is the join of all that it has left behind.
THEOREM MergeCorrect == Spec => []MergedSoFar
<1>1. Init => IInv
  BY InitInvariant
<1>2. IInv /\ [Next]_mergeVars => IInv'
  BY NextInvariant
<1>3. IInv => MergedSoFar
  BY InvariantGivesProperty
<1> QED
  BY <1>1, <1>2, <1>3, PTL DEF Spec

-----------------------------------------------------------------------------
(* Recursion over a section                                                *)

LEMMA BytesType ==
  ASSUME NEW data \in Seq(Record), NEW i \in 1..Len(data)
  PROVE  Bytes(data[i]) \in Nat /\ Bytes(data[i]) > 0
<1>1. data[i] \in Record
  OBVIOUS
<1>2. KeySize[data[i].key] \in Nat /\ ValueSize \in Nat
  BY <1>1, SizeAssumption DEF Record
<1>3. Bytes(data[i]) = 4 + KeySize[data[i].key] + 4 + (IF data[i].dead THEN 1 ELSE ValueSize)
  BY DEF Bytes, LenSize
<1> QED
  BY <1>2, <1>3

-----------------------------------------------------------------------------
(* Offsets                                                                 *)

LEMMA OffsetsNext ==
  ASSUME NEW data \in Seq(Record)
  PROVE  /\ Offsets(data) \in [1..(Len(data) + 1) -> Nat]
         /\ Offsets(data)[1] = 0
         /\ \A i \in 1..Len(data) : Offsets(data)[i + 1] = Offsets(data)[i] + Bytes(data[i])
<1> DEFINE n == Len(data)
           step == [p \in Nat \X (1..n) |-> p[1] + Bytes(data[p[2]])]
<1>1. n \in Nat /\ step \in [Nat \X (1..n) -> Nat]
  BY BytesType
<1>2. PICK f \in [0..n -> Nat] : f = [i \in 0..n |-> IF i = 0 THEN 0 ELSE step[<<f[i - 1], i>>]]
  <2> HIDE DEF step, n
  <2>1. \E f \in [0..n -> Nat] : Iterates(f, n, 0, step)
    BY <1>1, IteratesExist
  <2> QED
    BY <2>1, Zenon DEF Iterates
<1> DEFINE g == [i \in 1..(n + 1) |-> f[i - 1]]
<1>3. g \in [1..(n + 1) -> Nat] /\ g[1] = 0
  <2>1. f[0] = 0
    BY <1>1, <1>2
  <2>2. \A i \in 1..(n + 1) : i - 1 \in 0..n
    BY <1>1
  <2>3. 1 \in 1..(n + 1) /\ 1 - 1 = 0
    BY <1>1
  <2> HIDE DEF n
  <2>4. g[1] = f[1 - 1]
    BY <2>3
  <2> QED
    BY <2>1, <2>2, <2>3, <2>4
<1>4. ASSUME NEW i \in 1..(n + 1), i # 1
      PROVE  g[i] = g[i - 1] + Bytes(data[i - 1])
  <2>1. i - 1 \in 1..n /\ i - 1 # 0 /\ (i - 1) - 1 \in 0..n /\ i - 1 \in 0..n /\ i - 1 \in 1..(n + 1)
    BY <1>1, <1>4
  <2>2. f[i - 1] = step[<<f[(i - 1) - 1], i - 1>>]
    BY <1>2, <2>1
  <2>3. f[(i - 1) - 1] \in Nat
    BY <1>2, <2>1
  <2>4. step[<<f[(i - 1) - 1], i - 1>>] = f[(i - 1) - 1] + Bytes(data[i - 1])
    BY <2>1, <2>3
  <2> QED
    BY <2>1, <2>2, <2>4
<1>5. g = [i \in 1..(n + 1) |-> IF i = 1 THEN 0 ELSE g[i - 1] + Bytes(data[i - 1])]
  BY <1>3, <1>4
<1> HIDE DEF g
<1>6. Offsets(data) = [i \in 1..(n + 1) |->
                         IF i = 1 THEN 0 ELSE Offsets(data)[i - 1] + Bytes(data[i - 1])]
  BY <1>5 DEF Offsets
<1> DEFINE o == Offsets(data)
           Bad == {m \in 1..(n + 1) : o[m] \notin Nat}
<1>7. /\ DOMAIN o = 1..(n + 1)
      /\ o[1] = 0
      /\ \A i \in 1..n : o[i + 1] = o[i] + Bytes(data[i])
      /\ o = [i \in 1..(n + 1) |-> o[i]]
  <2>1. \A i \in 1..n : i + 1 \in 1..(n + 1) /\ i + 1 # 1 /\ (i + 1) - 1 = i
    BY <1>1
  <2>2. 1 \in 1..(n + 1)
    BY <1>1
  <2> HIDE DEF n
  <2> QED
    BY <1>6, <2>1, <2>2
<1> HIDE DEF o
<1>8. Bad = {}
  <2> SUFFICES ASSUME Bad # {}
               PROVE  FALSE
    OBVIOUS
  <2>1. PICK m \in Bad : \A l \in Bad : m <= l
    <3>1. Bad \in SUBSET Nat
      OBVIOUS
    <3> HIDE DEF Bad
    <3> QED
      BY <3>1, Least
  <2>2. m # 1
    BY <1>7
  <2>3. m - 1 \in 1..n /\ m - 1 \in 1..(n + 1) /\ m - 1 \notin Bad /\ (m - 1) + 1 = m
    BY <1>1, <2>1, <2>2
  <2>4. o[m - 1] \in Nat /\ Bytes(data[m - 1]) \in Nat
    BY <2>3, BytesType
  <2>5. o[m] = o[m - 1] + Bytes(data[m - 1])
    BY <1>7, <2>3
  <2> QED
    BY <2>1, <2>4, <2>5
<1> QED
  BY <1>7, <1>8 DEF o

\* Records start at different bytes, the later ones behind.
LEMMA OffsetsRise ==
  ASSUME NEW data \in Seq(Record), NEW i \in 1..(Len(data) + 1), NEW j \in 1..(Len(data) + 1),
         i < j
  PROVE  Offsets(data)[i] < Offsets(data)[j]
<1> DEFINE o == Offsets(data)
           Bad == {m \in (i + 1)..(Len(data) + 1) : ~(o[i] < o[m])}
<1>1. Len(data) \in Nat /\ i \in Nat
  OBVIOUS
<1>2. /\ \A m \in 1..(Len(data) + 1) : o[m] \in Nat
      /\ \A m \in 1..Len(data) : o[m + 1] = o[m] + Bytes(data[m]) /\ Bytes(data[m]) > 0
                                 /\ Bytes(data[m]) \in Nat
  BY OffsetsNext, BytesType
<1> HIDE DEF o
<1> SUFFICES ASSUME Bad # {}
             PROVE  FALSE
  BY <1>1 DEF o
<1>3. PICK m \in Bad : \A l \in Bad : m <= l
  <2>1. Bad \in SUBSET Nat
    BY <1>1
  <2> HIDE DEF Bad
  <2> QED
    BY <2>1, Least
<1>4. m - 1 \in 1..Len(data) /\ (m - 1) + 1 = m /\ m - 1 \in 1..(Len(data) + 1) /\ m - 1 \notin Bad
  BY <1>1, <1>3
<1>5. o[i] <= o[m - 1]
  <2>1. CASE m = i + 1
    <3>1. m - 1 = i
      BY <1>1, <2>1
    <3> QED
      BY <1>2, <3>1
  <2>2. CASE m # i + 1
    <3>1. m - 1 \in (i + 1)..(Len(data) + 1)
      BY <1>1, <1>3, <2>2
    <3>2. o[i] < o[m - 1]
      BY <1>4, <3>1
    <3> QED
      <4>1. o[i] \in Nat /\ o[m - 1] \in Nat
        BY <1>2, <1>4
      <4> QED
        BY <3>2, <4>1
  <2> QED
    BY <2>1, <2>2
<1>6. o[m] = o[m - 1] + Bytes(data[m - 1])
  BY <1>2, <1>4
<1>7. Bytes(data[m - 1]) > 0 /\ Bytes(data[m - 1]) \in Nat /\ o[m - 1] \in Nat /\ o[i] \in Nat
  BY <1>2, <1>4
<1> QED
  BY <1>3, <1>5, <1>6, <1>7

-----------------------------------------------------------------------------
(* The index                                                               *)

\* A mark is for a record, and the first record has one.
Indexed(data, index) ==
  /\ DOMAIN index \subseteq 1..Len(data)
  /\ data # <<>> => 1 \in DOMAIN index
  /\ \A i \in DOMAIN index : index[i].offset = Offsets(data)[i] /\ index[i].key = data[i].key

LEMMA FlushIndexed ==
  ASSUME NEW data \in Seq(Record)
  PROVE  Indexed(data, FlushIndex(data))
<1> DEFINE n == Len(data)
           Starts(since, size) == since = 0 \/ since + size > BlockSize
           step == [p \in Nat \X (1..n) |->
                      IF Starts(p[1], Bytes(data[p[2]])) THEN Bytes(data[p[2]])
                      ELSE p[1] + Bytes(data[p[2]])]
           Next0(f) == [i \in 0..n |-> IF i = 0 THEN 0
                          ELSE IF Starts(f[i - 1], Bytes(data[i])) THEN Bytes(data[i])
                          ELSE f[i - 1] + Bytes(data[i])]
           since == CHOOSE f : f = Next0(f)
           marked == {i \in DOMAIN data : Starts(since[i - 1], Bytes(data[i]))}
<1>1. n \in Nat /\ step \in [Nat \X (1..n) -> Nat]
  BY BytesType
<1>2. PICK f \in [0..n -> Nat] : f = [i \in 0..n |-> IF i = 0 THEN 0 ELSE step[<<f[i - 1], i>>]]
  <2> HIDE DEF step, n
  <2>1. \E f \in [0..n -> Nat] : Iterates(f, n, 0, step)
    BY <1>1, IteratesExist
  <2> QED
    BY <2>1, Zenon DEF Iterates
<1>3. f = Next0(f)
  <2>1. ASSUME NEW i \in 1..n
        PROVE  step[<<f[i - 1], i>>] = IF Starts(f[i - 1], Bytes(data[i])) THEN Bytes(data[i])
                                       ELSE f[i - 1] + Bytes(data[i])
    <3>1. f[i - 1] \in Nat
      <4>1. i - 1 \in 0..n
        BY <1>1
      <4> HIDE DEF n, step
      <4> QED
        BY <4>1
    <3> QED
      BY <3>1
  <2>2. \A i \in 0..n : i # 0 => i \in 1..n
    BY <1>1
  <2> HIDE DEF step, n, Starts
  <2> QED
    BY <1>2, <2>1, <2>2
<1>4. since = Next0(since)
  <2> HIDE DEF Next0
  <2> QED
    BY <1>3
<1>5. since[0] = 0
  <2>1. 0 \in 0..n
    BY <1>1
  <2> HIDE DEF since, n, Starts
  <2> QED
    BY <1>4, <2>1
<1>6. FlushIndex(data) = [i \in marked |-> [offset |-> Offsets(data)[i], key |-> data[i].key]]
  BY DEF FlushIndex, IndexBy
<1>7. data # <<>> => 1 \in marked
  <2>1. 1 - 1 = 0
    OBVIOUS
  <2>2. data # <<>> => 1 \in DOMAIN data
    OBVIOUS
  <2> HIDE DEF since
  <2> QED
    BY <1>5, <2>1, <2>2
<1>8. marked \subseteq 1..n
  OBVIOUS
<1> HIDE DEF marked
<1> QED
  BY <1>6, <1>7, <1>8 DEF Indexed

LEMMA FrameIndexed ==
  ASSUME NEW data \in Seq(Record)
  PROVE  Indexed(data, FrameIndex(data))
<1> DEFINE n == Len(data)
           Starts(since, size) == since = 0 \/ since >= BlockStride
           step == [p \in Nat \X (1..n) |->
                      IF Starts(p[1], Bytes(data[p[2]])) THEN Bytes(data[p[2]])
                      ELSE p[1] + Bytes(data[p[2]])]
           Next0(f) == [i \in 0..n |-> IF i = 0 THEN 0
                          ELSE IF Starts(f[i - 1], Bytes(data[i])) THEN Bytes(data[i])
                          ELSE f[i - 1] + Bytes(data[i])]
           since == CHOOSE f : f = Next0(f)
           marked == {i \in DOMAIN data : Starts(since[i - 1], Bytes(data[i]))}
<1>1. n \in Nat /\ step \in [Nat \X (1..n) -> Nat]
  BY BytesType
<1>2. PICK f \in [0..n -> Nat] : f = [i \in 0..n |-> IF i = 0 THEN 0 ELSE step[<<f[i - 1], i>>]]
  <2> HIDE DEF step, n
  <2>1. \E f \in [0..n -> Nat] : Iterates(f, n, 0, step)
    BY <1>1, IteratesExist
  <2> QED
    BY <2>1, Zenon DEF Iterates
<1>3. f = Next0(f)
  <2>1. ASSUME NEW i \in 1..n
        PROVE  step[<<f[i - 1], i>>] = IF Starts(f[i - 1], Bytes(data[i])) THEN Bytes(data[i])
                                       ELSE f[i - 1] + Bytes(data[i])
    <3>1. f[i - 1] \in Nat
      <4>1. i - 1 \in 0..n
        BY <1>1
      <4> HIDE DEF n, step
      <4> QED
        BY <4>1
    <3> QED
      BY <3>1
  <2>2. \A i \in 0..n : i # 0 => i \in 1..n
    BY <1>1
  <2> HIDE DEF step, n, Starts
  <2> QED
    BY <1>2, <2>1, <2>2
<1>4. since = Next0(since)
  <2> HIDE DEF Next0
  <2> QED
    BY <1>3
<1>5. since[0] = 0
  <2>1. 0 \in 0..n
    BY <1>1
  <2> HIDE DEF since, n, Starts
  <2> QED
    BY <1>4, <2>1
<1>6. FrameIndex(data) = [i \in marked |-> [offset |-> Offsets(data)[i], key |-> data[i].key]]
  BY DEF FrameIndex, IndexBy
<1>7. data # <<>> => 1 \in marked
  <2>1. 1 - 1 = 0
    OBVIOUS
  <2>2. data # <<>> => 1 \in DOMAIN data
    OBVIOUS
  <2> HIDE DEF since
  <2> QED
    BY <1>5, <2>1, <2>2
<1>8. marked \subseteq 1..n
  OBVIOUS
<1> HIDE DEF marked
<1> QED
  BY <1>6, <1>7, <1>8 DEF Indexed

-----------------------------------------------------------------------------
(* The reader                                                              *)

\* What a table with these records should answer.
Answer(data, key) ==
  IF key \in KeysOf(data)
  THEN Found(data[CHOOSE i \in DOMAIN data : data[i].key = key])
  ELSE Missing

\* The filter never denies a key it was built from, whatever the hashes are.
LEMMA FilterKeeps ==
  ASSUME NEW keys, NEW key \in keys
  PROVE  ProbablyExist(Filter(keys), key)
<1> DEFINE k == OptimalK(IF keys = {} THEN 1 ELSE Cardinality(keys))
<1>1. Filter(keys) = [k |-> k, bits |-> UNION {Probes(k, x) : x \in keys}]
  BY DEF Filter
<1> HIDE DEF k
<1>2. Filter(keys).k = k /\ Filter(keys).bits = UNION {Probes(k, x) : x \in keys}
  BY <1>1
<1>3. Probes(k, key) \subseteq UNION {Probes(k, x) : x \in keys}
  OBVIOUS
<1> QED
  BY <1>2, <1>3 DEF ProbablyExist

\* A scan from a record not above the key comes to the key's record, or to one that
\* is above it.
LEMMA ScanAnswers ==
  ASSUME NEW t, NEW data \in Seq(Record), t.data = data, Ascending(data),
         NEW key \in Keys, NEW start \in 1..Len(data),
         data[start].key <= key, key <= data[Len(data)].key
  PROVE  ScanFrom(t, start, key) = Answer(data, key)
<1> DEFINE reached == {i \in start..Len(data) : data[i].key >= key}
           m == Min(reached)
<1>1. /\ key \in Nat /\ start \in Nat /\ Len(data) \in Nat /\ DOMAIN data = 1..Len(data)
      /\ \A i \in 1..Len(data) : data[i].key \in Nat
  BY RecordType, KeyAssumption
<1>2. reached \in SUBSET Nat /\ reached # {}
  <2>1. Len(data) \in reached
    BY <1>1
  <2> QED
    BY <1>1, <2>1
<1>3. m \in reached /\ \A i \in reached : m <= i
  <2> HIDE DEF reached
  <2> QED
    BY <1>2, LeastOf
<1>4. m \in 1..Len(data) /\ data[m].key >= key
  <2>1. m \in start..Len(data) /\ data[m].key >= key
    BY <1>3
  <2> HIDE DEF m
  <2>2. start \in 1..Len(data)
    OBVIOUS
  <2> QED
    BY <1>1, <2>1, <2>2
<1>5. ScanFrom(t, start, key) = IF data[m].key = key THEN Found(data[m]) ELSE Missing
  BY <1>2 DEF ScanFrom
<1> HIDE DEF m
<1>6. CASE data[m].key = key
  <2>1. \A i \in DOMAIN data : data[i].key = key => i = m
    BY <1>1, <1>4, <1>6, Order
  <2>2. (CHOOSE i \in DOMAIN data : data[i].key = key) = m
    BY <1>1, <1>4, <1>6, <2>1
  <2>3. key \in KeysOf(data)
    BY <1>1, <1>4, <1>6 DEF KeysOf
  <2> QED
    BY <1>5, <1>6, <2>2, <2>3 DEF Answer
<1>7. CASE data[m].key # key
  <2>1. ASSUME NEW i \in DOMAIN data, data[i].key = key
        PROVE  FALSE
    <3>1. i \in 1..Len(data) /\ ~(data[i].key < data[start].key)
      BY <1>1, <2>1
    <3>2. i \in reached
      BY <1>1, <2>1, <3>1, Order
    <3>3. data[i].key < data[m].key
      BY <1>1, <1>4, <1>7, <2>1
    <3>4. i < m /\ m <= i
      BY <1>1, <1>3, <1>4, <3>1, <3>2, <3>3, Order
    <3> QED
      BY <1>1, <1>4, <3>1, <3>4
  <2>2. key \notin KeysOf(data)
    BY <2>1 DEF KeysOf
  <2> QED
    BY <1>5, <1>7, <2>2 DEF Answer
<1> QED
  BY <1>6, <1>7

\* The last mark not above the key says where a record starts that is not above it.
LEMMA SearchAnswers ==
  ASSUME NEW t, NEW data \in Seq(Record), t.data = data, Ascending(data),
         Indexed(data, t.index), data # <<>>, NEW key \in Keys,
         data[1].key <= key, key <= data[Len(data)].key
  PROVE  Search(t, key) = Answer(data, key)
<1> DEFINE marks == {n \in DOMAIN t.index : t.index[n].key <= key}
           m == Max(marks)
           start == CHOOSE i \in 1..(Len(data) + 1) : Offsets(data)[i] = t.index[m].offset
<1>1. Len(data) \in Nat /\ marks \in SUBSET (1..Len(data)) /\ marks # {}
  <2>1. 1 \in marks
    BY DEF Indexed
  <2> QED
    BY <2>1 DEF Indexed
<1>2. m \in marks
  <2> HIDE DEF marks
  <2> QED
    BY <1>1, GreatestOf
<1>3. m \in 1..Len(data) /\ data[m].key <= key /\ t.index[m].offset = Offsets(data)[m]
  BY <1>2 DEF Indexed
<1>4. Search(t, key) = ScanFrom(t, start, key)
  BY <1>1 DEF Search
<1> HIDE DEF m
<1>5. start = m
  <2>1. m \in 1..(Len(data) + 1) /\ Offsets(data)[m] \in Nat
    BY <1>1, <1>3, OffsetsNext
  <2>2. ASSUME NEW i \in 1..(Len(data) + 1), Offsets(data)[i] = Offsets(data)[m]
        PROVE  i = m
    <3>1. Offsets(data)[i] \in Nat
      BY OffsetsNext
    <3>2. ~(i < m) /\ ~(m < i)
      BY <2>1, <2>2, OffsetsRise
    <3> QED
      BY <1>1, <2>1, <3>2
  <2> QED
    BY <1>3, <2>1, <2>2
<1> HIDE DEF start
<1> QED
  BY <1>3, <1>4, <1>5, ScanAnswers

\* The range, the filter and the search of a table, together.
LEMMA TableAnswers ==
  ASSUME NEW data \in Seq(Record), Ascending(data), NEW index, Indexed(data, index)
  PROVE  IF FooterFits(Footer(data)) THEN AnswersAsData(Table(data, index))
         ELSE \A key \in Keys : Lookup(Table(data, index), key) = Missing
<1> DEFINE t == Table(data, index)
<1>1. /\ t.data = data /\ t.index = index /\ t.footer = Footer(data)
      /\ t.filter = Filter(KeysOf(data))
  BY DEF Table
<1> HIDE DEF t
<1>2. CASE ~FooterFits(Footer(data))
  <2>1. MaxKey(t) = 0
    BY <1>1, <1>2 DEF MaxKey, EmptyKey
  <2>2. ASSUME NEW key \in Keys
        PROVE  Lookup(t, key) = Missing
    <3>1. ~(key <= 0)
      BY KeyAssumption DEF EmptyKey
    <3> QED
      BY <2>1, <3>1 DEF Lookup
  <2> QED
    BY <1>2, <2>2 DEF t
<1>3. ASSUME FooterFits(Footer(data)), NEW key \in Keys
      PROVE  Lookup(t, key) = Answer(data, key)
  <2>1. MaxKey(t) = Footer(data) /\ key \in Nat /\ ~(key <= 0)
    BY <1>1, <1>3, KeyAssumption DEF MaxKey, EmptyKey
  <2>2. CASE data = <<>>
    <3>1. Footer(data) = 0 /\ key \notin KeysOf(data)
      BY <2>2 DEF Footer, EmptyKey, KeysOf
    <3>2. Lookup(t, key) = Missing
      BY <2>1, <3>1 DEF Lookup
    <3> QED
      BY <3>1, <3>2 DEF Answer
  <2>3. CASE data # <<>>
    <3>1. /\ DOMAIN data = 1..Len(data) /\ 1 \in 1..Len(data) /\ Len(data) \in 1..Len(data)
          /\ Footer(data) = data[Len(data)].key
          /\ \A i \in 1..Len(data) : data[i].key \in Nat
      BY <2>3, RecordType DEF Footer, Last
    <3>2. FirstKey(t) = data[1].key
      <4>1. DOMAIN index \in SUBSET Nat /\ 1 \in DOMAIN index /\ \A i \in DOMAIN index : 1 <= i
        BY <2>3 DEF Indexed
      <4>2. Min(DOMAIN index) = 1
        <5>1. Min(DOMAIN index) \in DOMAIN index /\ Min(DOMAIN index) <= 1
          BY <4>1, LeastOf
        <5> QED
          BY <4>1, <5>1
      <4> QED
        BY <1>1, <2>3, <4>1, <4>2 DEF FirstKey, Indexed
    <3>3. ASSUME key \in KeysOf(data)
          PROVE  data[1].key <= key /\ key <= data[Len(data)].key
      <4>1. PICK i \in 1..Len(data) : data[i].key = key
        BY <3>1, <3>3 DEF KeysOf
      <4>2. ~(i < 1) /\ ~(Len(data) < i)
        BY <4>1
      <4>3. ~(data[i].key < data[1].key) /\ ~(data[Len(data)].key < data[i].key)
        BY <3>1, <4>1, <4>2, Order
      <4> QED
        BY <3>1, <4>1, <4>3
    <3>4. key \in KeysOf(data) => ProbablyExist(t.filter, key)
      BY <1>1, FilterKeeps
    <3>5. CASE data[1].key <= key /\ key <= data[Len(data)].key
      <4>1. Search(t, key) = Answer(data, key)
        BY <1>1, <2>3, <3>5, SearchAnswers
      <4>2. FirstKey(t) <= key /\ key <= MaxKey(t)
        BY <2>1, <3>1, <3>2, <3>5
      <4>3. CASE ProbablyExist(t.filter, key)
        BY <4>1, <4>2, <4>3 DEF Lookup
      <4>4. CASE ~ProbablyExist(t.filter, key)
        BY <3>4, <4>4 DEF Lookup, Answer
      <4> QED
        BY <4>3, <4>4
    <3>6. CASE ~(data[1].key <= key /\ key <= data[Len(data)].key)
      BY <2>1, <3>1, <3>2, <3>3, <3>6 DEF Lookup, Answer
    <3> QED
      BY <3>5, <3>6
  <2> QED
    BY <2>2, <2>3
<1>4. CASE FooterFits(Footer(data))
  <2>1. AnswersAsData(t)
    BY <1>1, <1>3, <1>4 DEF AnswersAsData, Answer
  <2> QED
    BY <1>4, <2>1 DEF t
<1> QED
  BY <1>2, <1>4

-----------------------------------------------------------------------------
(* The file                                                                *)

\* A sum over a finite set, as a fold takes it: one chosen member after the other.
SumsUp(f, S, size) ==
  f = [s \in SUBSET S |-> IF s = {} THEN 0
         ELSE size[CHOOSE x \in s : TRUE] + f[s \ {CHOOSE x \in s : TRUE}]]

LEMMA SumExists ==
  ASSUME NEW S, IsFiniteSet(S), NEW size \in [S -> Nat]
  PROVE  \E f \in [SUBSET S -> Nat] : SumsUp(f, S, size)
<1> DEFINE n == Cardinality(S)
           first(s) == CHOOSE x \in s : TRUE
           Small(m) == {s \in SUBSET S : Cardinality(s) <= m}
           Sums(f, s, sum) == sum = IF s = {} THEN 0 ELSE size[first(s)] + f[s \ {first(s)}]
           Upto(m, f) == f \in [Small(m) -> Nat] /\ \A s \in Small(m) : Sums(f, s, f[s])
           Bad == {m \in 0..n : ~\E f : Upto(m, f)}
<1>1. n \in Nat
  BY FS_CardinalityType
<1>2. ASSUME NEW s \in SUBSET S
      PROVE  /\ Cardinality(s) \in Nat /\ Cardinality(s) <= n
             /\ Cardinality(s) = 0 <=> s = {}
             /\ s # {} => first(s) \in s /\ Cardinality(s \ {first(s)}) = Cardinality(s) - 1
  <2>1. IsFiniteSet(s) /\ Cardinality(s) <= n
    BY FS_Subset
  <2>2. s # {} => first(s) \in s
    OBVIOUS
  <2> HIDE DEF first
  <2> QED
    BY <2>1, <2>2, FS_CardinalityType, FS_EmptySet, FS_RemoveElement
<1> HIDE DEF n, first
<1>3. /\ \A s \in Small(0) : s = {}
      /\ Small(n) = SUBSET S
  <2>1. \A c \in Nat : c <= 0 => c = 0
    OBVIOUS
  <2>2. \A s \in SUBSET S : Cardinality(s) <= 0 => s = {}
    BY <1>2, <2>1
  <2> QED
    BY <1>2, <2>2
<1>4. ASSUME NEW m \in 1..n
      PROVE  /\ \A s \in Small(m - 1) : s \in Small(m)
             /\ \A s \in Small(m) \ {{}} : /\ s \ {first(s)} \in Small(m - 1)
                                          /\ first(s) \in S
  <2>1. m \in Nat
    BY <1>1
  <2>2. \A c \in Nat : c <= m - 1 => c <= m
    BY <2>1
  <2>3. \A c \in Nat : c <= m => c - 1 <= m - 1
    BY <2>1
  <2>4. \A s \in Small(m - 1) : s \in Small(m)
    BY <1>2, <2>2
  <2>5. \A s \in Small(m) \ {{}} : s \ {first(s)} \in Small(m - 1) /\ first(s) \in S
    BY <1>2, <2>3
  <2> QED
    BY <2>4, <2>5
<1> HIDE DEF Small
<1>5. Bad = {}
  <2> SUFFICES ASSUME Bad # {}
               PROVE  FALSE
    OBVIOUS
  <2>1. PICK m \in Bad : \A l \in Bad : m <= l
    <3>1. Bad \in SUBSET Nat
      BY <1>1
    <3> HIDE DEF Bad
    <3> QED
      BY <3>1, Least
  <2>2. m \in 0..n /\ ~\E f : Upto(m, f)
    BY <2>1
  <2>3. m # 0
    <3>1. Upto(0, [s \in Small(0) |-> 0])
      BY <1>3
    <3> HIDE DEF Upto
    <3> QED
      BY <2>2, <3>1
  <2>4. m \in 1..n /\ m - 1 \in 0..n /\ ~(m <= m - 1)
    BY <1>1, <2>2, <2>3
  <2>5. PICK f : Upto(m - 1, f)
    <3> HIDE DEF Upto
    <3> QED
      BY <2>1, <2>4
  <2> DEFINE g == [s \in Small(m) |-> IF s = {} THEN 0 ELSE size[first(s)] + f[s \ {first(s)}]]
  <2>6. ASSUME NEW s \in Small(m - 1)
        PROVE  s \in Small(m) /\ g[s] = f[s]
    <3>1. s \in Small(m)
      BY <1>4, <2>4
    <3>2. Sums(f, s, f[s])
      BY <2>5
    <3> QED
      BY <3>1, <3>2
  <2>7. g \in [Small(m) -> Nat]
    BY <1>4, <2>4, <2>5
  <2>8. ASSUME NEW s \in Small(m)
        PROVE  Sums(g, s, g[s])
    <3>1. s # {} => g[s \ {first(s)}] = f[s \ {first(s)}]
      BY <1>4, <2>4, <2>6
    <3>2. g[s] = IF s = {} THEN 0 ELSE size[first(s)] + f[s \ {first(s)}]
      OBVIOUS
    <3> QED
      BY <3>1, <3>2
  <2>9. Upto(m, g)
    BY <2>7, <2>8
  <2> HIDE DEF Upto, g
  <2> QED
    BY <2>2, <2>9
<1>6. PICK f : Upto(n, f)
  <2>1. n \in 0..n
    BY <1>1
  <2> HIDE DEF Upto
  <2> QED
    BY <1>5, <2>1
<1>7. f \in [SUBSET S -> Nat] /\ \A s \in SUBSET S : Sums(f, s, f[s])
  BY <1>3, <1>6
<1> QED
  BY <1>7 DEF first, SumsUp

\* And any sum that goes on so is a number.
LEMMA SumType ==
  ASSUME NEW S, IsFiniteSet(S), NEW size \in [S -> Nat], NEW f, SumsUp(f, S, size)
  PROVE  f[S] \in Nat
<1> DEFINE first(s) == CHOOSE x \in s : TRUE
           Bad == {Cardinality(s) : s \in {s \in SUBSET S : f[s] \notin Nat}}
<1>1. ASSUME NEW s \in SUBSET S
      PROVE  /\ Cardinality(s) \in Nat
             /\ s # {} => first(s) \in s /\ Cardinality(s \ {first(s)}) = Cardinality(s) - 1
  <2>1. IsFiniteSet(s)
    BY FS_Subset
  <2>2. s # {} => first(s) \in s
    OBVIOUS
  <2> HIDE DEF first
  <2> QED
    BY <2>1, <2>2, FS_CardinalityType, FS_RemoveElement
<1>2. \A s \in SUBSET S : f[s] = IF s = {} THEN 0 ELSE size[first(s)] + f[s \ {first(s)}]
  BY DEF SumsUp
<1> HIDE DEF first
<1>3. Bad \in SUBSET Nat
  BY <1>1
<1>4. Bad = {}
  <2> SUFFICES ASSUME Bad # {}
               PROVE  FALSE
    OBVIOUS
  <2>1. PICK m \in Bad : \A l \in Bad : m <= l
    <3> HIDE DEF Bad
    <3> QED
      BY <1>3, Least
  <2>2. PICK s \in SUBSET S : m = Cardinality(s) /\ f[s] \notin Nat
    BY <2>1
  <2> HIDE DEF Bad
  <2>3. s # {}
    <3>1. s = {} => f[s] = 0
      BY <1>2
    <3> QED
      BY <2>2, <3>1
  <2> DEFINE r == s \ {first(s)}
  <2>4. first(s) \in S /\ r \in SUBSET S /\ Cardinality(r) = m - 1 /\ m \in Nat
    BY <1>1, <2>2, <2>3
  <2>5. f[r] \in Nat
    <3>1. m - 1 \notin Bad
      BY <2>1, <2>4
    <3>2. f[r] \notin Nat => Cardinality(r) \in Bad
      BY <2>4 DEF Bad
    <3> QED
      BY <2>4, <3>1, <3>2
  <2>6. f[s] = size[first(s)] + f[r]
    BY <1>2, <2>3
  <2>7. size[first(s)] \in Nat
    BY <2>4
  <2> HIDE DEF r
  <2> QED
    BY <2>2, <2>5, <2>6, <2>7
<1> QED
  BY <1>4

LEMMA DataOffsetType ==
  ASSUME NEW data \in Seq(Record), NEW t, Indexed(data, t.index)
  PROVE  DataOffset(t) \in Nat
<1> DEFINE index == t.index
           S == DOMAIN index
           size == [i \in S |-> 4 + KeySize[index[i].key] + 8]
           Sums(f) == [s \in SUBSET S |-> IF s = {} THEN 0
                         ELSE 4 + KeySize[index[CHOOSE x \in s : TRUE].key] + 8
                              + f[s \ {CHOOSE x \in s : TRUE}]]
           sums == CHOOSE f : f = Sums(f)
<1>1. IsFiniteSet(S)
  <2>1. Len(data) \in Nat /\ S \subseteq 1..Len(data)
    BY DEF Indexed
  <2>2. IsFiniteSet(1..Len(data))
    BY <2>1, FS_Interval
  <2> HIDE DEF S
  <2> QED
    BY <2>1, <2>2, FS_Subset
<1>2. size \in [S -> Nat]
  <2>1. ASSUME NEW i \in S
        PROVE  KeySize[index[i].key] \in Nat
    <3>1. i \in 1..Len(data) /\ index[i].key = data[i].key
      BY DEF Indexed
    <3>2. data[i].key \in Keys
      BY <3>1, RecordType DEF Record
    <3> QED
      BY <3>1, <3>2, SizeAssumption
  <2> QED
    BY <2>1
<1>3. \E f : f = Sums(f)
  <2>1. PICK f \in [SUBSET S -> Nat] : SumsUp(f, S, size)
    <3> HIDE DEF S, size
    <3> QED
      BY <1>1, <1>2, SumExists
  <2>2. f = Sums(f)
    BY <2>1 DEF SumsUp
  <2> HIDE DEF Sums
  <2> QED
    BY <2>2
<1>4. sums = Sums(sums)
  <2> HIDE DEF Sums
  <2> QED
    BY <1>3
<1>5. SumsUp(sums, S, size)
  <2> HIDE DEF sums
  <2> QED
    BY <1>4 DEF SumsUp
<1>6. DataOffset(t) = HeaderSize + sums[S]
  BY DEF DataOffset, FoldFunction, FoldFunctionOnSet, MapThenFoldSet, LenSize
<1>7. sums[S] \in Nat
  <2> HIDE DEF S, size, sums
  <2> QED
    BY <1>1, <1>2, <1>5, SumType
<1> QED
  BY <1>6, <1>7 DEF HeaderSize

LEMMA FooterSizeType ==
  ASSUME NEW data \in Seq(Record), NEW t, t.footer = Footer(data)
  PROVE  FooterSize(t) \in Nat
<1>1. CASE data = <<>>
  BY <1>1 DEF FooterSize, Footer, LenSize
<1>2. CASE data # <<>>
  <2>1. Len(data) \in 1..Len(data) /\ Footer(data) = data[Len(data)].key
    BY <1>2 DEF Footer, Last
  <2>2. Footer(data) \in Keys
    BY <2>1, RecordType DEF Record
  <2>3. KeySize[Footer(data)] \in Nat
    BY <2>2, SizeAssumption
  <2> QED
    BY <2>3 DEF FooterSize, LenSize
<1> QED
  BY <1>1, <1>2

\* A file's length gives the section its own, and so the reading its last record.
LEMMA ReadsBack ==
  ASSUME NEW data \in Seq(Record), NEW index, Indexed(data, index), NEW t, t = Table(data, index)
  PROVE  /\ ReadSection(t, FileLen(t)) = [answer |-> "records", records |-> data]
         /\ \A len : ReadSection(t, len) # Broken => IsPrefix(ReadSection(t, len).records, data)
<1> DEFINE n == Len(data)
           starts == Offsets(data)
           begun(len) == {i \in DOMAIN starts : starts[i] < SectionLen(t, len)}
           c(len) == Cardinality(begun(len))
<1>1. t.data = data /\ t.index = index /\ t.footer = Footer(data)
  BY DEF Table
<1>2. n \in Nat /\ DOMAIN starts = 1..(n + 1) /\ \A i \in 1..(n + 1) : starts[i] \in Nat
  BY OffsetsNext
<1>3. DataOffset(t) \in Nat /\ FooterSize(t) \in Nat
  BY <1>1, DataOffsetType, FooterSizeType
<1>4. ASSUME NEW len
      PROVE  c(len) \in Nat
  <2>1. IsFiniteSet(1..(n + 1))
    BY <1>2, FS_Interval
  <2>2. IsFiniteSet(begun(len))
    BY <1>2, <2>1, FS_Subset
  <2> QED
    BY <2>2, FS_CardinalityType
<1>5. ASSUME NEW len
      PROVE  ReadSection(t, len) =
               IF \/ len < DataOffset(t) + FooterSize(t)
                  \/ c(len) > n
                  \/ DataOffset(t) + starts[c(len) + 1] > len
               THEN Broken
               ELSE [answer |-> "records", records |-> SubSeq(data, 1, c(len))]
  BY <1>1 DEF ReadSection
<1>6. SectionLen(t, FileLen(t)) = starts[n + 1]
  <2>1. n + 1 \in 1..(n + 1)
    BY <1>2
  <2>2. starts[n + 1] \in Nat
    BY <1>2, <2>1
  <2>3. FileLen(t) = DataOffset(t) + starts[n + 1] + FooterSize(t)
    BY <1>1 DEF FileLen, DataLen
  <2> HIDE DEF n, starts
  <2> QED
    BY <1>3, <2>2, <2>3 DEF SectionLen
<1>7. c(FileLen(t)) = n
  <2>1. ASSUME NEW i \in 1..(n + 1)
        PROVE  starts[i] < starts[n + 1] <=> i \in 1..n
    <3>1. CASE i = n + 1
      BY <1>2, <3>1
    <3>2. CASE i # n + 1
      <4>1. i < n + 1 /\ i \in 1..n /\ n + 1 \in 1..(n + 1)
        BY <1>2, <3>2
      <4> QED
        BY <4>1, OffsetsRise
    <3> QED
      BY <3>1, <3>2
  <2>2. 1..n \subseteq 1..(n + 1)
    BY <1>2
  <2> HIDE DEF n, starts
  <2>3. begun(FileLen(t)) = 1..n
    BY <1>2, <1>6, <2>1, <2>2
  <2>4. Cardinality(1..n) = n
    BY <1>2, FS_Interval
  <2> QED
    BY <2>3, <2>4
<1> HIDE DEF c, n, starts
<1>8. ReadSection(t, FileLen(t)) = [answer |-> "records", records |-> data]
  <2>1. FileLen(t) = DataOffset(t) + starts[n + 1] + FooterSize(t)
    BY <1>1 DEF FileLen, DataLen, n, starts
  <2>2. starts[n + 1] \in Nat
    BY <1>2
  <2>3. SubSeq(data, 1, n) = data
    BY DEF n
  <2> HIDE DEF n
  <2>4. /\ ~(FileLen(t) < DataOffset(t) + FooterSize(t))
        /\ ~(n > n)
        /\ ~(DataOffset(t) + starts[n + 1] > FileLen(t))
    BY <1>2, <1>3, <2>1, <2>2
  <2> QED
    BY <1>5, <1>7, <2>3, <2>4
<1>9. ASSUME NEW len, ReadSection(t, len) # Broken
      PROVE  IsPrefix(ReadSection(t, len).records, data)
  <2>1. ~(c(len) > n) /\ ReadSection(t, len).records = SubSeq(data, 1, c(len))
    BY <1>5, <1>9
  <2> DEFINE m == c(len)
             first == SubSeq(data, 1, m)
  <2>2. m \in Nat /\ m <= Len(data)
    BY <1>2, <1>4, <2>1 DEF n
  <2> HIDE DEF m
  <2>3. first \in Seq(Record) /\ Len(first) = m
    BY <2>2
  <2>4. SubSeq(first, 1, m) = SubSeq(data, 1, m)
    BY <2>2, <2>3
  <2>5. IsPrefix(first, data)
    <3> HIDE DEF first
    <3> QED
      BY <2>2, <2>3, <2>4 DEF IsPrefix, first
  <2> QED
    BY <2>1, <2>5 DEF m
<1> QED
  BY <1>8, <1>9

-----------------------------------------------------------------------------
(* The tables                                                              *)

\* A table is framed when both sides are read, and of all that was written.
Framed == table # NoTable => ~HasLeft /\ ~HasRight /\ table = FrameTable(out)

LEMMA FramedNext == Framed /\ [Next]_mergeVars => Framed'
<1> SUFFICES ASSUME Framed, [Next]_mergeVars PROVE Framed'
  OBVIOUS
<1>1. CASE SkipLeft \/ SkipRight
  <2>1. HasLeft \/ HasRight
    BY <1>1 DEF SkipLeft, SkipRight, LeftRead, RightRead
  <2> QED
    BY <1>1, <2>1 DEF SkipLeft, SkipRight, Framed, NoTable
<1>2. CASE TakeLeft \/ TakeRight \/ TakeBoth \/ DrainLeft \/ DrainRight
  <2>1. (HasLeft \/ HasRight) /\ UNCHANGED table
    BY <1>2 DEF TakeLeft, TakeRight, TakeBoth, DrainLeft, DrainRight, WriteLeft, WriteRight
  <2> QED
    BY <2>1 DEF Framed, NoTable
<1>3. CASE BuildTable
  BY <1>3 DEF BuildTable, Framed, HasLeft, HasRight
<1>4. CASE UNCHANGED mergeVars
  BY <1>4 DEF mergeVars, Framed, HasLeft, HasRight, NoTable
<1> QED
  BY <1>1, <1>2, <1>3, <1>4 DEF Next, Ended

\* So every table, a flush's or the merge's, is one of sorted records and their index.
LEMMA TablesIndexed ==
  ASSUME IInv, Framed, table # NoTable, NEW t \in AllTables
  PROVE  \E data \in Seq(Record) : \E index :
           t = Table(data, index) /\ Ascending(data) /\ Indexed(data, index)
<1>1. CASE t = table
  <2>1. t = Table(out, FrameIndex(out)) /\ out \in Seq(Record) /\ Ascending(out)
    BY <1>1 DEF Framed, FrameTable, IInv, TypeOK
  <2> QED
    BY <2>1, FrameIndexed
<1>2. CASE t # table
  <2>1. PICK data \in {left, right} : t = Table(data, FlushIndex(data))
    BY <1>2 DEF AllTables, FlushTable
  <2>2. data \in Seq(Record) /\ Ascending(data)
    BY <2>1 DEF IInv, TypeOK
  <2> QED
    BY <2>1, <2>2, FlushIndexed
<1> QED
  BY <1>1, <1>2

LEMMA IndexedAnswer == IInv /\ Framed => TablesAnswer
<1> SUFFICES ASSUME IInv, Framed, table # NoTable, NEW t \in AllTables
             PROVE  IF FooterFits(t.footer) THEN AnswersAsData(t)
                    ELSE \A key \in Keys : Lookup(t, key) = Missing
  BY DEF TablesAnswer
<1>1. PICK data \in Seq(Record) : \E index :
        t = Table(data, index) /\ Ascending(data) /\ Indexed(data, index)
  BY TablesIndexed
<1>2. PICK index : t = Table(data, index) /\ Ascending(data) /\ Indexed(data, index)
  BY <1>1
<1>3. t.footer = Footer(data)
  BY <1>2 DEF Table
<1> QED
  BY <1>2, <1>3, TableAnswers

LEMMA IndexedReadBack == IInv /\ Framed => TablesReadBack
<1> SUFFICES ASSUME IInv, Framed, table # NoTable, NEW t \in AllTables
             PROVE  /\ ReadSection(t, FileLen(t)) = [answer |-> "records", records |-> t.data]
                    /\ \A len \in DataOffset(t)..FileLen(t) :
                         ReadSection(t, len) # Broken
                           => IsPrefix(ReadSection(t, len).records, t.data)
  BY DEF TablesReadBack
<1>1. PICK data \in Seq(Record) : \E index :
        t = Table(data, index) /\ Ascending(data) /\ Indexed(data, index)
  BY TablesIndexed
<1>2. PICK index : t = Table(data, index) /\ Ascending(data) /\ Indexed(data, index)
  BY <1>1
<1>3. t.data = data
  BY <1>2 DEF Table
<1> QED
  BY <1>2, <1>3, ReadsBack

LEMMA FramedHolds == Spec => [](IInv /\ Framed)
<1>1. Init => IInv /\ Framed
  BY InitInvariant DEF Init, Framed
<1>2. IInv /\ Framed /\ [Next]_mergeVars => IInv' /\ Framed'
  BY NextInvariant, FramedNext
<1> QED
  BY <1>1, <1>2, PTL DEF Spec

\* The reader finds the records of every table, a flush's and a compaction's, and no
\* others, for sections, keys, block sizes, strides, hashes and filters of any kind.
THEOREM ReadersFind == Spec => []TablesAnswer
<1>1. IInv /\ Framed => TablesAnswer
  BY IndexedAnswer
<1> QED
  BY <1>1, FramedHolds, PTL

\* A compaction reads every table back whole, and of the front part of a file nothing
\* but first records, whatever the lengths of keys and values.
THEOREM SectionsReadBack == Spec => []TablesReadBack
<1>1. IInv /\ Framed => TablesReadBack
  BY IndexedReadBack
<1> QED
  BY <1>1, FramedHolds, PTL
=============================================================================
