------------------------ MODULE CompactionView_proofs ------------------------
(***************************************************************************)
(* That the newest entries stay where readers find them, where every       *)
(* compaction takes its level in one unit: tables of upper levels have     *)
(* newer entries than those of lower ones, and within a level those that   *)
(* were created later.                                                     *)
(***************************************************************************)
EXTENDS CompactionErasure_proofs

\* A compaction leaves no table of its level out, and has one output.
Fits ==
  pc = "visit" /\ rounds < MaxCompactions /\ Triggered =>
    Cardinality(Tables(level)) <= TargetChunks

Bins(fs) == {p \in DOMAIN fs : p[3] = "bin"}

\* Where they have the same key, d's entry is the newer one.
After(d, e) == \A k \in Keys : d[k] # Absent /\ e[k] # Absent => d[k].by > e[k].by

\* A reader looks at the table p before the table q.
Before(fs, p, q) == p[1] < q[1] \/ (p[1] = q[1] /\ fs[p].created > fs[q].created)

Layered ==
  \A p, q \in Bins(files) : Before(files, p, q) => After(files[p].data, files[q].data)

FilesAged == \A k \in Keys, e \in Entry : InFiles(files, k, e) => e.by <= flushed

\* There is one unit, and in the end one output.
OneUnit ==
  /\ Len(units) <= 1 /\ Len(outputs) <= 1
  /\ units # <<>> => pc = "units" /\ outputs = <<>>
  /\ AtUnit => outputs = <<>>

\* The tables that the waiting unit does not have came after the listing.
ListedAll ==
  units # <<>> => \A p \in Tables(level) :
    \/ \E i \in DOMAIN units[1] : p = Path(level, units[1][i])
    \/ \A i \in DOMAIN units[1] : files[p].created > At(units[1][i]).created

IsTarget(p) == \E i \in DOMAIN unit.target : p = Path(level, unit.target[i])

\* The files that stand for the unit's tables, or for those of the compaction.
Chunk(x) ==
  \/ \E i \in DOMAIN unit.target : x = unit.target[i]
  \/ \E i \in DOMAIN unit.merged : x = unit.merged[i]
  \/ \E i \in DOMAIN outputs : x = outputs[i]
  \/ pc = "drain" /\ x = Out

\* What data holds belongs between the tables left in the level and the levels below.
InPlace(data) == \A p \in Bins(files) : ~IsTarget(p) =>
  /\ p[1] <= level => After(files[p].data, data)
  /\ p[1] > level => After(data, files[p].data)

\* An output will be the newest table of the next level.
Latest(created) == \A p \in Tables(level + 1) : created > files[p].created

ChunkOK(x) == InPlace(At(x).data) /\ (x[2] = "tmp" => Latest(At(x).created))
ChunksOK == \A x \in Items : Chunk(x) => ChunkOK(x)

LayerInv == FilesAged /\ OneUnit /\ ListedAll /\ Layered /\ ChunksOK

-----------------------------------------------------------------------------
(* The tables after a step                                                 *)

\* The tables of gs are tables of fs.
BinsFrom(fs, gs) == \A p \in Bins(gs) : p \in DOMAIN fs /\ gs[p] = fs[p]

LEMMA DrainOneBins ==
  ASSUME NEW fs, NEW x
  PROVE  BinsFrom(fs, DrainOne(fs, x))
<1> SUFFICES ASSUME NEW p \in DOMAIN DrainOne(fs, x), p[3] = "bin"
             PROVE  p \in DOMAIN fs /\ DrainOne(fs, x)[p] = fs[p]
  BY DEF BinsFrom, Bins
<1>1. x[2] = "bin" => Path(level, Drained(x))[3] = "drain"
  BY PathExtension DEF Drained
<1> QED
  BY <1>1, DrainOneOnly

LEMMA OutBins ==
  ASSUME NEW fs, NEW data, NEW form
  PROVE  BinsFrom(fs, Create(fs, Path(level, Out), data, form))
<1> SUFFICES ASSUME NEW p \in DOMAIN Create(fs, Path(level, Out), data, form), p[3] = "bin"
             PROVE  /\ p \in DOMAIN fs
                    /\ Create(fs, Path(level, Out), data, form)[p] = fs[p]
  BY DEF BinsFrom, Bins
<1>1. Path(level, Out)[3] = "tmp"
  BY PathExtension DEF Out
<1> QED
  BY <1>1, CreateOnly

LEMMA WithoutBins ==
  ASSUME NEW fs, NEW ps
  PROVE  BinsFrom(fs, Without(fs, ps))
BY DEF BinsFrom, Bins, Without

LEMMA LastBins ==
  ASSUME TypeInv, pc \in {"frame", "sweep"}, NEW fs, NEW form
  PROVE  BinsFrom(fs, [fs EXCEPT ![Path(level, unit.target[1])].form = form])
<1>1. Path(level, unit.target[1])[3] = "tmp"
  BY PathExtension DEF TypeInv, Control
<1> QED
  BY <1>1 DEF BinsFrom, Bins

LEMMA PairBins ==
  ASSUME TypeInv, Drain
  PROVE  BinsFrom(files, files')
<1> DEFINE gs == DrainOne(files, unit.target[1])
<1>1. files' = DrainOne(gs, unit.target[2])
  BY DrainStep DEF PairDrained
<1>2. BinsFrom(files, gs) /\ BinsFrom(gs, files')
  BY <1>1, DrainOneBins
<1> HIDE DEF gs
<1> QED
  BY <1>2 DEF BinsFrom, Bins

LEMMA CrashBins ==
  ASSUME TypeInv, Crash
  PROVE  BinsFrom(Written("bad"), files')
<1> DEFINE fs == Written("bad")
<1>1. files' \in Left(fs)
  BY DEF Crash
<1> HIDE DEF fs
<1>2. \/ files' = fs
      \/ files' = Create(fs, Path(level, Out), NoContent, "bad")
      \/ files' = DrainOne(fs, unit.target[1])
      \/ pc = "frame" /\ files' = [fs EXCEPT ![Path(level, unit.target[1])].form = "bad"]
      \/ \E ps : files' = Without(fs, ps)
  BY <1>1 DEF Left
<1>3. BinsFrom(fs, fs)
  BY DEF BinsFrom, Bins
<1>4. BinsFrom(fs, files')
  BY <1>2, <1>3, OutBins, DrainOneBins, LastBins, WithoutBins
<1> QED
  BY <1>4 DEF fs

\* Only a flush and a promotion make tables, and a flush that ends changes one.
LEMMA StepBins ==
  ASSUME TypeInv, [Next]_vars
  PROVE  \/ FlushBegin \/ Promote \/ BinsFrom(files, files')
         \/ FlushEnd /\ BinsFrom(Written("table"), files')
         \/ (FlushTorn \/ Crash) /\ BinsFrom(Written("bad"), files')
<1>1. \A fs : BinsFrom(fs, fs)
  BY DEF BinsFrom, Bins
<1>2. FlushEnd => BinsFrom(Written("table"), files')
  BY <1>1 DEF FlushEnd
<1>3. FlushTorn => BinsFrom(Written("bad"), files')
  BY <1>1 DEF FlushTorn
<1>4. CASE \/ TimerExpires \/ VisitSkip \/ VisitCompact \/ BeginUnit
           \/ PromoteFails \/ Finish \/ UNCHANGED vars
  <2>1. files' = files
    BY <1>4 DEF TimerExpires, VisitSkip, VisitCompact, BeginUnit, PromoteFails, Finish, vars
  <2> QED
    BY <1>1, <2>1
<1>5. CASE Join \/ JoinFails
  <2>1. files' = files \/ \E data, form : files' = Create(files, Path(level, Out), data, form)
    BY <1>5 DEF Join, JoinFails
  <2> QED
    BY <1>1, <2>1, OutBins
<1>6. CASE DrainFails
  <2>1. files' = files \/ files' = DrainOne(files, unit.target[1])
    BY <1>6 DEF DrainFails
  <2> QED
    BY <1>1, <2>1, DrainOneBins
<1>7. CASE Frame \/ FrameFails
  <2>1. pc = "frame"
    BY <1>7 DEF Frame, FrameFails
  <2>2. PICK form : files' = [files EXCEPT ![Path(level, unit.target[1])].form = form]
    BY <1>7 DEF Frame, FrameFails
  <2>3. BinsFrom(files, [files EXCEPT ![Path(level, unit.target[1])].form = form])
    BY <2>1, LastBins
  <2> QED
    BY <2>2, <2>3
<1>8. CASE Sweep \/ SweepFails
  <2>1. \E ps : files' = Without(files, ps)
    BY <1>8 DEF Sweep, SweepFails, Swept
  <2> QED
    BY <2>1, WithoutBins
<1> QED
  BY <1>2, <1>3, <1>4, <1>5, <1>6, <1>7, <1>8, PairBins, CrashBins DEF Next, Coordinator

\* But for their forms they are the tables that there were.
SameBins ==
  \A p \in Bins(files') :
    p \in Bins(files) /\ files'[p].data = files[p].data /\ files'[p].created = files[p].created

LEMMA StepSameBins ==
  ASSUME TypeInv, [Next]_vars
  PROVE  FlushBegin \/ Promote \/ SameBins
<1>1. CASE BinsFrom(files, files')
  BY <1>1 DEF BinsFrom, SameBins, Bins
<1>2. ASSUME NEW form \in Forms, BinsFrom(Written(form), files')
      PROVE  SameBins
  <2> SUFFICES ASSUME NEW p \in Bins(files')
               PROVE  /\ p \in Bins(files) /\ files'[p].data = files[p].data
                      /\ files'[p].created = files[p].created
    BY DEF SameBins
  <2>1. p \in DOMAIN files /\ files'[p] = Written(form)[p]
    BY <1>2 DEF BinsFrom, Written
  <2> QED
    BY <2>1, WrittenTurns DEF Bins, TypeInv, Types
<1>3. "table" \in Forms /\ "bad" \in Forms
  BY DEF Forms
<1> QED
  BY <1>1, <1>2, <1>3, StepBins

LEMMA LayeredRemains ==
  ASSUME Layered, SameBins
  PROVE  Layered'
BY DEF Layered, SameBins, Before

\* A chunk stays one as long as its file and the unit's tables are the same.
LEMMA ChunkRemains ==
  ASSUME SameBins, level' = level, NEW x \in Items, ChunkOK(x),
         At(x)'.data = At(x).data, At(x)'.created = At(x).created,
         \A p \in Bins(files') : IsTarget(p) => IsTarget(p)'
  PROVE  ChunkOK(x)'
<1>1. InPlace(At(x).data)'
  BY DEF ChunkOK, InPlace, SameBins
<1> QED
  BY <1>1 DEF ChunkOK, SameBins, Latest, Bins, Tables

-----------------------------------------------------------------------------
(* One unit has all tables of its level                                    *)

LEMMA ListingWhole ==
  ASSUME Directory(files, clock)
  PROVE  /\ \A x \in Found : \E i \in DOMAIN Listing : Listing[i] = x
         /\ Len(Listing) <= Cardinality(Tables(level))
<1> DEFINE n == Cardinality(Found)
           nth(i) == CHOOSE x \in Found : Cardinality(Newer(x)) = i - 1
<1>1. n \in Nat /\ IsFiniteSet(Found)
  BY FoundFinite, FS_CardinalityType
<1>2. Listing = [i \in 1..n |-> nth(i)]
  BY DEF Listing, Found, Newer
<1>3. ASSUME NEW i \in 1..n
      PROVE  nth(i) \in Found /\ Cardinality(Newer(nth(i))) = i - 1
  BY NewerRanks
<1>4. ASSUME NEW x \in Found
      PROVE  \E i \in DOMAIN Listing : Listing[i] = x
  <2> DEFINE i == Cardinality(Newer(x)) + 1
  <2>1. i \in 1..n /\ Cardinality(Newer(x)) = i - 1
    BY <1>1, NewerFinite
  <2> HIDE DEF i, nth, n
  <2>2. nth(i) \in Found /\ Cardinality(Newer(nth(i))) = Cardinality(Newer(x))
    BY <1>3, <2>1
  <2>3. At(nth(i)).created \in Int /\ At(x).created \in Int
    BY <2>2, FoundTables DEF Has, At, Directory, FileRecords
  <2>4. Cardinality(Newer(x)) \in Int
    BY NewerFinite
  <2>5. At(nth(i)).created = At(x).created
    BY <2>2, <2>3, <2>4, NewerCounts
  <2>6. nth(i) = x
    BY <2>2, <2>5, FoundTables, PathInjective DEF Has, At, Directory
  <2> QED
    BY <1>2, <2>1, <2>6
<1>5. n <= Cardinality(Tables(level))
  <2> DEFINE f == [p \in Tables(level) |-> <<p[2], p[3]>>]
  <2>1. IsFiniteSet(Tables(level))
    BY FS_Subset DEF Tables, Directory
  <2>2. f \in Surjection(Tables(level), Found)
    BY DEF Surjection, Found
  <2> QED
    BY <2>1, <2>2, FS_Surjection
<1>6. Len(Listing) = n
  <2> HIDE DEF n, nth
  <2> QED
    BY <1>1, <1>2
<1> QED
  BY <1>4, <1>5, <1>6

\* What fits in a unit is cut into no more than one.
LEMMA PartitionFits ==
  ASSUME NEW items \in Seq(Items), Len(items) <= TargetChunks
  PROVE  /\ Len(Partition(items)) <= 1
         /\ 1 \in DOMAIN Partition(items) => Len(Partition(items)[1]) = Len(items)
<1> DEFINE n == Len(items)
           full == n \div TargetChunks
           rest == SubSeq(items, full * TargetChunks + 1, n)
           cut == [u \in 1..full |->
                     SubSeq(items, (u - 1) * TargetChunks + 1, u * TargetChunks)]
<1>1. /\ n \in Nat /\ n <= TargetChunks
      /\ full \in Nat
      /\ full * TargetChunks \in Nat
      /\ full * TargetChunks <= n
      /\ n - full * TargetChunks < TargetChunks
  <2>1. n \in Nat
    OBVIOUS
  <2> QED
    BY <2>1, FullUnits
<1>2. Partition(items) = IF Len(rest) >= 2 THEN Append(cut, rest) ELSE cut
  BY DEF Partition
<1>3. CASE n < TargetChunks
  <2>1. full = 0
    <3> HIDE DEF full, n
    <3>1. full > 0 => 0 * TargetChunks + TargetChunks <= full * TargetChunks
      BY <1>1, Multiples
    <3> QED
      BY <1>1, <1>3, <3>1, ChunksAssumption
  <2>2. rest = SubSeq(items, 1, n) /\ cut = <<>>
    BY <2>1, ChunksAssumption
  <2>3. rest \in Seq(Items) /\ Len(rest) = n
    BY <1>1, <2>2
  <2> HIDE DEF rest, cut, n
  <2>4. CASE n >= 2
    <3>1. Partition(items) = Append(<<>>, rest)
      BY <1>2, <2>2, <2>3, <2>4
    <3>2. Len(Append(<<>>, rest)) = 1 /\ Append(<<>>, rest)[1] = rest
      BY <2>3
    <3> QED
      BY <2>3, <3>1, <3>2 DEF n
  <2>5. CASE n < 2
    <3>1. Partition(items) = <<>>
      BY <1>1, <1>2, <2>2, <2>3, <2>5
    <3>2. Len(<<>>) <= 1 /\ 1 \notin DOMAIN <<>>
      OBVIOUS
    <3> QED
      BY <3>1, <3>2
  <2> QED
    BY <1>1, <2>4, <2>5
<1>4. CASE n = TargetChunks
  <2>1. full = 1
    <3> HIDE DEF full, n
    <3>1. full > 1 => 1 * TargetChunks + TargetChunks <= full * TargetChunks
      BY <1>1, Multiples
    <3>2. full = 0 => full * TargetChunks = 0
      BY ChunksAssumption
    <3> QED
      BY <1>1, <1>4, <3>1, <3>2, ChunksAssumption
  <2> DEFINE whole == SubSeq(items, 1, n)
  <2>2. rest = SubSeq(items, n + 1, n) /\ cut = [u \in 1..1 |-> whole]
    <3>1. full * TargetChunks = n
      BY <1>4, <2>1, ChunksAssumption
    <3>2. \A u \in 1..1 : (u - 1) * TargetChunks + 1 = 1 /\ u * TargetChunks = n
      BY <1>4, ChunksAssumption
    <3> HIDE DEF full, n
    <3>3. cut = [u \in 1..1 |-> SubSeq(items, (u - 1) * TargetChunks + 1, u * TargetChunks)]
      BY <2>1
    <3> QED
      BY <3>1, <3>2, <3>3
  <2>3. Len(rest) = 0 /\ Len(whole) = n
    BY <1>1, <2>2
  <2> HIDE DEF whole, rest, cut, n
  <2>4. Partition(items) = cut
    BY <1>2, <2>3
  <2>5. Len(cut) = 1 /\ cut[1] = whole
    BY <2>2
  <2> QED
    BY <2>3, <2>4, <2>5 DEF n
<1> HIDE DEF n
<1>5. n < TargetChunks \/ n = TargetChunks
  BY <1>1, ChunksAssumption
<1> QED
  BY <1>3, <1>4, <1>5

LEMMA VisitCompactUnit ==
  ASSUME TypeInv, Fits, VisitCompact
  PROVE  OneUnit' /\ ListedAll'
<1>1. /\ UNCHANGED <<files, level>>
      /\ units' = Partition(Listing) /\ outputs' = <<>> /\ pc' = "units"
      /\ units' # <<>> => rounds < MaxCompactions
      /\ pc = "visit" /\ Triggered
  BY DEF VisitCompact
<1>2. Directory(files, clock)
  BY DEF TypeInv, Types
<1>3. Listing \in Seq(Items) /\ Partition(Listing) \in Seq(Seq(Items))
  BY <1>2, ListingOrder, PartitionUnits
<1>4. CASE units' = <<>>
  BY <1>1, <1>4 DEF OneUnit, ListedAll, AtUnit
<1>5. CASE units' # <<>>
  <2>1. Len(Listing) <= TargetChunks
    <3>1. Cardinality(Tables(level)) <= TargetChunks
      BY <1>1, <1>5 DEF Fits
    <3>2. Len(Listing) <= Cardinality(Tables(level)) /\ Len(Listing) \in Nat
      BY <1>2, <1>3, ListingWhole
    <3>3. Cardinality(Tables(level)) \in Nat
      <4>1. IsFiniteSet(Tables(level))
        BY <1>2, FS_Subset DEF Tables, Directory
      <4> QED
        BY <4>1, FS_CardinalityType
    <3> QED
      BY <3>1, <3>2, <3>3, ChunksAssumption
  <2>2. /\ Len(units') <= 1
        /\ 1 \in DOMAIN units' => Len(units'[1]) = Len(Listing)
    BY <1>1, <1>3, <2>1, PartitionFits
  <2>3. 1 \in DOMAIN units'
    BY <1>1, <1>3, <1>5
  <2>4. DOMAIN units'[1] = DOMAIN Listing
    <3>1. units'[1] \in Seq(Items)
      BY <1>1, <1>3, <2>3
    <3> QED
      BY <1>3, <2>2, <2>3, <3>1
  <2>5. \A i \in DOMAIN units'[1] : units'[1][i] = Listing[i]
    <3>1. \A i \in DOMAIN units'[1] : units'[1][i] = Listing[Place(1, i)] /\ i \in Nat
      BY <1>1, <1>3, <2>3, <2>4, PartitionUnits
    <3>2. \A i \in Nat : Place(1, i) = i
      BY ChunksAssumption DEF Place
    <3> QED
      BY <3>1, <3>2
  <2>6. ASSUME NEW p \in Tables(level)
        PROVE  \E i \in DOMAIN units'[1] : p = Path(level, units'[1][i])
    <3>1. <<p[2], p[3]>> \in Found /\ p = Path(level, <<p[2], p[3]>>)
      BY <1>2 DEF Found, Tables, Path, Directory, Paths
    <3>2. PICK i \in DOMAIN Listing : Listing[i] = <<p[2], p[3]>>
      BY <1>2, <3>1, ListingWhole
    <3> QED
      BY <2>4, <2>5, <3>1, <3>2
  <2>7. Len(<<>>) <= 1
    OBVIOUS
  <2>8. OneUnit'
    BY <1>1, <2>2, <2>7 DEF OneUnit, AtUnit
  <2>9. Tables(level)' = Tables(level)
    BY <1>1 DEF Tables
  <2> QED
    BY <1>1, <2>6, <2>8, <2>9 DEF ListedAll
<1> QED
  BY <1>4, <1>5

Environment == FlushBegin \/ FlushEnd \/ FlushTorn \/ TimerExpires \/ UNCHANGED vars

LEMMA TailOfOne ==
  ASSUME NEW S, NEW s \in Seq(S), s # <<>>, Len(s) <= 1
  PROVE  Tail(s) = <<>>
<1>1. Len(s) = 1
  <2>1. Len(s) \in Nat /\ (Len(s) = 0 => s = <<>>)
    OBVIOUS
  <2> QED
    BY <2>1
<1>2. Len(Tail(s)) = 0 /\ Tail(s) \in Seq(S)
  BY <1>1
<1> QED
  BY <1>2

LEMMA UnitsLeft ==
  ASSUME TypeInv, OneUnit, [Next]_vars
  PROVE  units' = <<>> \/ VisitCompact \/ Environment
<1>1. units \in Seq(Seq(Items)) /\ (pc = "visit" => units = <<>>)
  BY DEF TypeInv, Types, Control
<1>2. CASE VisitSkip
  BY <1>1, <1>2 DEF VisitSkip
<1>3. CASE BeginUnit
  <2>1. units # <<>> /\ Len(units) <= 1 /\ units' = Tail(units)
    BY <1>3 DEF BeginUnit, OneUnit
  <2> QED
    BY <1>1, <2>1, TailOfOne
<1>4. CASE \/ Join \/ JoinFails \/ Drain \/ DrainFails \/ Frame \/ FrameFails \/ Sweep
           \/ SweepFails
  <2>1. pc # "units" /\ units' = units
    BY <1>4 DEF Join, JoinFails, Drain, DrainFails, Frame, FrameFails, Sweep, SweepFails
  <2> QED
    BY <2>1 DEF OneUnit
<1>5. CASE Promote \/ PromoteFails \/ Finish \/ Crash
  BY <1>5 DEF Promote, PromoteFails, Finish, EndCompaction, Crash
<1> QED
  BY <1>2, <1>3, <1>4, <1>5 DEF Next, Coordinator, Environment

LEMMA NextOneUnit ==
  ASSUME TypeInv, OneUnit, Fits, [Next]_vars
  PROVE  OneUnit'
<1>1. Len(<<>>) = 0
  OBVIOUS
<1>2. outputs \in Seq(Items) /\ (pc = "visit" => units = <<>> /\ outputs = <<>>)
  BY DEF TypeInv, Types, Control
<1>3. CASE Environment
  <2>1. UNCHANGED <<pc, units, outputs>>
    BY <1>3, EnvironmentStays DEF Environment
  <2> QED
    BY <2>1 DEF OneUnit, AtUnit
<1>4. CASE VisitCompact
  BY <1>4, VisitCompactUnit
<1>5. ASSUME units' = <<>>
      PROVE  Len(units') <= 1 /\ (units' # <<>> => pc' = "units" /\ outputs' = <<>>)
  BY <1>1, <1>5
<1>6. CASE BeginUnit
  <2>1. outputs' = <<>> /\ units' = <<>>
    BY <1>6, UnitsLeft DEF BeginUnit, OneUnit, VisitCompact, Environment, FlushBegin, FlushEnd,
       FlushTorn, TimerExpires, vars
  <2> QED
    BY <1>1, <2>1 DEF OneUnit
<1>7. CASE \/ VisitSkip \/ Join \/ JoinFails \/ Drain \/ DrainFails \/ Frame \/ FrameFails
           \/ SweepFails
  <2>1. outputs = <<>> /\ outputs' = <<>> /\ units = <<>> /\ units' = units
    BY <1>2, <1>7 DEF VisitSkip, Join, JoinFails, Drain, DrainFails, Frame, FrameFails,
       SweepFails, OneUnit, AtUnit
  <2> QED
    BY <1>1, <2>1 DEF OneUnit
<1>8. CASE Sweep
  <2>1. /\ outputs = <<>> /\ units = <<>> /\ units' = units
        /\ outputs' = Append(<<>>, unit.target[1]) /\ pc' = "units"
    BY <1>8 DEF Sweep, AbandonUnit, OneUnit, AtUnit
  <2>2. Len(Append(<<>>, unit.target[1])) = 1
    OBVIOUS
  <2> QED
    BY <1>1, <2>1, <2>2 DEF OneUnit, AtUnit
<1>9. CASE Promote
  <2>1. units' = <<>> /\ outputs' = Tail(outputs) /\ outputs # <<>> /\ pc' = "units"
    BY <1>9 DEF Promote
  <2>2. Len(Tail(outputs)) <= 1
    BY <1>2, <2>1 DEF OneUnit
  <2> QED
    BY <1>1, <2>1, <2>2 DEF OneUnit, AtUnit
<1>10. CASE PromoteFails \/ Finish \/ Crash
  <2>1. units' = <<>> /\ outputs' = <<>>
    BY <1>10 DEF PromoteFails, Finish, Crash, EndCompaction
  <2> QED
    BY <1>1, <2>1 DEF OneUnit
<1> QED
  BY <1>3, <1>4, <1>6, <1>7, <1>8, <1>9, <1>10 DEF Next, Coordinator, Environment

\* A flush brings one table, created last of all and with the newest entries.
LEMMA FlushBeginBins ==
  ASSUME TypeInv, FlushBegin
  PROVE  LET new == TablePath(flushed + 1)
         IN  /\ Bins(files') = Bins(files) \cup {new} /\ new \notin DOMAIN files
             /\ \A p \in DOMAIN files : files'[p] = files[p] /\ files[p].created < files'[new].created
             /\ files'[new].data = writing'
             /\ \A k \in Keys : writing'[k] # Absent => writing'[k].by = flushed + 1
<1> DEFINE new == TablePath(flushed + 1)
<1>1. /\ files' = Create(files, new, writing', "growing") /\ flushed' = flushed + 1
  BY DEF FlushBegin, TablePath
<1>2. new \notin DOMAIN files /\ new[3] = "bin"
  BY FlushPathIsNew DEF TablePath
<1>3. /\ DOMAIN files' = DOMAIN files \cup {new}
      /\ files'[new].created = clock /\ files'[new].data = writing'
      /\ \A p \in DOMAIN files : files'[p] = files[p]
  <2> HIDE DEF new
  <2> QED
    BY <1>1, <1>2 DEF Create, With, File
<1>4. \A p \in DOMAIN files : files[p].created < clock
  BY DEF TypeInv, Types, Directory, FileRecords
<1>5. \A k \in Keys : writing'[k] # Absent => writing'[k].by = flushed + 1
  BY <1>1, WritingType DEF TypeInv, Types
<1> HIDE DEF new
<1>6. Bins(files') = Bins(files) \cup {new}
  BY <1>2, <1>3 DEF Bins
<1> QED
  BY <1>2, <1>3, <1>4, <1>5, <1>6 DEF new

LEMMA NextListed ==
  ASSUME TypeInv, OneUnit, ListedAll, Fits, [Next]_vars
  PROVE  ListedAll'
<1>1. CASE VisitCompact
  BY <1>1, VisitCompactUnit
<1>2. CASE units' = <<>>
  BY <1>2 DEF ListedAll
<1>3. CASE units' # <<>> /\ Environment
  <2>1. /\ \A p : Stays(p)
        /\ UNCHANGED <<level, units>>
    BY <1>3, EnvironmentStays DEF Environment
  <2>2. /\ 1 \in DOMAIN units /\ units # <<>>
        /\ \A i \in DOMAIN units[1] : Has(units[1][i])
    BY <1>3, <2>1 DEF TypeInv, Types, WaitingOK
  <2>3. \A i \in DOMAIN units[1] : At(units[1][i])'.created = At(units[1][i]).created
    BY <2>1, <2>2 DEF Stays, At, Has
  <2>4. ASSUME NEW p \in Tables(level), files'[p].created = files[p].created
        PROVE  \/ \E i \in DOMAIN units[1] : p = Path(level, units[1][i])
               \/ \A i \in DOMAIN units[1] : files'[p].created > At(units[1][i])'.created
    BY <2>2, <2>3, <2>4 DEF ListedAll
  <2>5. CASE FlushBegin
    <3>1. ASSUME NEW p \in Tables(level)'
          PROVE  \/ \E i \in DOMAIN units[1] : p = Path(level, units[1][i])
                 \/ \A i \in DOMAIN units[1] : files'[p].created > At(units[1][i])'.created
      <4>1. CASE p \in DOMAIN files
        <5>1. p \in Tables(level) /\ files'[p].created = files[p].created
          BY <2>1, <2>5, <4>1, FlushBeginBins DEF Tables
        <5> QED
          BY <2>4, <5>1
      <4>2. CASE p \notin DOMAIN files
        <5>1. p = TablePath(flushed + 1)
          BY <2>5, <4>2, FlushBeginBins DEF Tables, Bins
        <5>2. \A q \in DOMAIN files : files[q].created < files'[p].created
          BY <2>5, <5>1, FlushBeginBins
        <5>3. \A i \in DOMAIN units[1] : At(units[1][i])'.created < files'[p].created
          BY <2>2, <2>3, <5>2 DEF At, Has
        <5> QED
          BY <5>3
      <4> QED
        BY <4>1, <4>2
    <3> QED
      BY <2>1, <3>1 DEF ListedAll
  <2>6. CASE ~FlushBegin
    <3>1. SameBins
      BY <1>3, <2>6, StepSameBins DEF Environment, Promote, OneUnit, FlushEnd, FlushTorn,
         TimerExpires, vars, Next
    <3>2. \A p \in Tables(level)' : p \in Tables(level) /\ files'[p].created = files[p].created
      BY <2>1, <3>1 DEF SameBins, Bins, Tables
    <3> QED
      BY <2>1, <2>4, <3>2 DEF ListedAll
  <2> QED
    BY <2>5, <2>6
<1> QED
  BY <1>1, <1>2, <1>3, UnitsLeft

LEMMA NextFilesAged ==
  ASSUME TypeInv, FilesAged, [Next]_vars
  PROVE  FilesAged'
<1>1. flushed \in Nat
  BY BoundsAssumption DEF TypeInv, Types
<1>2. CASE FlushBegin
  <2>1. flushed' = flushed + 1
    BY <1>2 DEF FlushBegin
  <2>2. ASSUME NEW k \in Keys, NEW e \in Entry, NEW p \in DOMAIN files', files'[p].data[k] = e
        PROVE  e.by <= flushed'
    <3>1. CASE p \in DOMAIN files
      <4>1. InFiles(files, k, e)
        BY <1>2, <2>2, <3>1, FlushBeginBins DEF InFiles
      <4>2. e.by <= flushed /\ e.by \in Nat
        BY <4>1 DEF FilesAged, Entry
      <4> QED
        BY <1>1, <2>1, <4>2
    <3>2. CASE p \notin DOMAIN files
      <4>1. p = TablePath(flushed + 1)
        BY <1>2, <3>2, CreateOnly DEF FlushBegin, TablePath
      <4>2. e.by = flushed + 1
        BY <1>2, <2>2, <4>1, AbsentAssumption, FlushBeginBins
      <4> QED
        BY <1>1, <2>1, <4>2
    <3> QED
      BY <3>1, <3>2
  <2> QED
    BY <2>2 DEF FilesAged, InFiles
<1>3. CASE ~FlushBegin
  <2>1. flushed' = flushed
    BY <1>3 DEF Next, Coordinator, FlushEnd, FlushTorn, TimerExpires, VisitSkip, VisitCompact,
       BeginUnit, Join, JoinFails, Drain, DrainFails, Frame, FrameFails, Sweep, SweepFails,
       Promote, PromoteFails, Finish, Crash, vars
  <2>2. Comes(files, files')
    BY <1>3, NextComes
  <2> QED
    BY <2>1, <2>2 DEF FilesAged, Comes
<1> QED
  BY <1>2, <1>3

-----------------------------------------------------------------------------
(* The layers after a step                                                 *)

LEMMA FlushBeginAfter ==
  ASSUME TypeInv, FilesAged, FlushBegin, NEW d \in Content,
         \A k \in Keys : d[k] # Absent => InFiles(files, k, d[k])
  PROVE  After(writing', d)
<1> SUFFICES ASSUME NEW k \in Keys, writing'[k] # Absent, d[k] # Absent
             PROVE  writing'[k].by > d[k].by
  BY DEF After
<1>1. writing'[k].by = flushed + 1
  BY FlushBeginBins
<1>2. d[k] \in Entry
  BY DEF Content
<1>3. d[k].by <= flushed /\ d[k].by \in Nat
  BY <1>2 DEF FilesAged, Entry
<1>4. flushed \in Nat
  BY BoundsAssumption DEF TypeInv, Types
<1> QED
  BY <1>1, <1>3, <1>4

LEMMA FileContent ==
  ASSUME TypeInv, NEW p \in DOMAIN files
  PROVE  /\ files[p].data \in Content /\ files[p].created \in Int
         /\ p[1] \in 1..(Levels + 1)
         /\ \A k \in Keys : InFiles(files, k, files[p].data[k])
<1>1. files[p] \in FileRecords(clock) /\ p \in Paths
  BY DEF TypeInv, Types, Directory
<1> QED
  BY <1>1 DEF FileRecords, Paths, InFiles

LEMMA FlushBeginLayered ==
  ASSUME TypeInv, FilesAged, Layered, FlushBegin
  PROVE  Layered'
<1> DEFINE new == TablePath(flushed + 1)
<1>1. /\ Bins(files') = Bins(files) \cup {new} /\ new \notin DOMAIN files
      /\ \A p \in DOMAIN files : files'[p] = files[p] /\ files[p].created < files'[new].created
      /\ files'[new].data = writing' /\ new[1] = 1
  BY FlushBeginBins DEF TablePath
<1>2. \A p \in Bins(files) : p \in DOMAIN files
  BY DEF Bins
<1> SUFFICES ASSUME NEW p \in Bins(files'), NEW q \in Bins(files'), Before(files', p, q)
             PROVE  After(files'[p].data, files'[q].data)
  BY DEF Layered
<1>3. new \in DOMAIN files' /\ files'[new].created \in Int
  <2>1. Directory(files', clock')
    BY FlushBeginTypes DEF TypeInv, Types
  <2>2. new \in DOMAIN files'
    BY <1>1 DEF Bins
  <2> QED
    BY <2>1, <2>2 DEF Directory, FileRecords
<1> HIDE DEF new
<1>4. CASE p \in Bins(files) /\ q \in Bins(files)
  <2>1. Before(files, p, q)
    BY <1>1, <1>2, <1>4 DEF Before
  <2> QED
    BY <1>1, <1>2, <1>4, <2>1 DEF Layered
<1>5. CASE p = new /\ q \in Bins(files)
  <2>1. After(writing', files[q].data)
    BY <1>2, <1>5, FileContent, FlushBeginAfter
  <2> QED
    BY <1>1, <1>2, <1>5, <2>1
<1>6. CASE p \in Bins(files) /\ q = new
  <2>1. p[1] \in Int /\ p[1] >= 1 /\ files[p].created \in Int
    BY <1>2, <1>6, FileContent
  <2> QED
    BY <1>1, <1>2, <1>3, <1>6, <2>1 DEF Before
<1>7. CASE p = new /\ q = new
  BY <1>1, <1>3, <1>7 DEF Before
<1> QED
  BY <1>1, <1>4, <1>5, <1>6, <1>7

\* A chunk is a file of the level.
LEMMA ChunkIs ==
  ASSUME TypeInv, NEW x, Chunk(x)
  PROVE  x \in Items /\ Has(x)
<1>1. CASE \E i \in DOMAIN unit.target : x = unit.target[i]
  BY <1>1, ItemsTyped DEF TypeInv, TargetOK
<1>2. CASE \E i \in DOMAIN unit.merged : x = unit.merged[i]
  BY <1>2, ItemsTyped DEF TypeInv, MergedOK
<1>3. CASE \E i \in DOMAIN outputs : x = outputs[i]
  BY <1>3, ItemsTyped DEF TypeInv, OutputsOK
<1>4. CASE pc = "drain" /\ x = Out
  BY <1>4, ItemsTyped DEF TypeInv, OutOK
<1> QED
  BY <1>1, <1>2, <1>3, <1>4 DEF Chunk

\* An output that is to be promoted belongs where it goes.
LEMMA PromoteLayered ==
  ASSUME TypeInv, Layered, ChunksOK, Promote
  PROVE  Layered'
<1> DEFINE x == outputs[1]
           to == Path(level + 1, <<x[1], "bin">>)
<1>1. /\ 1 \in DOMAIN outputs /\ files' = Rename(files, Path(level, x), to)
      /\ pc = "units"
  BY PromoteStep
<1>2. /\ Chunk(x) /\ x \in Items /\ Has(x) /\ x[2] = "tmp"
  <2>1. Chunk(x)
    BY <1>1 DEF Chunk
  <2>2. x[2] = "tmp"
    BY <1>1, TmpType DEF TypeInv, OutputsOK
  <2> QED
    BY <2>1, <2>2, ChunkIs
<1>3. DOMAIN unit.target = {}
  BY <1>1 DEF TypeInv, Control
<1>4. InPlace(At(x).data) /\ Latest(At(x).created)
  BY <1>2 DEF ChunksOK, ChunkOK
<1>5. /\ files'[to] = At(x)
      /\ \A p \in Bins(files') : p # to => p \in Bins(files) /\ files'[p] = files[p]
  <2> HIDE DEF to, x
  <2>1. files'[to] = At(x)
    BY <1>1, RenameMoves DEF At
  <2>2. ASSUME NEW p \in Bins(files'), p # to
        PROVE  p \in Bins(files) /\ files'[p] = files[p]
    BY <1>1, <2>2, RenameOnly DEF Bins
  <2> QED
    BY <2>1, <2>2
<1>6. to[1] = level + 1 /\ level \in Int
  BY PathExtension DEF TypeInv, Types
<1> SUFFICES ASSUME NEW p \in Bins(files'), NEW q \in Bins(files'), Before(files', p, q)
             PROVE  After(files'[p].data, files'[q].data)
  BY DEF Layered
<1>7. At(x).created \in Int
  BY <1>2, FileContent DEF Has, At
<1> HIDE DEF to, x
<1>8. CASE p # to /\ q # to
  <2>1. Before(files, p, q)
    BY <1>5, <1>8 DEF Before
  <2> QED
    BY <1>5, <1>8, <2>1 DEF Layered
<1>9. CASE p = to /\ q # to
  <2>1. q \in Bins(files) /\ q[1] \in Int
    BY <1>5, <1>9, FileContent DEF Bins
  <2>2. q[1] > level
    BY <1>6, <1>9, <2>1 DEF Before
  <2> QED
    BY <1>3, <1>4, <1>5, <1>9, <2>1, <2>2 DEF InPlace, IsTarget
<1>10. CASE p # to /\ q = to
  <2>1. p \in Bins(files) /\ p[1] \in Int /\ files[p].created \in Int
    BY <1>5, <1>10, FileContent DEF Bins
  <2>2. ~(p[1] = level + 1 /\ files[p].created > At(x).created)
    BY <1>4, <1>7, <2>1 DEF Latest, Tables, Bins
  <2>3. p[1] <= level
    BY <1>5, <1>6, <1>10, <2>1, <2>2 DEF Before
  <2> QED
    BY <1>3, <1>4, <1>5, <1>10, <2>1, <2>3 DEF InPlace, IsTarget
<1>11. CASE p = to /\ q = to
  BY <1>5, <1>6, <1>7, <1>11 DEF Before
<1> QED
  BY <1>8, <1>9, <1>10, <1>11

LEMMA NextLayered ==
  ASSUME TypeInv, FilesAged, Layered, ChunksOK, [Next]_vars
  PROVE  Layered'
BY StepSameBins, LayeredRemains, FlushBeginLayered, PromoteLayered

-----------------------------------------------------------------------------
(* The unit's files after a step                                           *)

LEMMA IdleChunks ==
  ASSUME TypeInv', pc' \in {"visit", "units"}, outputs' = <<>>
  PROVE  ChunksOK'
<1>1. unit'.target = <<>> /\ unit'.merged = <<>>
  BY NoUnitIs DEF TypeInv, Control
<1>2. DOMAIN unit'.target = {} /\ DOMAIN unit'.merged = {} /\ DOMAIN outputs' = {}
  BY <1>1
<1> QED
  BY <1>2 DEF ChunksOK, Chunk

\* Steps after which the unit has the same files.
LEMMA StaysChunks ==
  ASSUME TypeInv, ChunksOK, SameBins, \A p : Stays(p), UNCHANGED <<level, unit, outputs>>,
         pc' = "drain" => pc = "drain"
  PROVE  ChunksOK'
<1> SUFFICES ASSUME NEW x \in Items, Chunk(x)'
             PROVE  ChunkOK(x)'
  BY DEF ChunksOK
<1>1. Chunk(x)
  BY DEF Chunk, Out, OutName
<1>2. Has(x) /\ ChunkOK(x)
  BY <1>1, ChunkIs DEF ChunksOK
<1>3. At(x)'.data = At(x).data /\ At(x)'.created = At(x).created
  BY <1>2 DEF Stays, Has, At
<1>4. \A p : IsTarget(p)' <=> IsTarget(p)
  BY DEF IsTarget
<1> QED
  BY <1>2, <1>3, <1>4, ChunkRemains

LEMMA FlushBeginChunks ==
  ASSUME TypeInv, FilesAged, ChunksOK, FlushBegin
  PROVE  ChunksOK'
<1> DEFINE new == TablePath(flushed + 1)
<1>1. /\ Bins(files') = Bins(files) \cup {new} /\ new \notin DOMAIN files
      /\ \A p \in DOMAIN files : files'[p] = files[p]
      /\ files'[new].data = writing' /\ new[1] = 1
  BY FlushBeginBins DEF TablePath
<1>2. UNCHANGED <<pc, level, units, unit, outputs>>
  BY DEF FlushBegin
<1> SUFFICES ASSUME NEW x \in Items, Chunk(x)'
             PROVE  ChunkOK(x)'
  BY DEF ChunksOK
<1>3. Chunk(x)
  BY <1>2 DEF Chunk, Out, OutName
<1>4. Path(level, x) \in DOMAIN files /\ ChunkOK(x)
  BY <1>3, ChunkIs DEF ChunksOK, Has
<1>5. At(x)' = At(x) /\ level \in Int /\ level >= 1
  BY <1>1, <1>2, <1>4 DEF At, TypeInv, Types
<1>6. \A p : IsTarget(p)' <=> IsTarget(p)
  BY <1>2 DEF IsTarget
<1>7. After(writing', At(x).data)
  BY <1>4, FileContent, FlushBeginAfter DEF At
<1>8. \A p \in Bins(files) : p \in DOMAIN files
  BY DEF Bins
<1> HIDE DEF new
<1>9. InPlace(At(x).data)'
  <2> SUFFICES ASSUME NEW p \in Bins(files'), ~IsTarget(p)
               PROVE  /\ p[1] <= level => After(files'[p].data, At(x).data)
                      /\ p[1] > level => After(At(x).data, files'[p].data)
    BY <1>2, <1>5, <1>6 DEF InPlace
  <2>1. CASE p \in Bins(files)
    BY <1>1, <1>4, <1>8, <2>1 DEF ChunkOK, InPlace
  <2>2. CASE p = new
    BY <1>1, <1>5, <1>7, <2>2
  <2> QED
    BY <1>1, <2>1, <2>2
<1>10. ASSUME x[2] = "tmp"
       PROVE  Latest(At(x).created)'
  <2>1. ASSUME NEW p \in Tables(level + 1)'
        PROVE  p \in Tables(level + 1) /\ files'[p] = files[p]
    <3>1. p \in Bins(files') /\ p[1] = level + 1
      BY <1>2, <2>1 DEF Tables, Bins
    <3>2. p # new
      BY <1>1, <1>5, <3>1
    <3> QED
      BY <1>1, <1>8, <3>1, <3>2 DEF Tables, Bins
  <2> QED
    BY <1>2, <1>4, <1>5, <1>10, <2>1 DEF ChunkOK, Latest
<1> QED
  BY <1>9, <1>10 DEF ChunkOK

\* A unit begins with all tables of its level.
LEMMA BeginUnitChunks ==
  ASSUME TypeInv, Layered, OneUnit, ListedAll, BeginUnit
  PROVE  ChunksOK'
<1>1. /\ pc = "units" /\ units # <<>> /\ outputs = <<>> /\ pc' = "join"
      /\ unit' = [NoUnit EXCEPT !.id = unit.id, !.target = units[1], !.input = Overlay(units[1])]
      /\ UNCHANGED <<files, level, outputs>>
  BY DEF BeginUnit, OneUnit
<1>2. unit'.target = units[1] /\ unit'.merged = <<>>
  BY <1>1 DEF NoUnit
<1>3. 1 \in DOMAIN units
  BY <1>1 DEF TypeInv, Types
<1>4. \A p : IsTarget(p)' <=> \E i \in DOMAIN units[1] : p = Path(level, units[1][i])
  BY <1>1, <1>2 DEF IsTarget
<1> SUFFICES ASSUME NEW x \in Items, Chunk(x)'
             PROVE  ChunkOK(x)'
  BY DEF ChunksOK
<1>5. PICK i \in DOMAIN units[1] : x = units[1][i]
  <2>1. DOMAIN unit'.merged = {} /\ DOMAIN outputs' = {}
    BY <1>1, <1>2
  <2> QED
    BY <1>1, <1>2, <2>1 DEF Chunk
<1>6. x[2] = "bin" /\ Has(x)
  BY <1>3, <1>5 DEF TypeInv, WaitingOK
<1> DEFINE own == Path(level, x)
<1>7. own \in Bins(files) /\ own[1] = level /\ At(x) = files[own]
  BY <1>6, PathExtension DEF Bins, Has, At
<1>8. At(x)' = At(x)
  BY <1>1 DEF At
<1> HIDE DEF own
<1>9. ASSUME NEW p \in Bins(files), ~IsTarget(p)'
      PROVE  /\ p[1] <= level => After(files[p].data, files[own].data)
             /\ p[1] > level => After(files[own].data, files[p].data)
  <2>1. p[1] \in Int /\ level \in Int
    BY FileContent DEF Bins, TypeInv, Types
  <2>2. p[1] > level => Before(files, own, p)
    BY <1>7, <2>1 DEF Before
  <2>3. p[1] < level => Before(files, p, own)
    BY <1>7 DEF Before
  <2>4. ASSUME p[1] = level
        PROVE  Before(files, p, own)
    <3>1. p \in Tables(level)
      BY <2>4 DEF Tables, Bins
    <3>2. files[p].created > At(x).created
      BY <1>1, <1>4, <1>5, <1>9, <3>1 DEF ListedAll
    <3> QED
      BY <1>7, <2>4, <3>2 DEF Before
  <2> QED
    BY <1>7, <2>1, <2>2, <2>3, <2>4 DEF Layered
<1>10. InPlace(At(x).data)'
  BY <1>1, <1>7, <1>8, <1>9 DEF InPlace
<1> QED
  BY <1>6, <1>10 DEF ChunkOK

LEMMA JoinedInPlace ==
  ASSUME NEW l, NEW r, NEW dl, NEW dr,
         \A k \in Keys : dl[k] = Absent \/ dl[k] = l[k],
         \A k \in Keys : dr[k] = Absent \/ dr[k] = r[k],
         InPlace(l), InPlace(r)
  PROVE  InPlace(Joined(dl, dr))
<1>1. \A k \in Keys : \/ Joined(dl, dr)[k] = Absent
                      \/ Joined(dl, dr)[k] = l[k]
                      \/ Joined(dl, dr)[k] = r[k]
  BY DEF Joined, Over, Alive
<1>2. ASSUME NEW p
      PROVE  /\ After(files[p].data, l) /\ After(files[p].data, r)
                => After(files[p].data, Joined(dl, dr))
             /\ After(l, files[p].data) /\ After(r, files[p].data)
                => After(Joined(dl, dr), files[p].data)
  BY <1>1 DEF After
<1> QED
  BY <1>2 DEF InPlace

LEMMA JoinChunks ==
  ASSUME TypeInv, NamesFresh, ChunksOK, Join
  PROVE  ChunksOK'
<1>1. /\ pc = "join" /\ pc' = "drain" /\ Len(unit.target) >= 2
      /\ UNCHANGED <<level, units, unit, outputs>>
  BY DEF Join, TypeInv, Control
<1>2. PICK dl \in Takes(unit.target[1]), dr \in Takes(unit.target[2]) :
        files' = Create(files, Path(level, Out), Joined(dl, dr), "raw")
  BY DEF Join
<1>3. 1 \in DOMAIN unit.target /\ 2 \in DOMAIN unit.target
  BY <1>1, ItemsTyped, RestItems DEF TypeInv
<1>4. ~Has(Out)
  BY <1>1 DEF NamesFresh
<1>5. SameBins /\ Out' = Out
  <2>1. BinsFrom(files, files')
    BY <1>2, OutBins
  <2> QED
    BY <1>1, <2>1 DEF SameBins, BinsFrom, Bins, Out, OutName
<1>6. \A p : IsTarget(p)' <=> IsTarget(p)
  BY <1>1 DEF IsTarget
<1>7. InPlace(Joined(dl, dr))
  <2>1. InPlace(At(unit.target[1]).data) /\ InPlace(At(unit.target[2]).data)
    <3>1. Chunk(unit.target[1]) /\ Chunk(unit.target[2])
      BY <1>3 DEF Chunk
    <3> QED
      BY <3>1, ChunkIs DEF ChunksOK, ChunkOK
  <2>2. ASSUME NEW x, NEW d \in Takes(x), NEW k \in Keys
        PROVE  d[k] = Absent \/ d[k] = At(x).data[k]
    BY DEF Takes, Part
  <2> QED
    BY <2>1, <2>2, JoinedInPlace
<1>8. /\ At(Out)'.data = Joined(dl, dr) /\ At(Out)'.created = clock
  <2>1. Path(level, Out) \notin DOMAIN files
    BY <1>4 DEF Has
  <2> QED
    BY <1>1, <1>2, <1>5, <2>1 DEF At, Create, With, File
<1> SUFFICES ASSUME NEW x \in Items, Chunk(x)'
             PROVE  ChunkOK(x)'
  BY DEF ChunksOK
<1>9. CASE x = Out
  <2>1. InPlace(At(x).data)'
    BY <1>1, <1>5, <1>6, <1>7, <1>8, <1>9 DEF InPlace, SameBins
  <2>2. ASSUME NEW p \in Tables(level + 1)'
        PROVE  clock > files'[p].created
    <3>1. p \in DOMAIN files /\ files'[p].created = files[p].created
      BY <1>1, <1>5 DEF SameBins, Tables, Bins
    <3> QED
      BY <3>1 DEF TypeInv, Types, Directory, FileRecords
  <2>3. Latest(At(x).created)'
    BY <1>1, <1>5, <1>8, <1>9, <2>2 DEF Latest
  <2> QED
    BY <2>1, <2>3 DEF ChunkOK
<1>10. CASE x # Out
  <2>1. Chunk(x)
    BY <1>1, <1>5, <1>10 DEF Chunk
  <2>2. Path(level, x) \in DOMAIN files /\ Path(level, x) # Path(level, Out) /\ ChunkOK(x)
    BY <1>4, <2>1, ChunkIs DEF Has, ChunksOK
  <2>3. At(x)' = At(x)
    BY <1>1, <1>2, <2>2, CreateKeeps DEF At
  <2> QED
    BY <1>1, <1>5, <1>6, <2>2, <2>3, ChunkRemains
<1> QED
  BY <1>9, <1>10

\* A target that is not of the pair stays one.
LEMMA RestRemains ==
  ASSUME TypeInv, Drain, NEW i \in DOMAIN unit.target, i \notin 1..2
  PROVE  \E j \in DOMAIN unit'.target : unit'.target[j] = unit.target[i]
<1> DEFINE s == unit.target
           j == i - 2
<1>1. /\ Rest \in Seq(Items) /\ MergedNow \in Seq(Items)
      /\ unit'.target = Rest \/ unit'.target = MergedNow \o Rest
  BY DrainStep
<1>2. s \in Seq(Items) /\ Len(s) >= 2
  BY ItemsTyped DEF Drain, TypeInv, Control
<1>3. /\ DOMAIN Rest = 1..(Len(s) - 2)
      /\ \A n \in DOMAIN Rest : Rest[n] = s[n + 2]
  BY <1>2, RestItems DEF Rest
<1>4. i \in 1..Len(s) /\ Len(s) \in Nat
  BY <1>2
<1>5. j \in 1..(Len(s) - 2) /\ j + 2 = i
  BY <1>4
<1> HIDE DEF s, j
<1>6. j \in DOMAIN Rest /\ Rest[j] = s[i]
  BY <1>3, <1>5
<1>7. CASE unit'.target = Rest
  BY <1>6, <1>7 DEF s
<1>8. CASE unit'.target = MergedNow \o Rest
  <2> DEFINE n == Len(MergedNow) + j
  <2>1. n \in DOMAIN (MergedNow \o Rest) /\ (MergedNow \o Rest)[n] = Rest[j]
    BY <1>1, <1>6, ConcatItems
  <2> HIDE DEF n
  <2> QED
    BY <1>6, <1>8, <2>1 DEF s
<1> QED
  BY <1>1, <1>7, <1>8

LEMMA DrainChunks ==
  ASSUME TypeInv, ChunksOK, Drain
  PROVE  ChunksOK'
<1>1. pc = "drain" /\ pc' # "drain" /\ UNCHANGED <<level, outputs>>
  BY DrainStep
<1>2. SameBins
  BY PairBins DEF SameBins, BinsFrom, Bins
<1> SUFFICES ASSUME NEW x \in Items, Chunk(x)'
             PROVE  ChunkOK(x)'
  BY DEF ChunksOK
<1>3. DrainItem(x) \/ \E i \in DOMAIN outputs : x = outputs[i]
  BY <1>1, DrainItems DEF Chunk
<1>4. Chunk(x) /\ ChunkOK(x)
  <2>1. Chunk(x)
    BY <1>1, <1>3, DrainItemWas DEF Chunk
  <2> QED
    BY <2>1 DEF ChunksOK
<1>5. At(x)' = At(x)
  BY <1>1, <1>3, DrainItemWas, DrainKeeps DEF At
<1>6. ASSUME NEW p \in Bins(files'), IsTarget(p)
      PROVE  IsTarget(p)'
  <2>1. PICK i \in DOMAIN unit.target : p = Path(level, unit.target[i])
    BY <1>6 DEF IsTarget
  <2>2. p \in DOMAIN files' /\ unit.target[i][2] = "bin"
    BY <1>6, <2>1, PathExtension DEF Bins
  <2>3. i \notin 1..2
    BY <2>1, <2>2, DrainFrees
  <2> QED
    BY <1>1, <2>1, <2>3, RestRemains DEF IsTarget
<1> QED
  BY <1>1, <1>2, <1>4, <1>5, <1>6, ChunkRemains

LEMMA SweepChunks ==
  ASSUME TypeInv, TypeInv', OneUnit, ChunksOK, Sweep
  PROVE  ChunksOK'
<1>1. PICK last \in Items : last = unit.target[1]
  <2>1. pc = "sweep"
    BY DEF Sweep
  <2> QED
    BY <2>1, LastApart
<1>2. /\ pc = "sweep" /\ pc' = "units" /\ level' = level
      /\ files' = Swept(Len(unit.consumed))
      /\ outputs = <<>> /\ outputs' = Append(<<>>, last)
  BY <1>1 DEF Sweep, AbandonUnit, OneUnit, AtUnit
<1>3. /\ 1 \in DOMAIN unit.target /\ DOMAIN unit.target = {1}
      /\ Has(last) /\ last[2] = "tmp"
  BY <1>1, <1>2, LastApart, OwnTmpIsTmp
<1>4. At(last)' = At(last)
  <2>1. Len(unit.consumed) \in 0..Len(unit.consumed)
    BY ItemsTyped DEF TypeInv
  <2>2. \A i \in DOMAIN unit.consumed : Path(level, last) # Path(level, unit.consumed[i])
    BY <1>1, <1>3, ConsumedApart
  <2> QED
    BY <1>2, <1>3, <2>1, <2>2, SweptKeeps DEF At, Has
<1>5. SameBins
  <2>1. BinsFrom(files, files')
    BY <1>2, WithoutBins DEF Swept
  <2> QED
    BY <2>1 DEF SameBins, BinsFrom, Bins
<1>6. ChunkOK(last)
  BY <1>1, <1>3 DEF ChunksOK, Chunk
<1>7. \A p \in Bins(files') : ~IsTarget(p)
  <2>1. Path(level, last)[3] = "tmp"
    BY <1>3, PathExtension
  <2> QED
    BY <1>1, <1>3, <2>1 DEF IsTarget, Bins
<1> SUFFICES ASSUME NEW x \in Items, Chunk(x)'
             PROVE  ChunkOK(x)'
  BY DEF ChunksOK
<1>8. x = last
  <2>1. DOMAIN unit'.target = {} /\ DOMAIN unit'.merged = {}
    BY <1>2 DEF TypeInv, Control
  <2>2. \A i \in DOMAIN outputs' : outputs'[i] = last
    BY <1>2
  <2> QED
    BY <1>2, <2>1, <2>2 DEF Chunk
<1> QED
  BY <1>2, <1>3, <1>4, <1>5, <1>6, <1>7, <1>8, ChunkRemains

LEMMA FrameStays ==
  ASSUME TypeInv, Frame
  PROVE  \A p : Stays(p)
<1>1. /\ pc = "frame" /\ flushed' = flushed
      /\ files' = [files EXCEPT ![Path(level, unit.target[1])].form = "table"]
  BY DEF Frame
<1>2. "table" \in Forms /\ "table" \in Intact
  BY DEF Forms, Intact
<1> QED
  BY <1>1, <1>2, LastFormed

LEMMA NextChunks ==
  ASSUME TypeInv, TypeInv', LayerInv, NamesFresh, [Next]_vars
  PROVE  ChunksOK'
<1>1. CASE FlushBegin
  BY <1>1, FlushBeginChunks DEF LayerInv
<1>2. CASE Environment /\ ~FlushBegin
  <2>1. SameBins
    BY <1>2, StepSameBins DEF Environment, Promote, FlushEnd, FlushTorn, TimerExpires, vars, LayerInv,
       TypeInv, Control
  <2> QED
    BY <1>2, <2>1, EnvironmentStays, StaysChunks DEF Environment, LayerInv
<1>3. CASE VisitSkip \/ VisitCompact
  <2>1. outputs' = <<>> /\ pc' \in {"visit", "units"}
    BY <1>3 DEF VisitSkip, VisitCompact, TypeInv, Control
  <2> QED
    BY <2>1, IdleChunks
<1>4. CASE JoinFails \/ DrainFails \/ FrameFails \/ SweepFails
  <2>1. outputs' = <<>> /\ pc' \in {"visit", "units"}
    BY <1>4 DEF JoinFails, DrainFails, FrameFails, SweepFails, AbandonUnit, LayerInv, OneUnit, AtUnit
  <2> QED
    BY <2>1, IdleChunks
<1>5. CASE Promote
  <2>1. pc' = "units" /\ outputs' = Tail(outputs) /\ outputs # <<>>
    BY <1>5, PromoteStep
  <2>2. outputs' = <<>>
    BY <2>1, TailOfOne DEF LayerInv, OneUnit, TypeInv, Types
  <2> QED
    BY <2>1, <2>2, IdleChunks
<1>6. CASE PromoteFails \/ Finish \/ Crash
  <2>1. outputs' = <<>> /\ pc' \in {"visit", "units"}
    BY <1>6 DEF PromoteFails, Finish, Crash, EndCompaction
  <2> QED
    BY <2>1, IdleChunks
<1>7. CASE BeginUnit
  BY <1>7, BeginUnitChunks DEF LayerInv
<1>8. CASE Join
  BY <1>8, JoinChunks DEF LayerInv
<1>9. CASE Drain
  BY <1>9, DrainChunks DEF LayerInv
<1>10. CASE Frame
  <2>1. SameBins /\ pc' = "sweep" /\ UNCHANGED <<level, unit, outputs>>
    BY <1>10, StepSameBins DEF Frame, FlushBegin, Promote, Next, Coordinator
  <2> QED
    BY <1>10, <2>1, FrameStays, StaysChunks DEF LayerInv
<1>11. CASE Sweep
  BY <1>11, SweepChunks DEF LayerInv
<1> QED
  BY <1>1, <1>2, <1>3, <1>4, <1>5, <1>6, <1>7, <1>8, <1>9, <1>10, <1>11
     DEF Next, Coordinator, Environment

LEMMA InitLayers == Init => LayerInv
<1> SUFFICES ASSUME Init
             PROVE  LayerInv
  OBVIOUS
<1>1. /\ files = <<>> /\ units = <<>> /\ outputs = <<>> /\ unit = NoUnit /\ pc = "visit"
  BY DEF Init
<1>2. /\ DOMAIN files = {} /\ DOMAIN outputs = {} /\ Len(<<>>) = 0
      /\ DOMAIN unit.target = {} /\ DOMAIN unit.merged = {}
  BY <1>1, NoUnitIs
<1>3. FilesAged /\ Layered
  BY <1>2 DEF FilesAged, InFiles, Layered, Bins
<1>4. OneUnit /\ ListedAll
  BY <1>1, <1>2 DEF OneUnit, ListedAll, AtUnit
<1>5. ChunksOK
  BY <1>1, <1>2 DEF ChunksOK, Chunk
<1> QED
  BY <1>3, <1>4, <1>5 DEF LayerInv

LEMMA NextLayers ==
  ASSUME TypeInv, TypeInv', LayerInv, NamesFresh, Fits, [Next]_vars
  PROVE  LayerInv'
<1>1. FilesAged' /\ OneUnit' /\ ListedAll' /\ Layered'
  BY NextFilesAged, NextOneUnit, NextListed, NextLayered DEF LayerInv
<1> QED
  BY <1>1, NextChunks DEF LayerInv

LEMMA AlwaysLayers == Spec /\ [](NamesFresh /\ Fits) => []LayerInv
<1>1. /\ TypeInv /\ TypeInv' /\ LayerInv /\ NamesFresh /\ Fits /\ [Next]_vars
      => LayerInv'
  BY NextLayers
<1> QED
  BY <1>1, InitLayers, AlwaysTyped, PTL DEF Spec

\* If every compaction takes its level in one unit and no file name repeats,
\* the entries of a level are newer than those of all levels below it, in tables
\* and keys of any kind, whatever fails and wherever the process ends.
THEOREM LevelsInOrder ==
  Spec /\ [](NamesFresh /\ Fits) => []UpperLevelNewerEntries
<1>1. LayerInv => UpperLevelNewerEntries
  <2> SUFFICES ASSUME LayerInv, NEW l \in 1..(Levels + 1), NEW m \in 1..(Levels + 1),
                      NEW k \in Keys, l < m, NEW p \in Hits(l, k), NEW q \in Hits(m, k)
               PROVE  files[p].data[k].by > files[q].data[k].by
    BY DEF UpperLevelNewerEntries
  <2>1. /\ p \in Bins(files) /\ p[1] = l /\ files[p].data[k] # Absent
        /\ q \in Bins(files) /\ q[1] = m /\ files[q].data[k] # Absent
    BY DEF Hits, Tables, Bins
  <2> QED
    BY <2>1 DEF LayerInv, Layered, Before, After
<1> QED
  BY <1>1, AlwaysLayers, PTL

LEMMA LayersAged ==
  ASSUME TypeInv, LayerInv
  PROVE  AgesOrdered
<1> SUFFICES ASSUME NEW p \in Tables(level), NEW q \in Tables(level),
                    NEW k \in LongKeys, files[p].created > files[q].created,
                    files[p].data[k] # Absent, files[q].data[k] # Absent
             PROVE  files[p].data[k].by >= files[q].data[k].by
  BY DEF AgesOrdered
<1>1. k \in Keys
  BY DEF LongKeys
<1>2. p \in Bins(files) /\ q \in Bins(files) /\ p[1] = level /\ q[1] = level
  BY DEF Tables, Bins
<1>3. files[p].data[k].by > files[q].data[k].by
  BY <1>1, <1>2 DEF LayerInv, Layered, Before, After
<1>4. files[p].data[k].by \in Nat /\ files[q].data[k].by \in Nat
  BY <1>1, <1>2, FileContent DEF Bins, Content, Entry
<1> QED
  BY <1>3, <1>4

LEMMA FittingErasure ==
  WholeReads => (Spec /\ [](NamesFresh /\ Fits) => []ErasureInv)
<1> SUFFICES ASSUME WholeReads
             PROVE  Spec /\ [](NamesFresh /\ Fits) => []ErasureInv
  OBVIOUS
<1>1. TypeInv /\ LayerInv => AgesOrdered
  BY LayersAged
<1>2. Spec /\ [](NamesFresh /\ AgesOrdered) => []ErasureInv
  BY AlwaysErasure
<1> QED
  BY <1>1, <1>2, AlwaysLayers, AlwaysTyped, PTL

\* And then nothing is erased, for the tables of a level are in the order that
\* the joins rely on.
THEOREM FittingErasesNothing ==
  WholeReads => (Spec /\ [](NamesFresh /\ Fits) => []NothingErased)
<1>1. ErasureInv => NothingErased
  BY NothingErasedIs DEF ErasureInv
<1> QED
  BY <1>1, FittingErasure, PTL

-----------------------------------------------------------------------------
(* What readers find, as long as nothing fails                             *)

\* The file is a table, or stands for tables of the compaction at work.
Standing(p) == p \in Bins(files) \/ \E x \in Items : Chunk(x) /\ p = Path(level, x)

\* Such a file that is whole, with an entry of the key of this age or newer.
Stands(p, k, age) ==
  /\ p \in DOMAIN files /\ files[p].form \in Intact /\ Standing(p)
  /\ files[p].data[k] # Absent /\ files[p].data[k].by >= age

\* After a step there is still one: the same table, an output in the level of the
\* table that is drained or of the output before, or a table further down.
Onward(p, k, age) ==
  \E q \in DOMAIN files' :
    /\ Stands(q, k, age)'
    /\ \/ q = p /\ p[3] = "bin"
       \/ q[3] = "tmp" /\ q[1] = p[1] /\ (p[3] = "bin" => p \notin DOMAIN files')
       \/ q[1] > p[1]

StoreStands ==
  \A k \in LongKeys : store[k] # Absent => \E p \in DOMAIN files : Stands(p, k, store[k].by)

TablesReadable == \A p \in Bins(files) : files[p].form \in {"table", "growing"}

\* The table being written is the newest one of its level, and the first one of a
\* unit, which then does not get on.
GrowingLatest ==
  \A p, q \in Bins(files) :
    files[p].form = "growing" /\ p[1] = q[1] => files[q].created <= files[p].created
GrowingLeads ==
  \A i \in DOMAIN unit.target :
    At(unit.target[i]).form = "growing" => i = 1 /\ unit.consumed = <<>>

Framed ==
  /\ pc = "sweep" => At(unit.target[1]).form = "table"
  /\ \A i \in DOMAIN outputs : At(outputs[i]).form = "table"

\* A join has what its two sides have.
PairJoined ==
  pc = "drain" => \A n \in 1..2, k \in LongKeys :
    At(unit.target[n]).data[k] # Absent => At(Out).data[k] # Absent

ViewInv ==
  StoreStands /\ TablesReadable /\ GrowingLatest /\ GrowingLeads /\ Framed /\ PairJoined

\* The steps there are when nothing fails.
LEMMA CalmSteps ==
  ASSUME Faults = {}, TypeInv, [Next]_vars
  PROVE  \/ FlushBegin \/ FlushEnd \/ TimerExpires \/ UNCHANGED vars
         \/ VisitSkip \/ VisitCompact \/ BeginUnit \/ Join \/ Drain \/ Frame \/ Sweep
         \/ Promote \/ Finish
         \/ /\ JoinFails /\ files' = Create(files, Path(level, Out), NoContent, "bad")
            /\ \E i \in 1..2 : At(unit.target[i]).form \in {"bad", "growing"}
BY DEF Next, Coordinator, FlushTorn, JoinFails, DrainFails, FrameFails, SweepFails, PromoteFails,
   Crash

LEMMA NextReadable ==
  ASSUME Faults = {}, TypeInv, TablesReadable, Framed, [Next]_vars
  PROVE  TablesReadable'
<1>1. CASE BinsFrom(files, files')
  BY <1>1 DEF BinsFrom, Bins, TablesReadable
<1>2. CASE BinsFrom(Written("table"), files')
  <2> SUFFICES ASSUME NEW p \in Bins(files')
               PROVE  files'[p].form \in {"table", "growing"}
    BY DEF TablesReadable
  <2>1. p \in DOMAIN files /\ p[3] = "bin" /\ files'[p] = Written("table")[p]
    BY <1>2 DEF BinsFrom, Bins, Written
  <2>2. Directory(files, clock) /\ "table" \in Forms
    BY DEF TypeInv, Types, Forms
  <2> QED
    BY <2>1, <2>2, WrittenKeeps, WrittenTurns DEF TablesReadable, Bins
<1>3. CASE FlushBegin
  <2>1. files' = Create(files, TablePath(flushed + 1), writing', "growing")
    BY <1>3 DEF FlushBegin, TablePath
  <2>2. \A p \in DOMAIN files' :
          files'[p].form = "growing" \/ (p \in DOMAIN files /\ files'[p] = files[p])
    BY <2>1, CreateMakes, CreateOnly
  <2> QED
    BY <2>2 DEF TablesReadable, Bins
<1>4. CASE Promote
  <2> DEFINE to == Path(level + 1, <<outputs[1][1], "bin">>)
  <2>1. 1 \in DOMAIN outputs /\ files' = Rename(files, Path(level, outputs[1]), to)
    BY <1>4, PromoteStep
  <2>2. files'[to].form = "table"
    BY <2>1, RenameMoves DEF Framed, At
  <2>3. \A p \in DOMAIN files' : p = to \/ (p \in DOMAIN files /\ files'[p] = files[p])
    BY <2>1, RenameOnly
  <2> QED
    BY <2>2, <2>3 DEF TablesReadable, Bins
<1>5. ~FlushTorn /\ ~Crash
  BY DEF FlushTorn, Crash
<1> QED
  BY <1>1, <1>2, <1>3, <1>4, <1>5, StepBins

LEMMA NextGrowingLatest ==
  ASSUME Faults = {}, TypeInv, WritingOK, GrowingLatest, [Next]_vars
  PROVE  GrowingLatest'
<1>1. CASE BinsFrom(files, files')
  BY <1>1 DEF BinsFrom, Bins, GrowingLatest
<1>2. CASE BinsFrom(Written("table"), files')
  <2>1. Directory(files, clock) /\ "table" \in Forms
    BY DEF TypeInv, Types, Forms
  <2>2. ASSUME NEW p \in Bins(files')
        PROVE  files'[p].form # "growing"
    <3>1. p \in DOMAIN files /\ files'[p] = Written("table")[p]
      BY <1>2 DEF BinsFrom, Bins, Written
    <3> QED
      BY <2>1, <3>1, WrittenKeeps, WrittenTurns
  <2> QED
    BY <2>2 DEF GrowingLatest
<1>3. CASE FlushBegin
  <2> DEFINE new == TablePath(flushed + 1)
  <2>1. /\ Bins(files') = Bins(files) \cup {new} /\ new \notin DOMAIN files
        /\ \A p \in DOMAIN files : files'[p] = files[p] /\ files[p].created < files'[new].created
    BY <1>3, FlushBeginBins
  <2>2. \A p \in DOMAIN files : files[p].form # "growing"
    BY <1>3 DEF FlushBegin, WritingOK
  <2>3. \A p \in Bins(files') : files'[p].created \in Int
    <3>1. TypeInv'
      BY <1>3, NextTypes DEF Next
    <3> QED
      BY <3>1 DEF TypeInv, Types, Directory, FileRecords, Bins
  <2> HIDE DEF new
  <2>4. ASSUME NEW p \in Bins(files'), NEW q \in Bins(files'), files'[p].form = "growing"
        PROVE  files'[q].created <= files'[p].created
    <3>1. p = new
      BY <2>1, <2>2, <2>4 DEF Bins
    <3>2. q = new \/ files'[q].created < files'[new].created
      BY <2>1 DEF Bins
    <3> QED
      BY <2>3, <2>4, <3>1, <3>2
  <2> QED
    BY <2>4 DEF GrowingLatest
<1>4. CASE Promote
  <2> DEFINE from == Path(level, outputs[1])
             to == Path(level + 1, <<outputs[1][1], "bin">>)
  <2>1. /\ 1 \in DOMAIN outputs /\ from \in DOMAIN files /\ files' = Rename(files, from, to)
    BY <1>4, PromoteStep
  <2>2. files'[to] = files[from]
    BY <2>1, RenameMoves
  <2>3. \A p \in DOMAIN files' : p = to \/ (p \in DOMAIN files /\ files'[p] = files[p])
    BY <2>1, RenameOnly
  <2>4. files[from].form # "growing"
    <3>1. outputs[1][2] = "tmp"
      BY <2>1, TmpType DEF TypeInv, OutputsOK
    <3>2. from[3] = "tmp"
      BY <3>1, PathExtension
    <3> QED
      BY <2>1, <3>2, GrowingApart
  <2>5. \A p \in DOMAIN files : files[p].form = "growing" => p[1] = 1
    BY DEF WritingOK, TablePath
  <2>6. to[1] # 1
    <3>1. to[1] = level + 1
      BY PathExtension
    <3> QED
      BY <3>1 DEF TypeInv, Types
  <2> HIDE DEF from, to
  <2>7. ASSUME NEW p \in Bins(files'), NEW q \in Bins(files'), files'[p].form = "growing",
               p[1] = q[1]
        PROVE  files'[q].created <= files'[p].created
    <3>1. p \in Bins(files) /\ files'[p] = files[p] /\ p[1] = 1
      BY <2>2, <2>3, <2>4, <2>5, <2>7 DEF Bins
    <3>2. q \in Bins(files) /\ files'[q] = files[q]
      BY <2>3, <2>6, <2>7, <3>1 DEF Bins
    <3> QED
      BY <2>7, <3>1, <3>2 DEF GrowingLatest
  <2> QED
    BY <2>7 DEF GrowingLatest
<1>5. ~FlushTorn /\ ~Crash
  BY DEF FlushTorn, Crash
<1> QED
  BY <1>1, <1>2, <1>3, <1>4, <1>5, StepBins

LEMMA TmpNotGrowing ==
  ASSUME TypeInv, WritingOK, NEW x, Has(x), x[2] = "tmp"
  PROVE  At(x).form # "growing"
<1>1. Path(level, x)[3] = "tmp"
  BY PathExtension
<1> QED
  BY <1>1, GrowingApart DEF Has, At

\* Once the first pair is drained no input is being written.
LEMMA NextGrowingLeads ==
  ASSUME Faults = {}, TypeInv, TypeInv', WritingOK, GrowingLatest, GrowingLeads, [Next]_vars
  PROVE  GrowingLeads'
<1>1. CASE pc' \in {"visit", "units"}
  <2>1. unit'.target = <<>>
    BY <1>1, NoUnitIs DEF TypeInv, Control
  <2>2. DOMAIN unit'.target = {}
    BY <2>1
  <2> QED
    BY <2>2 DEF GrowingLeads
<1>2. ASSUME UNCHANGED <<level, unit>>,
             \A i \in DOMAIN unit.target :
               At(unit.target[i])'.form = "growing" => At(unit.target[i]).form = "growing"
      PROVE  GrowingLeads'
  BY <1>2 DEF GrowingLeads
<1>3. \A i \in DOMAIN unit.target : Path(level, unit.target[i]) \in DOMAIN files
  BY DEF TypeInv, TargetOK, Has
<1>4. CASE FlushBegin
  BY <1>2, <1>3, <1>4, FlushBeginStays DEF FlushBegin, At
<1>5. CASE FlushEnd
  <2>1. Directory(files, clock) /\ "table" \in Forms
    BY DEF TypeInv, Types, Forms
  <2>2. \A p \in DOMAIN files : files'[p].form # "growing"
    BY <1>5, <2>1, WrittenKeeps, WrittenTurns DEF FlushEnd
  <2> QED
    BY <1>2, <1>3, <1>5, <2>2 DEF FlushEnd, At
<1>6. CASE TimerExpires \/ UNCHANGED vars
  BY <1>2, <1>6 DEF TimerExpires, vars, At
<1>7. CASE BeginUnit
  <2>1. /\ units # <<>> /\ UNCHANGED <<files, level>>
        /\ unit' = [NoUnit EXCEPT !.id = unit.id, !.target = units[1],
                                  !.input = Overlay(units[1])]
    BY <1>7 DEF BeginUnit
  <2>2. unit'.target = units[1] /\ unit'.consumed = <<>> /\ 1 \in DOMAIN units
    BY <2>1 DEF NoUnit, TypeInv, Types
  <2>3. ASSUME NEW i \in DOMAIN units[1], At(units[1][i]).form = "growing"
        PROVE  i = 1
    <3>1. i \in Nat /\ i >= 1 /\ 1 \in DOMAIN units[1] /\ \A j \in {1, i} : units[1][j] \in Items
      <4>1. units[1] \in Seq(Items)
        BY <2>2 DEF TypeInv, Types
      <4> QED
        BY <4>1
    <3>2. ASSUME NEW j \in {1, i}
          PROVE  Path(level, units[1][j]) \in Bins(files) /\ Path(level, units[1][j])[1] = level
      <4>1. units[1][j][2] = "bin" /\ Has(units[1][j])
        BY <2>2, <3>1 DEF TypeInv, WaitingOK
      <4> QED
        BY <4>1, PathExtension DEF Bins, Has
    <3>3. At(units[1][1]).created <= At(units[1][i]).created
      BY <2>3, <3>2 DEF GrowingLatest, At
    <3>4. 1 < i => At(units[1][1]).created > At(units[1][i]).created
      BY <2>2, <3>1 DEF TypeInv, WaitingOK
    <3>5. At(units[1][1]).created \in Int /\ At(units[1][i]).created \in Int
      BY <3>2, FileContent DEF Bins, At
    <3> QED
      BY <3>1, <3>3, <3>4, <3>5
  <2> QED
    BY <2>1, <2>2, <2>3 DEF GrowingLeads, At
<1>8. CASE Join
  <2>1. \E data : files' = Create(files, Path(level, Out), data, "raw")
    BY <1>8 DEF Join
  <2>2. \A i \in DOMAIN unit.target :
          files'[Path(level, unit.target[i])] = files[Path(level, unit.target[i])]
    BY <1>3, <2>1, OutApart, CreateKeeps
  <2> QED
    BY <1>2, <1>8, <2>2 DEF Join, At
<1>9. CASE Drain
  <2>1. level' = level
    BY <1>9, DrainStep
  <2>2. ASSUME NEW x, DrainItem(x)
        PROVE  At(x).form # "growing"
    <3>1. CASE \E i \in DOMAIN MergedNow : x = MergedNow[i]
      <4>1. PICK i \in DOMAIN MergedNow : x = MergedNow[i]
        BY <3>1
      <4>2. x[2] = "tmp"
        <5>1. i \in Nat \ {0} /\ x = Tmp(unit.id, unit.pass, i - 1)
          BY <1>9, <4>1, NowItems
        <5>2. i - 1 \in Nat /\ unit.id \in Nat /\ unit.pass \in Nat
          BY <5>1, ItemsTyped DEF TypeInv
        <5> QED
          BY <5>1, <5>2, TmpType
      <4>3. Has(x)
        <5>1. MergedNow[i] = Out \/ \E j \in DOMAIN unit.merged : MergedNow[i] = unit.merged[j]
          BY ItemsTyped, AppendItems DEF MergedNow, TypeInv
        <5> QED
          BY <1>9, <4>1, <5>1 DEF TypeInv, MergedOK, OutOK, Drain
      <4> QED
        BY <4>2, <4>3, TmpNotGrowing
    <3>2. CASE \E i \in DOMAIN Rest : x = Rest[i]
      <4>1. PICK i \in DOMAIN Rest : x = Rest[i]
        BY <3>2
      <4>2. /\ i + 2 \in DOMAIN unit.target /\ Rest[i] = unit.target[i + 2]
            /\ DOMAIN Rest = 1..(Len(unit.target) - 2)
        BY <1>9, ItemsTyped, RestItems DEF Rest, Drain, TypeInv, Control
      <4>3. i + 2 # 1
        BY <4>2
      <4> QED
        BY <4>1, <4>2, <4>3 DEF GrowingLeads
    <3> QED
      BY <2>2, <3>1, <3>2 DEF DrainItem
  <2>3. ASSUME NEW i \in DOMAIN unit'.target
        PROVE  files'[Path(level', unit'.target[i])].form # "growing"
    BY <1>9, <2>1, <2>2, DrainItems, DrainItemWas DEF At
  <2> QED
    BY <2>3 DEF GrowingLeads, At
<1>10. CASE Frame
  <2>1. \A i \in DOMAIN unit.target :
          files'[Path(level, unit.target[i])].form = "growing"
            => files[Path(level, unit.target[i])].form = "growing"
    <3>1. files' = [files EXCEPT ![Path(level, unit.target[1])].form = "table"]
      BY <1>10 DEF Frame
    <3>2. Path(level, unit.target[1]) \in DOMAIN files
      BY <1>10, LastApart DEF Frame, Has
    <3>3. files[Path(level, unit.target[1])] \in FileRecords(clock)
      BY <3>2 DEF TypeInv, Types, Directory
    <3>4. files'[Path(level, unit.target[1])].form = "table"
      BY <3>1, <3>2, <3>3 DEF FileRecords
    <3>5. \A p : p # Path(level, unit.target[1]) => files'[p] = files[p] \/ p \notin DOMAIN files
      BY <3>1
    <3> QED
      BY <1>3, <3>4, <3>5
  <2> QED
    BY <1>2, <1>10, <2>1 DEF Frame, At
<1>11. CASE \/ VisitSkip \/ VisitCompact \/ JoinFails \/ Sweep \/ Promote \/ Finish
  BY <1>1, <1>11, LeavesUnit
<1> QED
  BY <1>4, <1>5, <1>6, <1>7, <1>8, <1>9, <1>10, <1>11, CalmSteps

\* Tables stay tables through what is not the coordinator's doing.
LEMMA EnvironmentForms ==
  ASSUME TypeInv, FlushBegin \/ FlushEnd \/ TimerExpires \/ UNCHANGED vars,
         NEW p \in DOMAIN files, files[p].form = "table"
  PROVE  files'[p].form = "table"
<1>1. CASE FlushBegin
  BY <1>1, FlushBeginStays
<1>2. CASE FlushEnd
  BY <1>2, WrittenKeeps DEF FlushEnd
<1>3. CASE TimerExpires \/ UNCHANGED vars
  BY <1>3 DEF TimerExpires, vars
<1> QED
  BY <1>1, <1>2, <1>3

LEMMA NextFramed ==
  ASSUME Faults = {}, TypeInv, OneUnit, Framed, [Next]_vars
  PROVE  Framed'
<1>1. ASSUME outputs' = <<>>, pc' # "sweep"
      PROVE  Framed'
  <2>1. DOMAIN outputs' = {}
    BY <1>1
  <2> QED
    BY <1>1, <2>1 DEF Framed
<1>2. CASE FlushBegin \/ FlushEnd \/ TimerExpires \/ UNCHANGED vars
  <2>1. UNCHANGED <<pc, level, unit, outputs>>
    BY <1>2, EnvironmentStays
  <2>2. pc = "sweep" => Path(level, unit.target[1]) \in DOMAIN files
    BY LastApart DEF Has
  <2>3. \A i \in DOMAIN outputs : Path(level, outputs[i]) \in DOMAIN files
    BY DEF TypeInv, OutputsOK, Has
  <2> QED
    BY <1>2, <2>1, <2>2, <2>3, EnvironmentForms DEF Framed, At
<1>3. CASE VisitSkip \/ VisitCompact \/ Finish
  <2>1. outputs' = <<>> /\ pc' # "sweep"
    BY <1>3 DEF VisitSkip, VisitCompact, Finish, EndCompaction, TypeInv, Control
  <2> QED
    BY <1>1, <2>1
<1>4. CASE BeginUnit \/ Join \/ JoinFails
  <2>1. outputs' = <<>> /\ pc' # "sweep"
    BY <1>4 DEF BeginUnit, Join, JoinFails, AbandonUnit, OneUnit, AtUnit
  <2> QED
    BY <1>1, <2>1
<1>5. CASE Drain
  <2>1. outputs' = <<>> /\ pc' # "sweep"
    BY <1>5, DrainStep DEF OneUnit, AtUnit
  <2> QED
    BY <1>1, <2>1
<1>6. CASE Frame
  <2>1. /\ pc = "frame" /\ UNCHANGED <<level, unit, outputs>> /\ outputs = <<>>
        /\ files' = [files EXCEPT ![Path(level, unit.target[1])].form = "table"]
    BY <1>6 DEF Frame, OneUnit, AtUnit
  <2>2. Path(level, unit.target[1]) \in DOMAIN files
    BY <2>1, LastApart DEF Has
  <2>3. files[Path(level, unit.target[1])] \in FileRecords(clock)
    BY <2>2 DEF TypeInv, Types, Directory
  <2>4. files'[Path(level, unit.target[1])].form = "table"
    BY <2>1, <2>2, <2>3 DEF FileRecords
  <2>5. DOMAIN outputs' = {}
    BY <2>1
  <2> QED
    BY <2>1, <2>4, <2>5 DEF Framed, At
<1>7. CASE Sweep
  <2>1. PICK last : last = unit.target[1]
    OBVIOUS
  <2>2. /\ pc = "sweep" /\ pc' = "units" /\ level' = level
        /\ files' = Swept(Len(unit.consumed))
        /\ outputs' = Append(<<>>, last)
    BY <1>7, <2>1 DEF Sweep, AbandonUnit, OneUnit, AtUnit
  <2>3. /\ 1 \in DOMAIN unit.target /\ Path(level, last) \in DOMAIN files
        /\ files[Path(level, last)].form = "table"
    BY <2>1, <2>2, LastApart DEF Framed, At, Has
  <2>4. files'[Path(level, last)] = files[Path(level, last)]
    <3>1. Len(unit.consumed) \in 0..Len(unit.consumed)
      BY ItemsTyped DEF TypeInv
    <3>2. \A i \in DOMAIN unit.consumed : Path(level, last) # Path(level, unit.consumed[i])
      BY <2>1, <2>3, ConsumedApart
    <3> QED
      BY <2>2, <2>3, <3>1, <3>2, SweptKeeps
  <2>5. \A i \in DOMAIN outputs' : outputs'[i] = last
    BY <2>2
  <2> QED
    BY <2>2, <2>3, <2>4, <2>5 DEF Framed, At
<1>8. CASE Promote
  <2>1. pc' = "units" /\ outputs' = Tail(outputs) /\ outputs # <<>>
    BY <1>8, PromoteStep
  <2>2. outputs' = <<>>
    BY <2>1, TailOfOne DEF OneUnit, TypeInv, Types
  <2> QED
    BY <1>1, <2>1, <2>2
<1> QED
  BY <1>2, <1>3, <1>4, <1>5, <1>6, <1>7, <1>8, CalmSteps

\* Between units nothing stands for the tables that there are.
LEMMA NoChunks ==
  ASSUME TypeInv, pc \in {"visit", "units"}, outputs = <<>>
  PROVE  \A x : ~Chunk(x)
<1>1. unit.target = <<>> /\ unit.merged = <<>>
  BY NoUnitIs DEF TypeInv, Control
<1>2. DOMAIN unit.target = {} /\ DOMAIN unit.merged = {} /\ DOMAIN outputs = {}
  BY <1>1
<1> QED
  BY <1>2 DEF Chunk

LEMMA StandingIs ==
  ASSUME TypeInv, NEW p, Standing(p)
  PROVE  p[3] = "bin" \/ (p[3] = "tmp" /\ p[1] = level /\ \E x : Chunk(x))
<1>1. CASE p \in Bins(files)
  BY <1>1 DEF Bins
<1>2. CASE \E x \in Items : Chunk(x) /\ p = Path(level, x)
  <2>1. PICK x \in Items : Chunk(x) /\ p = Path(level, x)
    BY <1>2
  <2>2. x[2] = "bin" \/ x[2] = "tmp"
    <3>1. CASE \E i \in DOMAIN unit.target : x = unit.target[i]
      BY <3>1, OwnTmpIsTmp DEF TypeInv, TargetOK
    <3>2. CASE \E i \in DOMAIN unit.merged : x = unit.merged[i]
      BY <3>2 DEF TypeInv, MergedOK, Tmp
    <3>3. CASE \E i \in DOMAIN outputs : x = outputs[i]
      BY <3>3 DEF TypeInv, OutputsOK, Tmp
    <3> QED
      BY <2>1, <3>1, <3>2, <3>3 DEF Chunk, Out
  <2> QED
    BY <2>1, <2>2, PathExtension
<1> QED
  BY <1>1, <1>2 DEF Standing

LEMMA StaysOnward ==
  ASSUME TypeInv, NEW k, NEW age, NEW p, Stands(p, k, age), Stays(p), Standing(p)'
  PROVE  Onward(p, k, age)
<1>1. p \in DOMAIN files' /\ Stands(p, k, age)'
  BY DEF Stands, Stays
<1>2. p[3] = "bin" \/ p[3] = "tmp"
  BY StandingIs DEF Stands
<1> QED
  BY <1>1, <1>2 DEF Onward

LEMMA SameChunksStand ==
  ASSUME UNCHANGED <<level, unit, outputs>>, pc = "drain" => pc' = "drain",
         NEW p \in DOMAIN files, Standing(p), p \in DOMAIN files'
  PROVE  Standing(p)'
<1>1. \A x : Chunk(x) => Chunk(x)'
  BY DEF Chunk, Out, OutName
<1> QED
  BY <1>1 DEF Standing, Bins

LEMMA BinStands ==
  ASSUME NEW p \in DOMAIN files', p[3] = "bin"
  PROVE  Standing(p)'
BY DEF Standing, Bins

LEMMA EnvironmentOnward ==
  ASSUME TypeInv, FlushBegin \/ FlushEnd \/ TimerExpires \/ UNCHANGED vars,
         NEW k, NEW age, NEW p, Stands(p, k, age)
  PROVE  Onward(p, k, age)
<1>1. Stays(p) /\ UNCHANGED <<pc, level, unit, outputs>>
  BY EnvironmentStays
<1> QED
  BY <1>1, SameChunksStand, StaysOnward DEF Stands, Stays

\* Where the coordinator looks for work, or has found it, the tables stand.
LEMMA RestOnward ==
  ASSUME TypeInv, OneUnit, VisitSkip \/ VisitCompact \/ BeginUnit \/ Finish,
         NEW k, NEW age, NEW p, Stands(p, k, age)
  PROVE  Onward(p, k, age)
<1>1. files' = files /\ outputs = <<>> /\ pc \in {"visit", "units"}
  BY DEF VisitSkip, VisitCompact, BeginUnit, Finish, TypeInv, Control, OneUnit
<1>2. \A x : ~Chunk(x)
  BY <1>1, NoChunks
<1>3. Standing(p)'
  BY <1>1, <1>2, BinStands DEF Stands, Standing, Bins
<1> QED
  BY <1>1, <1>3, StaysOnward DEF Stays

LEMMA JoinOnward ==
  ASSUME TypeInv, NamesFresh, Join, NEW k, NEW age, NEW p, Stands(p, k, age)
  PROVE  Onward(p, k, age)
<1>1. /\ pc = "join" /\ UNCHANGED <<level, unit, outputs>>
      /\ \E data : files' = Create(files, Path(level, Out), data, "raw")
  BY DEF Join
<1>2. Path(level, Out) \notin DOMAIN files
  BY <1>1 DEF NamesFresh, Has
<1>3. p \in DOMAIN files /\ p \in DOMAIN files' /\ files'[p] = files[p]
  BY <1>1, <1>2, CreateKeeps DEF Stands
<1> QED
  BY <1>1, <1>3, SameChunksStand, StaysOnward DEF Stands, Stays

\* Until something is drained an entry that stands also stands in a table.
LEMMA StandsInTable ==
  ASSUME TypeInv, WorkOK, PairOK, unit.consumed = <<>>, outputs = <<>>,
         NEW k \in LongKeys, NEW age, NEW p, Stands(p, k, age)
  PROVE  \E q \in Bins(files) :
           q[1] = p[1] /\ Stands(q, k, age) /\ (pc # "drain" => q = p)
<1>1. DOMAIN unit.consumed = {} /\ DOMAIN outputs = {}
  OBVIOUS
<1>2. ASSUME NEW x \in Items, Has(x), At(x).data[k] # Absent,
             \/ \E i \in DOMAIN unit.target : x = unit.target[i]
             \/ \E i \in DOMAIN unit.merged : x = unit.merged[i]
      PROVE  Path(level, x) \in Bins(files) /\ \E i \in DOMAIN unit.target : x = unit.target[i]
  <2>1. ~Backed(x)
    BY <1>1, <1>2 DEF Backed
  <2>2. PICK i \in DOMAIN unit.target : x = unit.target[i]
    BY <1>2, <2>1 DEF WorkOK
  <2>3. x[2] = "bin"
    BY <2>1, <2>2, OwnTmpIsTmp DEF WorkOK, TypeInv, TargetOK
  <2> QED
    BY <1>2, <2>2, <2>3, PathExtension DEF Bins, Has
<1>3. CASE p \in Bins(files)
  BY <1>3
<1>4. CASE \E x \in Items : Chunk(x) /\ p = Path(level, x)
  <2>1. PICK x \in Items : Chunk(x) /\ p = Path(level, x)
    BY <1>4
  <2>2. Has(x) /\ At(x).data[k] # Absent
    BY <2>1 DEF Stands, Has, At
  <2>3. CASE \/ \E i \in DOMAIN unit.target : x = unit.target[i]
             \/ \E i \in DOMAIN unit.merged : x = unit.merged[i]
    <3>1. p \in Bins(files)
      BY <1>2, <2>1, <2>2, <2>3
    <3> QED
      BY <3>1
  <2>4. CASE pc = "drain" /\ x = Out
    <3>1. PICK n \in 1..2 : At(unit.target[n]).data[k] = At(Out).data[k]
      BY <2>2, <2>4 DEF PairOK
    <3>2. n \in DOMAIN unit.target /\ unit.target[n] \in Items /\ Has(unit.target[n])
      BY <2>4, ItemsTyped, RestItems DEF TypeInv, Control, TargetOK
    <3>3. At(unit.target[n]).form \in Intact
      BY <2>4 DEF PairOK
    <3> DEFINE q == Path(level, unit.target[n])
    <3>4. q \in Bins(files)
      BY <1>2, <2>2, <2>4, <3>1, <3>2
    <3>5. files[q].form \in Intact /\ files[q].data[k] = files[p].data[k] /\ q[1] = p[1]
      BY <2>1, <2>4, <3>1, <3>3, PathExtension DEF At
    <3> HIDE DEF q
    <3>6. Stands(q, k, age)
      BY <3>4, <3>5 DEF Stands, Standing, Bins
    <3> QED
      BY <2>4, <3>4, <3>5, <3>6
  <2> QED
    BY <1>1, <2>1, <2>3, <2>4 DEF Chunk
<1> QED
  BY <1>3, <1>4 DEF Stands, Standing

\* A unit whose first table is still being written has nothing but tables yet.
LEMMA JoinFailsOnward ==
  ASSUME TypeInv, NamesFresh, OneUnit, WorkOK, PairOK, TablesReadable, GrowingLeads,
         JoinFails, files' = Create(files, Path(level, Out), NoContent, "bad"),
         \E i \in 1..2 : At(unit.target[i]).form \in {"bad", "growing"},
         NEW k \in LongKeys, NEW age, NEW p, Stands(p, k, age)
  PROVE  Onward(p, k, age)
<1>1. pc = "join" /\ Len(unit.target) >= 2 /\ outputs = <<>>
  BY DEF JoinFails, TypeInv, Control, OneUnit, AtUnit
<1>2. Path(level, Out) \notin DOMAIN files
  BY <1>1 DEF NamesFresh, Has
<1>3. p \in DOMAIN files /\ p \in DOMAIN files' /\ files'[p] = files[p]
  BY <1>2, CreateKeeps DEF Stands
<1>4. unit.consumed = <<>>
  <2>1. PICK i \in 1..2 : At(unit.target[i]).form \in {"bad", "growing"}
    OBVIOUS
  <2>2. i \in DOMAIN unit.target
    BY <1>1, ItemsTyped, RestItems DEF TypeInv
  <2>3. unit.target[i][2] = "bin"
    BY <2>1, <2>2, OwnTmpIsTmp DEF TypeInv, TargetOK, WorkOK, Backed, Intact
  <2>4. Path(level, unit.target[i]) \in Bins(files)
    BY <2>2, <2>3, PathExtension DEF TypeInv, TargetOK, Has, Bins
  <2>5. At(unit.target[i]).form = "growing"
    BY <2>1, <2>4 DEF TablesReadable, At
  <2> QED
    BY <2>2, <2>5 DEF GrowingLeads
<1>5. p[3] = "bin"
  BY <1>1, <1>4, StandsInTable DEF Bins
<1> QED
  BY <1>3, <1>5, BinStands, StaysOnward DEF Stays

\* What is left of a unit after a drain is whole.
LEMMA DrainItemIntact ==
  ASSUME TypeInv, WorkOK, PairOK, TablesReadable, GrowingLeads, Drain, NEW x, DrainItem(x)
  PROVE  x \in Items /\ Has(x) /\ At(x).form \in Intact
<1>1. pc = "drain" /\ Len(unit.target) >= 2 /\ unit.target \in Seq(Items)
  BY ItemsTyped DEF Drain, TypeInv, Control
<1>2. CASE \E i \in DOMAIN MergedNow : x = MergedNow[i]
  <2>1. x = Out \/ \E j \in DOMAIN unit.merged : x = unit.merged[j]
    BY <1>2, ItemsTyped, AppendItems DEF MergedNow, TypeInv
  <2> QED
    BY <1>1, <2>1, ItemsTyped DEF TypeInv, MergedOK, OutOK, WorkOK, Backed, PairOK
<1>3. CASE \E i \in DOMAIN Rest : x = Rest[i]
  <2>1. PICK i \in DOMAIN Rest : x = Rest[i]
    BY <1>3
  <2>2. /\ i + 2 \in DOMAIN unit.target /\ x = unit.target[i + 2]
        /\ DOMAIN Rest = 1..(Len(unit.target) - 2)
    BY <1>1, <2>1, RestItems DEF Rest
  <2>3. i + 2 # 1
    BY <2>2
  <2>4. x \in Items /\ Has(x) /\ At(x).form # "growing" /\ (x[2] = "bin" \/ x[2] = "tmp")
    BY <2>2, <2>3, ItemsTyped, OwnTmpIsTmp DEF TypeInv, TargetOK, GrowingLeads
  <2>5. CASE x[2] = "bin"
    <3>1. Path(level, x) \in Bins(files)
      BY <2>4, <2>5, PathExtension DEF Bins, Has
    <3> QED
      BY <2>4, <3>1 DEF TablesReadable, Intact, At
  <2>6. CASE x[2] = "tmp"
    BY <2>2, <2>4, <2>6 DEF WorkOK, Backed
  <2> QED
    BY <2>4, <2>5, <2>6
<1> QED
  BY <1>2, <1>3 DEF DrainItem

\* And it is what the unit works on.
LEMMA DrainItemChunk ==
  ASSUME TypeInv, Drain, NEW x, DrainItem(x)
  PROVE  Chunk(x)'
<1>1. /\ MergedNow \in Seq(Items) /\ Rest \in Seq(Items)
      /\ \/ unit'.target = Rest /\ unit'.merged = MergedNow
         \/ unit'.target = MergedNow \o Rest
  BY DrainStep
<1>2. CASE unit'.target = Rest /\ unit'.merged = MergedNow
  BY <1>2 DEF DrainItem, Chunk
<1>3. CASE unit'.target = MergedNow \o Rest
  <2>1. CASE \E i \in DOMAIN MergedNow : x = MergedNow[i]
    <3>1. PICK i \in DOMAIN MergedNow : x = MergedNow[i]
      BY <2>1
    <3>2. i \in DOMAIN (MergedNow \o Rest) /\ (MergedNow \o Rest)[i] = x
      BY <1>1, <3>1, ConcatItems
    <3> QED
      BY <1>3, <3>2 DEF Chunk
  <2>2. CASE \E i \in DOMAIN Rest : x = Rest[i]
    <3>1. PICK i \in DOMAIN Rest : x = Rest[i]
      BY <2>2
    <3> DEFINE n == Len(MergedNow) + i
    <3>2. n \in DOMAIN (MergedNow \o Rest) /\ (MergedNow \o Rest)[n] = x
      BY <1>1, <3>1, ConcatItems
    <3> HIDE DEF n
    <3> QED
      BY <1>3, <3>2 DEF Chunk
  <2> QED
    BY <2>1, <2>2 DEF DrainItem
<1> QED
  BY <1>1, <1>2, <1>3

\* An entry of a pair, or a newer one, is also in an output that is left of the
\* unit: the input has one that is as new, and so has the queue, whose first file
\* with the key is no later than the pair's output.
LEMMA PairStillStands ==
  ASSUME TypeInv, Ordered, WorkOK, PairJoined, Drain,
         NEW k \in LongKeys, NEW age \in Nat, NEW n \in 1..2,
         At(unit.target[n]).data[k] # Absent, At(unit.target[n]).data[k].by >= age
  PROVE  \E x \in Items : /\ DrainItem(x) /\ x[2] = "tmp"
                         /\ At(x).data[k] # Absent /\ At(x).data[k].by >= age
<1>1. pc = "drain" /\ k \in Keys /\ n \in DOMAIN unit.target
  BY DrainStep DEF LongKeys
<1>2. /\ unit.input[k] # Absent /\ At(unit.target[n]).data[k].by <= unit.input[k].by
      /\ At(Out).data[k] # Absent
  BY <1>1 DEF WorkOK, Dominated, PairJoined
<1>3. unit.input[k].by >= age
  <2>1. unit.input[k] \in Entry
    BY <1>1, <1>2 DEF TypeInv, Types, Units, Content
  <2>2. At(unit.target[n]).data[k] \in Entry
    BY <1>1, FileContent DEF TypeInv, TargetOK, Has, At, Content
  <2> QED
    BY <1>2, <2>1, <2>2, BoundsAssumption DEF Entry
<1>4. /\ MergedNow \in Seq(Items) /\ Rest \in Seq(Items) /\ Queue = MergedNow \o Rest
      /\ Queue \in Seq(Items)
  BY <1>1, DrainStep, ConcatItems DEF Queue
<1>5. OverlayOf(files, level, Queue)[k] = unit.input[k]
  BY <1>1 DEF Ordered, AtUnit
<1>6. PICK i \in DOMAIN Queue :
        /\ unit.input[k] = At(Queue[i]).data[k]
        /\ \A j \in DOMAIN Queue : j < i => At(Queue[j]).data[k] = Absent
  <2> DEFINE items == Queue
             whole == OverlayOf(files, level, items)[k]
  <2>1. items \in Seq(Items) /\ whole = unit.input[k]
    BY <1>4, <1>5
  <2> HIDE DEF items
  <2>2. \/ whole = Absent
        \/ \E i \in DOMAIN items :
             /\ \A j \in DOMAIN items : j < i => files[Path(level, items[j])].data[k] = Absent
             /\ whole = files[Path(level, items[i])].data[k]
    BY <1>1, <2>1, OverlayCases
  <2> QED
    BY <1>2, <2>1, <2>2 DEF items, At
<1>7. PICK last : last = Len(MergedNow)
  OBVIOUS
<1>8. last \in DOMAIN MergedNow /\ MergedNow[last] = Out /\ last = Len(MergedNow)
  BY <1>7, ItemsTyped DEF MergedNow, TypeInv
<1>9. last \in DOMAIN Queue /\ Queue[last] = Out
  BY <1>4, <1>8, ConcatItems
<1>10. ~(last < i)
  BY <1>2, <1>6, <1>9
<1>11. i \in DOMAIN MergedNow /\ Queue[i] = MergedNow[i]
  BY <1>4, <1>8, <1>10, ConcatItems
<1>12. MergedNow[i][2] = "tmp"
  <2>1. unit.merged \in Seq(Items) /\ Out \in Items /\ Out[2] = "tmp"
    BY ItemsTyped DEF TypeInv
  <2>2. \A j \in DOMAIN unit.merged : unit.merged[j][2] = "tmp"
    BY DEF TypeInv, MergedOK, Tmp
  <2> QED
    BY <1>11, <2>1, <2>2, AppendItems DEF MergedNow
<1>13. MergedNow[i] \in Items /\ DrainItem(MergedNow[i])
  BY <1>4, <1>11 DEF DrainItem
<1> QED
  BY <1>2, <1>3, <1>6, <1>11, <1>12, <1>13

LEMMA DrainOnward ==
  ASSUME TypeInv, Ordered, NamesFresh, WorkOK, PairOK, PairJoined, TablesReadable,
         GrowingLeads, Drain, NEW k \in LongKeys, NEW age \in Nat, NEW p, Stands(p, k, age)
  PROVE  Onward(p, k, age)
<1>1. /\ pc = "drain" /\ 1 \in DOMAIN unit.target /\ 2 \in DOMAIN unit.target
      /\ files' = PairDrained /\ UNCHANGED <<level, outputs>>
      /\ MergedNow \in Seq(Items)
  BY DrainStep
<1>2. p \in DOMAIN files
  BY DEF Stands
<1>3. CASE \E n \in 1..2 : p = Path(level, unit.target[n])
  <2>1. PICK n \in 1..2 : p = Path(level, unit.target[n])
    BY <1>3
  <2>2. PICK x \in Items : /\ DrainItem(x) /\ x[2] = "tmp"
                         /\ At(x).data[k] # Absent /\ At(x).data[k].by >= age
    BY <2>1, PairStillStands DEF Stands, At
  <2>3. PICK q : q = Path(level, x)
    OBVIOUS
  <2>4. q \in DOMAIN files' /\ files'[q] = files[q]
    BY <2>2, <2>3, DrainKeeps DEF DrainItem
  <2>5. files[q].form \in Intact /\ Chunk(x)'
    BY <2>2, <2>3, DrainItemIntact, DrainItemChunk DEF At
  <2>6. Standing(q)'
    BY <1>1, <2>3, <2>5 DEF Standing
  <2>7. Stands(q, k, age)'
    BY <2>2, <2>3, <2>4, <2>5, <2>6 DEF Stands, At
  <2>8. p[3] = "bin" => p \notin DOMAIN files'
    BY <2>1, DrainFrees, PathExtension
  <2>9. q[1] = p[1] /\ q[3] = "tmp"
    BY <2>1, <2>2, <2>3, PathExtension
  <2> QED
    BY <2>4, <2>7, <2>8, <2>9 DEF Onward
<1>4. CASE \A n \in 1..2 : p # Path(level, unit.target[n])
  <2>1. p \in DOMAIN files' /\ files'[p] = files[p]
    BY <1>1, <1>2, <1>4, PairAlone
  <2>2. Standing(p)'
    <3>1. CASE p \in Bins(files)
      BY <2>1, <3>1, BinStands DEF Bins
    <3>2. CASE \E x \in Items : Chunk(x) /\ p = Path(level, x)
      <4>1. PICK x \in Items : Chunk(x) /\ p = Path(level, x)
        BY <3>2
      <4>2. ASSUME NEW i \in DOMAIN unit.target, x = unit.target[i]
            PROVE  Chunk(x)'
        <5>1. i \notin 1..2
          BY <1>4, <4>1, <4>2
        <5> QED
          BY <4>2, <5>1, RestRemains DEF Chunk
      <4>3. ASSUME NEW i \in DOMAIN unit.merged, x = unit.merged[i]
            PROVE  Chunk(x)'
        <5>1. unit.merged \in Seq(Items) /\ Out \in Items
          BY ItemsTyped DEF TypeInv
        <5>2. i \in DOMAIN MergedNow /\ MergedNow[i] = x
          BY <4>3, <5>1, AppendItems DEF MergedNow
        <5> QED
          BY <5>2, DrainItemChunk DEF DrainItem
      <4>4. ASSUME x = Out
            PROVE  Chunk(x)'
        <5>1. ASSUME NEW s \in Seq(Items), NEW y \in Items
              PROVE  \E n \in DOMAIN Append(s, y) : Append(s, y)[n] = y
          <6>1. Len(s) + 1 \in DOMAIN Append(s, y) /\ Append(s, y)[Len(s) + 1] = y
            OBVIOUS
          <6> QED
            BY <6>1
        <5>2. unit.merged \in Seq(Items) /\ Out \in Items
          BY ItemsTyped DEF TypeInv
        <5>3. \E n \in DOMAIN MergedNow : MergedNow[n] = x
          BY <4>4, <5>1, <5>2 DEF MergedNow
        <5> QED
          BY <5>3, DrainItemChunk DEF DrainItem
      <4>6. ASSUME NEW i \in DOMAIN outputs, x = outputs[i]
            PROVE  Chunk(x)'
        BY <1>1, <4>6 DEF Chunk
      <4>5. Chunk(x)'
        BY <4>1, <4>2, <4>3, <4>4, <4>6 DEF Chunk
      <4> QED
        BY <1>1, <4>1, <4>5 DEF Standing
    <3> QED
      BY <3>1, <3>2 DEF Stands, Standing
  <2> QED
    BY <2>1, <2>2, StaysOnward DEF Stays
<1> QED
  BY <1>3, <1>4

LEMMA FrameOnward ==
  ASSUME TypeInv, Frame, NEW k, NEW age, NEW p, Stands(p, k, age)
  PROVE  Onward(p, k, age)
<1>1. pc = "frame" /\ UNCHANGED <<level, unit, outputs>> /\ Stays(p)
  BY FrameStays DEF Frame
<1> QED
  BY <1>1, StaysOnward, SameChunksStand DEF Stands, Stays

LEMMA SweepOnward ==
  ASSUME TypeInv, OneUnit, Sweep, NEW k, NEW age, NEW p, Stands(p, k, age)
  PROVE  Onward(p, k, age)
<1>1. PICK last : last = unit.target[1]
  OBVIOUS
<1>2. /\ pc = "sweep" /\ level' = level
      /\ files' = Swept(Len(unit.consumed))
      /\ outputs = <<>> /\ outputs' = Append(<<>>, last) /\ unit.merged = <<>>
  BY <1>1 DEF Sweep, AbandonUnit, OneUnit, AtUnit, TypeInv, Control
<1>3. 1 \in DOMAIN unit.target /\ DOMAIN unit.target = {1} /\ last \in Items
  BY <1>1, <1>2, LastApart
<1>4. DOMAIN outputs = {} /\ DOMAIN unit.merged = {}
  BY <1>2
<1>5. 1 \in DOMAIN outputs' /\ outputs'[1] = last
  BY <1>2
<1>6. Len(unit.consumed) \in 0..Len(unit.consumed)
  BY ItemsTyped DEF TypeInv
<1>7. p \in DOMAIN files /\ Standing(p)
  BY DEF Stands
<1>8. p \in DOMAIN files' /\ files'[p] = files[p] /\ Standing(p)'
  <2>1. CASE p \in Bins(files)
    <3>1. \A i \in DOMAIN unit.consumed : p # Path(level, unit.consumed[i])
      BY <2>1, PathExtension, OwnTmpIsTmp DEF Bins, TypeInv, ConsumedOK
    <3>2. p \in DOMAIN files' /\ files'[p] = files[p]
      BY <1>2, <1>6, <1>7, <3>1, SweptKeeps
    <3> QED
      BY <2>1, <3>2, BinStands DEF Bins
  <2>2. CASE p \notin Bins(files)
    <3>1. p = Path(level, last)
      BY <1>1, <1>2, <1>3, <1>4, <1>7, <2>2 DEF Standing, Chunk
    <3>2. \A i \in DOMAIN unit.consumed : p # Path(level, unit.consumed[i])
      BY <1>1, <1>3, <3>1, ConsumedApart
    <3>3. p \in DOMAIN files' /\ files'[p] = files[p]
      BY <1>2, <1>6, <1>7, <3>2, SweptKeeps
    <3>4. Chunk(last)'
      BY <1>5 DEF Chunk
    <3>5. Standing(p)'
      BY <1>2, <1>3, <3>1, <3>4 DEF Standing
    <3> QED
      BY <3>3, <3>5
  <2> QED
    BY <2>1, <2>2
<1> QED
  BY <1>8, StaysOnward DEF Stays

\* The output is a table from now on.
LEMMA PromoteOnward ==
  ASSUME TypeInv, NamesFresh, OneUnit, Promote, NEW k, NEW age, NEW p, Stands(p, k, age)
  PROVE  Onward(p, k, age)
<1>1. PICK from, to : from = Path(level, outputs[1]) /\ to = Path(level + 1, <<outputs[1][1], "bin">>)
  OBVIOUS
<1>2. /\ pc = "units" /\ units = <<>> /\ outputs # <<>> /\ 1 \in DOMAIN outputs
      /\ from \in DOMAIN files /\ files' = Rename(files, from, to) /\ p \in DOMAIN files
  BY <1>1, PromoteStep DEF Stands
<1>3. to \notin DOMAIN files /\ to[3] = "bin" /\ to[1] = level + 1 /\ from[1] = level
  BY <1>1, <1>2, PathExtension DEF NamesFresh
<1>4. /\ to \in DOMAIN files' /\ files'[to] = files[from] /\ Standing(to)'
      /\ p # from => p \in DOMAIN files' /\ files'[p] = files[p]
  BY <1>2, <1>3, RenameMoves, RenameKeeps, BinStands
<1>5. \A x : Chunk(x) => x = outputs[1]
  <2>1. DOMAIN unit.target = {} /\ DOMAIN unit.merged = {}
    BY <1>2 DEF TypeInv, Control
  <2>2. \A i \in DOMAIN outputs : i = 1
    BY <1>2 DEF OneUnit, TypeInv, Types
  <2> QED
    BY <1>2, <2>1, <2>2 DEF Chunk
<1>6. CASE p = from
  <2>1. Stands(to, k, age)'
    BY <1>4, <1>6 DEF Stands
  <2>2. to[1] > p[1]
    BY <1>3, <1>6, LevelsAssumption DEF TypeInv, Types
  <2> QED
    BY <1>4, <2>1, <2>2 DEF Onward
<1>7. CASE p # from
  <2>1. p[3] = "bin"
    BY <1>1, <1>5, <1>7 DEF Stands, Standing, Bins
  <2> QED
    BY <1>4, <1>7, <2>1, BinStands, StaysOnward DEF Stays
<1> QED
  BY <1>6, <1>7

LEMMA NextOnward ==
  ASSUME Faults = {}, TypeInv, Ordered, ErasureInv, LayerInv, ViewInv, NamesFresh, [Next]_vars,
         NEW k \in LongKeys, NEW age \in Nat, NEW p, Stands(p, k, age)
  PROVE  Onward(p, k, age)
BY CalmSteps, EnvironmentOnward, RestOnward, JoinOnward, JoinFailsOnward, DrainOnward,
   FrameOnward, SweepOnward, PromoteOnward DEF ErasureInv, LayerInv, ViewInv

\* A flush that ends brings its table.
LEMMA FlushEndStands ==
  ASSUME TypeInv, WritingOK, FlushEnd, NEW k \in LongKeys, writing[k] # Absent
  PROVE  \E p \in DOMAIN files' : Stands(p, k, store[k].by)'
<1>1. /\ files' = Written("table") /\ store' = Over(writing, store) /\ writing # NoContent
  BY DEF FlushEnd
<1>2. PICK path : path = TablePath(flushed)
  OBVIOUS
<1>3. /\ path \in DOMAIN files /\ files[path].form = "growing" /\ files[path].data = writing
      /\ path[3] = "bin"
  BY <1>1, <1>2 DEF WritingOK, TablePath
<1>4. path \in DOMAIN files' /\ files'[path].data = writing /\ files'[path].form = "table"
  BY <1>1, <1>3, WrittenKeeps, WrittenTurns DEF TypeInv, Types, Forms
<1>5. store'[k] = writing[k]
  BY <1>1 DEF Over, LongKeys
<1>6. store'[k].by >= store'[k].by
  <2>1. writing[k] \in Entry
    BY DEF TypeInv, Types, Content, LongKeys
  <2> QED
    BY <1>5, <2>1 DEF Entry
<1>7. Stands(path, k, store[k].by)'
  BY <1>3, <1>4, <1>5, <1>6, BinStands DEF Stands, Intact
<1> QED
  BY <1>4, <1>7

LEMMA NextStands ==
  ASSUME Faults = {}, TypeInv, Ordered, ErasureInv, LayerInv, ViewInv, NamesFresh, [Next]_vars
  PROVE  StoreStands'
<1> SUFFICES ASSUME NEW k \in LongKeys, store'[k] # Absent
             PROVE  \E q \in DOMAIN files' : Stands(q, k, store[k].by)'
  BY DEF StoreStands
<1>1. CASE FlushEnd /\ writing[k] # Absent
  BY <1>1, FlushEndStands DEF ErasureInv
<1>2. CASE ~(FlushEnd /\ writing[k] # Absent)
  <2>1. store'[k] = store[k]
    <3>1. CASE FlushEnd
      BY <1>2, <3>1 DEF FlushEnd, Over, LongKeys
    <3>2. CASE ~FlushEnd
      BY <3>2, CalmSteps DEF FlushBegin, TimerExpires, vars, VisitSkip, VisitCompact, BeginUnit,
         Join, Drain, Frame, Sweep, Promote, Finish, JoinFails
    <3> QED
      BY <3>1, <3>2
  <2>2. PICK age : age = store[k].by
    OBVIOUS
  <2>3. PICK p \in DOMAIN files : Stands(p, k, age)
    BY <2>1, <2>2 DEF ViewInv, StoreStands
  <2>4. age \in Nat
    <3>1. store[k] \in Entry
      BY <2>1 DEF TypeInv, Types, Content, LongKeys
    <3> QED
      BY <2>2, <3>1 DEF Entry
  <2>5. Onward(p, k, age)
    BY <2>3, <2>4, NextOnward
  <2>6. PICK q \in DOMAIN files' : Stands(q, k, age)'
    BY <2>5 DEF Onward
  <2>7. Stands(q, k, store[k].by)'
    BY <2>1, <2>2, <2>6 DEF Stands
  <2> QED
    BY <2>7
<1> QED
  BY <1>1, <1>2

LEMMA NextPairJoined ==
  ASSUME Faults = {}, TypeInv, NamesFresh, PairJoined, [Next]_vars
  PROVE  PairJoined'
<1> SUFFICES ASSUME pc' = "drain"
             PROVE  PairJoined'
  BY DEF PairJoined
<1>1. CASE FlushBegin \/ FlushEnd \/ TimerExpires \/ UNCHANGED vars
  <2>1. /\ pc = "drain" /\ UNCHANGED <<level, unit>> /\ Out' = Out
        /\ \A p : Stays(p)
    BY <1>1, EnvironmentStays DEF Out, OutName
  <2>2. /\ 1 \in DOMAIN unit.target /\ 2 \in DOMAIN unit.target
        /\ Has(unit.target[1]) /\ Has(unit.target[2]) /\ Has(Out)
    BY <2>1, ItemsTyped, RestItems DEF TypeInv, Control, TargetOK, OutOK
  <2>3. \A x : Has(x) => files'[Path(level, x)].data = files[Path(level, x)].data
    BY <2>1 DEF Has, Stays
  <2>4. \A n \in 1..2 : Has(unit.target[n])
    BY <2>2
  <2> QED
    BY <2>1, <2>2, <2>3, <2>4 DEF PairJoined, At
<1>2. CASE Join
  <2> DEFINE d == At(unit.target[1]).data
             e == At(unit.target[2]).data
             out == Path(level, Out)
  <2>1. /\ pc = "join" /\ UNCHANGED <<level, unit>>
        /\ 1 \in DOMAIN unit.target /\ 2 \in DOMAIN unit.target
        /\ files' = Create(files, out, Joined(d, e), "raw")
    BY <1>2, JoinStep DEF WholeReads
  <2>2. out \notin DOMAIN files /\ Out' = Out
    BY <2>1 DEF NamesFresh, Has, Out, OutName
  <2>3. \A n \in 1..2 : files'[Path(level, unit.target[n])] = At(unit.target[n])
    BY <2>1, <2>2, CreateKeeps DEF TypeInv, TargetOK, Has, At
  <2>4. files'[out].data = Joined(d, e) /\ Path(level, Out)' = out
    BY <2>1, <2>2, CreateMakes
  <2>5. ASSUME NEW n \in 1..2, NEW k \in LongKeys, At(unit.target[n]).data[k] # Absent
        PROVE  Joined(d, e)[k] # Absent
    BY <2>5, JoinedLong
  <2> HIDE DEF d, e, out
  <2> QED
    BY <2>1, <2>3, <2>4, <2>5 DEF PairJoined, At
<1>3. CASE ~Join /\ ~(FlushBegin \/ FlushEnd \/ TimerExpires \/ UNCHANGED vars)
  BY <1>3, CalmSteps DEF VisitSkip, VisitCompact, BeginUnit, Drain, Frame, Sweep,
     Promote, Finish, JoinFails, AbandonUnit, EndCompaction
<1> QED
  BY <1>1, <1>2, <1>3

LEMMA InitView == Init => ViewInv
<1> SUFFICES ASSUME Init
             PROVE  ViewInv
  OBVIOUS
<1>1. /\ files = <<>> /\ outputs = <<>> /\ unit = NoUnit /\ pc = "visit" /\ store = NoContent
  BY DEF Init
<1>2. DOMAIN files = {} /\ DOMAIN outputs = {} /\ DOMAIN unit.target = {}
  BY <1>1, NoUnitIs
<1>3. StoreStands
  BY <1>1 DEF StoreStands, NoContent, LongKeys
<1> QED
  BY <1>1, <1>2, <1>3
     DEF ViewInv, TablesReadable, GrowingLatest, GrowingLeads, Framed, PairJoined, Bins

LEMMA NextView ==
  ASSUME Faults = {}, TypeInv, TypeInv', Ordered, ErasureInv, LayerInv, ViewInv, NamesFresh,
         [Next]_vars
  PROVE  ViewInv'
<1>1. TablesReadable' /\ Framed'
  BY NextReadable, NextFramed DEF ViewInv, LayerInv
<1>2. GrowingLatest' /\ GrowingLeads'
  BY NextGrowingLatest, NextGrowingLeads DEF ViewInv, ErasureInv
<1> QED
  BY <1>1, <1>2, NextStands, NextPairJoined DEF ViewInv

LEMMA AlwaysView ==
  Faults = {} => (Spec /\ [](NamesFresh /\ Fits) => []ViewInv)
<1> SUFFICES ASSUME Faults = {}
             PROVE  Spec /\ [](NamesFresh /\ Fits) => []ViewInv
  OBVIOUS
<1>1. WholeReads
  BY DEF WholeReads
<1>2. Spec /\ [](NamesFresh /\ Fits) => []ErasureInv
  BY <1>1, FittingErasure
<1>3. Spec => []Ordered
  BY <1>1, AlwaysOrdered
<1>4. /\ TypeInv /\ TypeInv' /\ Ordered /\ ErasureInv /\ LayerInv /\ ViewInv /\ NamesFresh
      /\ [Next]_vars
      => ViewInv'
  BY NextView
<1> QED
  BY <1>2, <1>3, <1>4, InitView, AlwaysLayers, AlwaysTyped, PTL DEF Spec

\* The first level that has the key, and there the newest table, has its newest entry.
LEMMA SeenIsNewest ==
  ASSUME TypeInv, StoreTop, Layered, StoreStands, TablesReadable, pc = "visit",
         NEW k \in LongKeys
  PROVE  Seen(k) = store[k]
<1> DEFINE hitting == {l \in 1..(Levels + 1) : Hits(l, k) # {}}
           first == CHOOSE l \in hitting : \A m \in hitting : l <= m
           newest == CHOOSE p \in Hits(first, k) :
                       \A q \in Hits(first, k) : files[q].created <= files[p].created
<1>1. Seen(k) = IF hitting = {} THEN Absent ELSE files[newest].data[k]
  BY DEF Seen
<1>2. k \in Keys /\ outputs = <<>>
  BY DEF LongKeys, TypeInv, Control
<1>3. ASSUME NEW l, NEW p \in Hits(l, k)
      PROVE  /\ p \in Bins(files) /\ p[1] = l /\ l \in 1..(Levels + 1)
             /\ files[p].created \in Int /\ files[p].created < clock
             /\ store[k] # Absent /\ files[p].data[k] \in Entry
             /\ files[p].data[k].by <= store[k].by
  <2>1. p \in Bins(files) /\ p[1] = l /\ files[p].form = "table" /\ files[p].data[k] # Absent
    BY <1>3 DEF Hits, Tables, Bins
  <2>2. /\ files[p].data \in Content /\ files[p].created \in Int /\ files[p].created < clock
        /\ p[1] \in 1..(Levels + 1)
    BY <2>1 DEF Bins, TypeInv, Types, Directory, FileRecords, Paths
  <2>3. files[p].data[k] \in Entry
    BY <1>2, <2>1, <2>2 DEF Content
  <2>4. Holds(files, k, files[p].data[k])
    BY <2>1 DEF Holds, Bins, Intact
  <2> QED
    BY <2>1, <2>2, <2>3, <2>4 DEF StoreTop
<1>4. CASE store[k] = Absent
  <2>1. hitting = {}
    BY <1>3, <1>4
  <2> QED
    BY <1>1, <1>4, <2>1
<1>5. CASE store[k] # Absent
  <2>1. PICK p \in DOMAIN files : /\ Standing(p) /\ files[p].form \in Intact
                                 /\ files[p].data[k] = store[k]
    <3>1. PICK p \in DOMAIN files : Stands(p, k, store[k].by)
      BY <1>5 DEF StoreStands
    <3>2. files[p].data[k] \in Entry /\ store[k] \in Entry
      BY <1>2, <1>5, <3>1, FileContent DEF Stands, Content, TypeInv, Types
    <3>3. Holds(files, k, files[p].data[k])
      BY <3>1 DEF Holds, Stands
    <3>4. files[p].data[k] = store[k]
      BY <3>1, <3>2, <3>3 DEF StoreTop, Stands, Entry
    <3> QED
      BY <3>1, <3>4 DEF Stands
  <2>2. p \in Bins(files)
    BY <1>2, <2>1, NoChunks DEF Standing
  <2>3. p[1] \in 1..(Levels + 1) /\ files[p].created \in Int
    BY <2>1, FileContent
  <2>4. p \in Hits(p[1], k)
    BY <1>5, <2>1, <2>2 DEF Hits, Tables, Bins, TablesReadable, Intact
  <2>5. hitting # {} /\ p[1] \in hitting /\ hitting \in SUBSET Nat
    BY <2>3, <2>4, LevelsAssumption
  <2>6. first \in hitting /\ \A m \in hitting : first <= m
    <3> HIDE DEF hitting
    <3>1. \E l \in hitting : \A m \in hitting : l <= m
      BY <2>5, LeastNatural
    <3> QED
      BY <3>1
  <2> HIDE DEF first
  <2>7. \E q \in Hits(first, k) : \A r \in Hits(first, k) : files[r].created <= files[q].created
    <3> DEFINE ages == {clock - files[q].created : q \in Hits(first, k)}
    <3>1. ages \in SUBSET Nat
      BY <1>3 DEF TypeInv, Types
    <3>2. ages # {}
      BY <2>6
    <3> HIDE DEF ages
    <3>3. PICK a \in ages : \A b \in ages : a <= b
      BY <3>1, <3>2, LeastNatural
    <3>4. PICK q \in Hits(first, k) : a = clock - files[q].created
      BY <3>3 DEF ages
    <3>5. ASSUME NEW r \in Hits(first, k)
          PROVE  files[r].created <= files[q].created
      <4>1. a <= clock - files[r].created
        BY <3>3 DEF ages
      <4>2. files[q].created \in Int /\ files[r].created \in Int
        BY <1>3, <3>4, <3>5
      <4>3. clock \in Int
        BY DEF TypeInv, Types
      <4> QED
        BY <3>4, <4>1, <4>2, <4>3
    <3> QED
      BY <3>5
  <2>8. /\ newest \in Hits(first, k)
        /\ \A q \in Hits(first, k) : files[q].created <= files[newest].created
    BY <2>7
  <2> HIDE DEF newest
  <2>9. newest = p
    <3> SUFFICES ASSUME newest # p
                 PROVE  FALSE
      OBVIOUS
    <3>1. newest \in Bins(files) /\ newest[1] = first /\ files[newest].created \in Int
      BY <1>3, <2>8
    <3>2. first \in Int /\ p[1] \in Int /\ first <= p[1]
      BY <2>3, <2>5, <2>6
    <3>3. Before(files, newest, p)
      <4>1. CASE first = p[1]
        <5>1. files[p].created <= files[newest].created
          BY <2>4, <2>8, <4>1
        <5>2. files[p].created # files[newest].created
          BY <2>1, <3>1 DEF Bins, TypeInv, Types, Directory
        <5> QED
          BY <2>3, <3>1, <4>1, <5>1, <5>2 DEF Before
      <4>2. CASE first # p[1]
        BY <3>1, <3>2, <4>2 DEF Before
      <4> QED
        BY <4>1, <4>2
    <3>4. files[newest].data[k] # Absent /\ files[p].data[k] # Absent
      BY <2>4, <2>8 DEF Hits
    <3>5. files[newest].data[k].by > files[p].data[k].by
      BY <1>2, <2>2, <3>1, <3>3, <3>4 DEF Layered, After
    <3>6. files[newest].data[k].by <= files[p].data[k].by
      BY <1>3, <2>1, <2>8
    <3>7. files[newest].data[k].by \in Int /\ files[p].data[k].by \in Int
      BY <1>3, <2>4, <2>8 DEF Entry
    <3> QED
      BY <3>5, <3>6, <3>7
  <2> QED
    BY <1>1, <2>1, <2>5, <2>9
<1> QED
  BY <1>4, <1>5

\* As long as nothing fails, every compaction takes its level in one unit, no file
\* name repeats and no key is of one byte, a reader that opens the directory
\* between two compactions finds for every key exactly what the flushes brought
\* last, whatever was flushed before, between and during the compactions.
THEOREM ViewStays ==
  Faults = {} /\ ShortKeys = {} => (Spec /\ [](NamesFresh /\ Fits) => []ViewKept)
<1> SUFFICES ASSUME Faults = {}, ShortKeys = {}
             PROVE  Spec /\ [](NamesFresh /\ Fits) => []ViewKept
  OBVIOUS
<1>1. TypeInv /\ ErasureInv /\ LayerInv /\ ViewInv => ViewKept
  <2> SUFFICES ASSUME TypeInv, ErasureInv, LayerInv, ViewInv, pc = "visit", NEW k \in Keys
               PROVE  IF Dead(store[k]) THEN Dead(Seen(k)) ELSE Seen(k) = store[k]
    BY DEF ViewKept
  <2>1. Seen(k) = store[k]
    BY SeenIsNewest DEF LongKeys, ErasureInv, LayerInv, ViewInv
  <2> QED
    BY <2>1
<1>2. WholeReads
  BY DEF WholeReads
<1>3. Spec /\ [](NamesFresh /\ Fits) => []ErasureInv
  BY <1>2, FittingErasure
<1> QED
  BY <1>1, <1>3, AlwaysView, AlwaysLayers, AlwaysTyped, PTL

\* Before the first compaction a level has at most one table of each flush.
LEMMA FirstFits ==
  ASSUME TypeInv, OnlyFlushed, MaxCompactions <= 1, MaxFlushes <= TargetChunks
  PROVE  Fits
<1> SUFFICES ASSUME pc = "visit", rounds < MaxCompactions
             PROVE  Cardinality(Tables(level)) <= TargetChunks
  BY DEF Fits
<1>1. rounds = 0 /\ flushed \in Nat /\ flushed <= MaxFlushes
  BY BoundsAssumption DEF TypeInv, Types
<1> DEFINE numbers == {n \in 1..flushed : TablePath(n) \in Tables(level)}
           path == [n \in numbers |-> TablePath(n)]
<1>2. path \in Surjection(numbers, Tables(level))
  <2>1. path \in [numbers -> Tables(level)]
    OBVIOUS
  <2>2. ASSUME NEW p \in Tables(level)
        PROVE  \E n \in numbers : path[n] = p
    <3>1. PICK n \in 1..flushed : p = TablePath(n)
      BY <1>1 DEF OnlyFlushed, Tables
    <3>2. n \in numbers
      BY <3>1
    <3> QED
      BY <3>1, <3>2
  <2> QED
    BY <2>1, <2>2 DEF Surjection
<1>3. IsFiniteSet(1..flushed) /\ Cardinality(1..flushed) <= flushed
  <2>1. 1 \in Int /\ flushed \in Int
    BY <1>1
  <2>2. /\ IsFiniteSet(1..flushed)
        /\ Cardinality(1..flushed) = IF 1 > flushed THEN 0 ELSE flushed - 1 + 1
    BY <2>1, FS_Interval
  <2> QED
    BY <1>1, <2>2
<1>4. numbers \in SUBSET (1..flushed)
  OBVIOUS
<1> HIDE DEF numbers, path
<1>5. IsFiniteSet(numbers) /\ Cardinality(numbers) <= Cardinality(1..flushed)
  BY <1>3, <1>4, FS_Subset
<1>6. IsFiniteSet(Tables(level)) /\ Cardinality(Tables(level)) <= Cardinality(numbers)
  BY <1>2, <1>5, FS_Surjection
<1>7. /\ Cardinality(Tables(level)) \in Nat /\ Cardinality(numbers) \in Nat
      /\ Cardinality(1..flushed) \in Nat
  BY <1>3, <1>5, <1>6, FS_CardinalityType
<1> QED
  BY <1>1, <1>3, <1>5, <1>6, <1>7, BoundsAssumption, ChunksAssumption

\* Through the first compaction after the start, of at most one unit, readers find
\* the newest entries without any assumption on the names.
THEOREM FirstViewStays ==
  /\ MaxCompactions <= 1 /\ MaxFlushes <= TargetChunks
  /\ Faults = {} /\ ShortKeys = {}
  => (Spec => []ViewKept)
<1> SUFFICES ASSUME MaxCompactions <= 1, MaxFlushes <= TargetChunks,
                    Faults = {}, ShortKeys = {}
             PROVE  Spec => []ViewKept
  OBVIOUS
<1>1. TypeInv /\ FirstInv => NamesFresh /\ Fits
  BY FirstNamesFresh, FirstFits DEF FirstInv
<1>2. Spec /\ [](NamesFresh /\ Fits) => []ViewKept
  BY ViewStays
<1> QED
  BY <1>1, <1>2, AlwaysFirst, AlwaysTyped, PTL

=============================================================================
