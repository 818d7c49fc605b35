----------------------- MODULE CompactionErasure_proofs -----------------------
(***************************************************************************)
(* That nothing is erased: the newest flushed entry of a key is always in  *)
(* some intact file, whatever fails and wherever the process ends, for     *)
(* every set of keys, every number of levels, size of units and bound.     *)
(* The coordinator relies on what it does not ensure: that a join reads    *)
(* only whole tables, that no file name repeats and that the tables of a   *)
(* level are in the order of their entries.  The first compaction after    *)
(* the start needs only the first of these.                                *)
(***************************************************************************)
EXTENDS Compaction_proofs

\* No rename and no new file takes the place of another file.
NamesFresh ==
  /\ pc = "join" => ~Has(Out)
  /\ pc = "drain" =>
       \A n \in 1..2 : unit.target[n][2] = "bin" => ~Has(Drained(unit.target[n]))
  /\ pc = "units" /\ units = <<>> /\ outputs # <<>> =>
       Path(level + 1, <<Head(outputs)[1], "bin">>) \notin DOMAIN files

\* Where a compaction may begin, the tables created later have the newer entries.
AgesOrdered ==
  pc = "visit" /\ rounds < MaxCompactions =>
    \A p, q \in Tables(level), k \in LongKeys :
      /\ files[p].created > files[q].created
      /\ files[p].data[k] # Absent
      /\ files[q].data[k] # Absent
      => files[p].data[k].by >= files[q].data[k].by

\* A key's entry is in some intact file.
Holds(fs, k, e) == \E p \in DOMAIN fs : fs[p].form \in Intact /\ fs[p].data[k] = e

\* The table under way is where the flush created it.
WritingOK ==
  /\ \A p \in DOMAIN files :
       files[p].form = "growing" => p = TablePath(flushed) /\ writing # NoContent
  /\ writing # NoContent =>
       /\ TablePath(flushed) \in DOMAIN files
       /\ files[TablePath(flushed)].form = "growing"
       /\ files[TablePath(flushed)].data = writing
  /\ \A k \in LongKeys : writing[k] # Absent => writing[k].by = flushed
  /\ \A k \in LongKeys : store[k] # Absent =>
       store[k].by <= flushed /\ (writing # NoContent => store[k].by < flushed)

\* No file has an entry that the completed flushes do not know or that is newer.
StoreTop ==
  \A k \in LongKeys, e \in Entry : Holds(files, k, e) =>
    /\ store[k] # Absent
    /\ e.by <= store[k].by
    /\ e.by = store[k].by => e = store[k]

StoreHeld == \A k \in LongKeys : store[k] # Absent => Holds(files, k, store[k])

\* The first tables of a waiting unit have the newer entries.
UnitsAged ==
  \A u \in DOMAIN units : \A i, j \in DOMAIN units[u] : i < j =>
    \A k \in LongKeys :
      At(units[u][i]).data[k] # Absent /\ At(units[u][j]).data[k] # Absent =>
        At(units[u][i]).data[k].by >= At(units[u][j]).data[k].by

\* What the unit's files hold is no newer than what its tables held at first.
Dominated(x) ==
  \A k \in LongKeys : At(x).data[k] # Absent =>
    unit.input[k] # Absent /\ At(x).data[k].by <= unit.input[k].by

\* An entry of an earlier output is in one of the files it was made from.
Backed(x) ==
  /\ At(x).form \in Intact
  /\ \A k \in LongKeys : At(x).data[k] # Absent =>
       \E i \in DOMAIN unit.consumed :
         /\ At(unit.consumed[i]).form \in Intact
         /\ At(unit.consumed[i]).data[k] = At(x).data[k]

\* The pair that is to be drained is whole, and in the output.
PairOK ==
  pc = "drain" =>
    /\ At(Out).form \in Intact
    /\ At(unit.target[1]).form \in Intact
    /\ At(unit.target[2]).form \in Intact
    /\ \A k \in LongKeys : At(Out).data[k] # Absent =>
         \E n \in 1..2 : At(unit.target[n]).data[k] = At(Out).data[k]

WorkOK ==
  /\ \A i \in DOMAIN unit.consumed : Has(unit.consumed[i]) /\ Dominated(unit.consumed[i])
  /\ \A i \in DOMAIN unit.target :
       /\ Dominated(unit.target[i])
       /\ unit.target[i][2] = "tmp" => Backed(unit.target[i])
  /\ \A i \in DOMAIN unit.merged : Dominated(unit.merged[i]) /\ Backed(unit.merged[i])

ErasureInv == WritingOK /\ StoreTop /\ StoreHeld /\ UnitsAged /\ WorkOK /\ PairOK

LEMMA NothingErasedIs == NothingErased <=> StoreHeld
BY DEF NothingErased, StoreHeld, Holds, Intact

\* A directory with the same contents, but for tables that are not whole.
Alike(fs) ==
  /\ DOMAIN fs = DOMAIN files
  /\ \A p \in DOMAIN files :
       /\ fs[p] \in FileRecords(clock)
       /\ fs[p].data = files[p].data
       /\ fs[p].form \in Intact <=> files[p].form \in Intact

LEMMA AlikeHolds ==
  ASSUME NEW fs, Alike(fs), NEW k, NEW e
  PROVE  Holds(fs, k, e) <=> Holds(files, k, e)
BY DEF Alike, Holds

LEMMA WrittenAlike ==
  ASSUME TypeInv
  PROVE  Alike(files) /\ Alike(Written("bad"))
<1>1. ASSUME NEW p \in DOMAIN files
      PROVE  /\ Written("bad")[p] \in FileRecords(clock)
             /\ files[p] \in FileRecords(clock)
             /\ Written("bad")[p].data = files[p].data
             /\ Written("bad")[p].form \in Intact <=> files[p].form \in Intact
  <2>1. Directory(files, clock) /\ "bad" \in Forms
    BY DEF TypeInv, Types, Forms
  <2>2. Written("bad")[p] \in FileRecords(clock) /\ files[p] \in FileRecords(clock)
    BY <2>1, WrittenTurns DEF Directory
  <2>3. CASE files[p].form = "growing"
    <3>1. Written("bad")[p].data = files[p].data /\ Written("bad")[p].form = "bad"
      BY <2>1, <2>3, WrittenTurns
    <3> QED
      BY <2>3, <2>2, <3>1 DEF Intact
  <2>4. CASE files[p].form # "growing"
    BY <2>4, <2>2, WrittenKeeps
  <2> QED
    BY <2>3, <2>4, <2>2
<1> QED
  BY <1>1 DEF Alike, Written

LEMMA RenameHolds ==
  ASSUME NEW fs, NEW from \in DOMAIN fs, NEW to, to \notin DOMAIN fs, NEW k, NEW e
  PROVE  Holds(Rename(fs, from, to), k, e) <=> Holds(fs, k, e)
<1> DEFINE gs == Rename(fs, from, to)
<1>1. /\ to \in DOMAIN gs /\ gs[to] = fs[from]
      /\ \A q \in DOMAIN fs : q # from => q \in DOMAIN gs /\ gs[q] = fs[q]
      /\ \A q \in DOMAIN gs : q # to => q \in DOMAIN fs /\ gs[q] = fs[q]
  BY RenameMoves, RenameKeeps, RenameOnly
<1> HIDE DEF gs
<1>2. Holds(gs, k, e) <=> Holds(fs, k, e)
  BY <1>1 DEF Holds
<1> QED
  BY <1>2 DEF gs

LEMMA DrainOneHolds ==
  ASSUME NEW fs, NEW x, Path(level, x) \in DOMAIN fs,
         x[2] = "bin" => Path(level, Drained(x)) \notin DOMAIN fs, NEW k, NEW e
  PROVE  Holds(DrainOne(fs, x), k, e) <=> Holds(fs, k, e)
BY RenameHolds DEF DrainOne

LEMMA CreateHolds ==
  ASSUME NEW fs, NEW p, p \notin DOMAIN fs, NEW data, NEW form, NEW k, NEW e
  PROVE  /\ Holds(fs, k, e) => Holds(Create(fs, p, data, form), k, e)
         /\ Holds(Create(fs, p, data, form), k, e) =>
              Holds(fs, k, e) \/ (form \in Intact /\ data[k] = e)
<1> DEFINE gs == Create(fs, p, data, form)
<1>1. /\ gs[p].data = data /\ gs[p].form = form
      /\ \A q \in DOMAIN fs : q # p => q \in DOMAIN gs /\ gs[q] = fs[q]
      /\ \A q \in DOMAIN gs : q # p => q \in DOMAIN fs /\ gs[q] = fs[q]
  BY CreateMakes, CreateKeeps, CreateOnly
<1> HIDE DEF gs
<1>2. /\ Holds(fs, k, e) => Holds(gs, k, e)
      /\ Holds(gs, k, e) => Holds(fs, k, e) \/ (form \in Intact /\ data[k] = e)
  BY <1>1 DEF Holds
<1> QED
  BY <1>2 DEF gs

\* The newest entries stay, and no entry comes up.
NoneLost(gs) ==
  \A k \in LongKeys :
    store[k] # Absent /\ Holds(files, k, store[k]) => Holds(gs, k, store[k])
NoneMade(gs) == \A k \in LongKeys, e \in Entry : Holds(gs, k, e) => Holds(files, k, e)

\* Tables under way are left alone.
GrowthKept(fs, gs) ==
  /\ \A p \in DOMAIN fs : fs[p].form = "growing" => p \in DOMAIN gs /\ gs[p] = fs[p]
  /\ \A p \in DOMAIN gs : gs[p].form = "growing" => p \in DOMAIN fs /\ fs[p].form = "growing"

LEMMA HeldRemains ==
  ASSUME StoreTop, StoreHeld, store' = store, NoneLost(files'), NoneMade(files')
  PROVE  StoreTop' /\ StoreHeld'
<1>1. \A k \in LongKeys : store[k] # Absent => Holds(files', k, store[k])
  BY DEF NoneLost, StoreHeld
<1>2. \A k \in LongKeys, e \in Entry : Holds(files', k, e) =>
        store[k] # Absent /\ e.by <= store[k].by /\ (e.by = store[k].by => e = store[k])
  BY DEF NoneMade, StoreTop
<1> QED
  BY <1>1, <1>2 DEF StoreTop, StoreHeld, Holds

LEMMA WritingRemains ==
  ASSUME WritingOK, UNCHANGED <<flushed, writing, store>>, GrowthKept(files, files')
  PROVE  WritingOK'
BY DEF WritingOK, GrowthKept, TablePath

LEMMA FlushBeginHistory ==
  ASSUME TypeInv, WritingOK, StoreTop, StoreHeld, FlushBegin
  PROVE  WritingOK' /\ StoreTop' /\ StoreHeld'
<1> DEFINE path == TablePath(flushed + 1)
<1>1. /\ files' = Create(files, path, writing', "growing") /\ flushed' = flushed + 1
      /\ writing = NoContent /\ store' = store /\ path \notin DOMAIN files
      /\ flushed \in Nat
  BY FlushPathIsNew, BoundsAssumption DEF FlushBegin, TablePath, TypeInv, Types
<1>2. /\ writing' # NoContent
      /\ \A k \in Keys : writing'[k] # Absent => writing'[k].by = flushed'
  BY WritingType DEF TypeInv, Types
<1>3. TablePath(flushed') = path
  BY <1>1
<1> HIDE DEF path
<1>4. NoneLost(files') /\ NoneMade(files')
  BY <1>1, CreateHolds DEF NoneLost, NoneMade, Intact
<1>5. /\ path \in DOMAIN files' /\ files'[path].form = "growing" /\ files'[path].data = writing'
  BY <1>1, CreateMakes
<1>6. \A p \in DOMAIN files' : files'[p].form = "growing" => p = path
  <2>1. \A p \in DOMAIN files' : p # path => p \in DOMAIN files /\ files'[p] = files[p]
    BY <1>1, CreateOnly
  <2> QED
    BY <1>1, <2>1 DEF WritingOK
<1>7. \A k \in LongKeys : store[k] # Absent => store[k].by < flushed' /\ store[k].by <= flushed'
  <2>1. \A k \in LongKeys : store[k] # Absent => store[k].by \in Int
    BY DEF TypeInv, Types, Content, Entry, LongKeys
  <2> QED
    BY <1>1, <2>1 DEF WritingOK
<1>8. \A k \in LongKeys : writing'[k] # Absent => writing'[k].by = flushed'
  BY <1>2 DEF LongKeys
<1>9. WritingOK'
  BY <1>1, <1>2, <1>3, <1>5, <1>6, <1>7, <1>8 DEF WritingOK
<1> QED
  BY <1>1, <1>4, <1>9, HeldRemains

LEMMA FlushTornHistory ==
  ASSUME TypeInv, WritingOK, StoreTop, StoreHeld, FlushTorn
  PROVE  WritingOK' /\ StoreTop' /\ StoreHeld'
<1>1. /\ files' = Written("bad") /\ writing' = NoContent /\ UNCHANGED <<flushed, store>>
  BY DEF FlushTorn
<1>2. NoneLost(files') /\ NoneMade(files')
  BY <1>1, WrittenAlike, AlikeHolds DEF NoneLost, NoneMade
<1>3. WritingOK'
  <2>1. \A p \in DOMAIN files' : files'[p].form # "growing"
    BY <1>1, WrittenKeeps, WrittenTurns DEF TypeInv, Types, Forms, Written
  <2> QED
    BY <1>1, <2>1 DEF WritingOK, NoContent, LongKeys
<1> QED
  BY <1>1, <1>2, <1>3, HeldRemains

\* The table that is complete has the newest entry of each of its keys.
LEMMA FlushEndHistory ==
  ASSUME TypeInv, WritingOK, StoreTop, StoreHeld, FlushEnd
  PROVE  WritingOK' /\ StoreTop' /\ StoreHeld'
<1> DEFINE path == TablePath(flushed)
<1>1. /\ files' = Written("table") /\ writing' = NoContent /\ flushed' = flushed
      /\ store' = Over(writing, store) /\ writing # NoContent
  BY DEF FlushEnd
<1>2. /\ path \in DOMAIN files /\ files[path].form = "growing" /\ files[path].data = writing
      /\ \A p \in DOMAIN files : files[p].form = "growing" => p = path
  BY <1>1 DEF WritingOK
<1> HIDE DEF path
<1>3. /\ DOMAIN files' = DOMAIN files
      /\ files'[path].data = writing /\ files'[path].form = "table"
      /\ \A p \in DOMAIN files : p # path => files'[p] = files[p]
  BY <1>1, <1>2, WrittenKeeps, WrittenTurns DEF TypeInv, Types, Forms
<1>4. ASSUME NEW k \in LongKeys
      PROVE  /\ k \in Keys
             /\ store'[k] = IF writing[k] # Absent THEN writing[k] ELSE store[k]
             /\ writing[k] # Absent => writing[k].by = flushed
             /\ store[k] # Absent => store[k].by < flushed /\ store[k].by \in Int
             /\ flushed \in Int
  BY <1>1, BoundsAssumption DEF LongKeys, Over, WritingOK, TypeInv, Types, Content, Entry
<1>5. ASSUME NEW k \in LongKeys, NEW e
      PROVE  /\ Holds(files, k, e) => Holds(files', k, e)
             /\ Holds(files', k, e) => Holds(files, k, e) \/ e = writing[k]
             /\ Holds(files', k, writing[k])
  BY <1>2, <1>3 DEF Holds, Intact
<1>6. \A k \in LongKeys : store'[k] # Absent => Holds(files', k, store'[k])
  BY <1>4, <1>5 DEF StoreHeld
<1>7. ASSUME NEW k \in LongKeys, NEW e \in Entry, Holds(files', k, e)
      PROVE  /\ store'[k] # Absent /\ e.by <= store'[k].by
             /\ e.by = store'[k].by => e = store'[k]
  <2>1. e # Absent /\ e.by \in Int
    BY AbsentAssumption DEF Entry
  <2>2. CASE e = writing[k]
    BY <1>4, <2>1, <2>2
  <2>3. CASE Holds(files, k, e)
    <3>1. store[k] # Absent /\ e.by <= store[k].by /\ (e.by = store[k].by => e = store[k])
      BY <2>3 DEF StoreTop
    <3> QED
      BY <1>4, <2>1, <3>1
  <2> QED
    BY <1>5, <1>7, <2>2, <2>3
<1>8. \A p \in DOMAIN files' : files'[p].form # "growing"
  BY <1>2, <1>3
<1>9. \A k \in LongKeys : store'[k] # Absent => store'[k].by <= flushed
  BY <1>4
<1>10. WritingOK'
  BY <1>1, <1>8, <1>9 DEF WritingOK, NoContent, LongKeys
<1>11. StoreTop' /\ StoreHeld'
  BY <1>6, <1>7 DEF StoreTop, StoreHeld, Holds
<1> QED
  BY <1>10, <1>11

-----------------------------------------------------------------------------
(* What the steps of a unit do to the entries                              *)

LEMMA OutKept ==
  ASSUME TypeInv, NamesFresh, pc = "join", NEW fs, Alike(fs), NEW data, NEW form, NEW k, NEW e
  PROVE  LET gs == Create(fs, Path(level, Out), data, form)
         IN  /\ Holds(files, k, e) => Holds(gs, k, e)
             /\ Holds(gs, k, e) => Holds(files, k, e) \/ (form \in Intact /\ data[k] = e)
<1>1. Path(level, Out) \notin DOMAIN fs
  BY DEF NamesFresh, Has, Alike
<1> QED
  BY <1>1, CreateHolds, AlikeHolds

LEMMA FirstDrainHolds ==
  ASSUME TypeInv, NamesFresh, pc = "drain", NEW fs, Alike(fs), NEW k, NEW e
  PROVE  Holds(DrainOne(fs, unit.target[1]), k, e) <=> Holds(files, k, e)
<1>1. 1 \in DOMAIN unit.target
  BY ItemsTyped, RestItems DEF TypeInv, Control
<1>2. Path(level, unit.target[1]) \in DOMAIN fs
  BY <1>1 DEF TypeInv, TargetOK, Has, Alike
<1>3. unit.target[1][2] = "bin" => Path(level, Drained(unit.target[1])) \notin DOMAIN fs
  BY DEF NamesFresh, Has, Alike
<1> QED
  BY <1>2, <1>3, DrainOneHolds, AlikeHolds

LEMMA PairDrainHolds ==
  ASSUME TypeInv, NamesFresh, pc = "drain", NEW k, NEW e
  PROVE  Holds(PairDrained, k, e) <=> Holds(files, k, e)
<1> DEFINE gs == DrainOne(files, unit.target[1])
           l == unit.target[1]
           r == unit.target[2]
<1>1. /\ 1 \in DOMAIN unit.target /\ 2 \in DOMAIN unit.target
      /\ l \in Items /\ r \in Items /\ Has(r) /\ Apart(r, 1) /\ l # r
  BY ItemsTyped, RestItems DEF TypeInv, Control, TargetOK, Apart
<1>2. Path(level, r) \in DOMAIN gs
  BY <1>1, FirstDrained
<1>3. Drained(l) \in Items /\ Drained(r) \in Items
  BY <1>1, DrainedType
<1>4. r[2] = "bin" => Path(level, Drained(r)) \notin DOMAIN files
  BY DEF NamesFresh, Has
<1>5. l[2] = "bin" /\ r[2] = "bin" => Path(level, Drained(r)) # Path(level, Drained(l))
  BY <1>1, <1>3, DrainedInjective, PathInjective
<1>6. r[2] = "bin" => Path(level, Drained(r)) \notin DOMAIN gs
  BY <1>4, <1>5, DrainOneOnly
<1>7. Holds(gs, k, e) <=> Holds(files, k, e)
  BY FirstDrainHolds, WrittenAlike
<1> HIDE DEF gs, l, r
<1>8. Holds(DrainOne(gs, r), k, e) <=> Holds(gs, k, e)
  BY <1>2, <1>6, DrainOneHolds
<1> QED
  BY <1>7, <1>8 DEF gs, r, PairDrained

LEMMA LastBacked ==
  ASSUME TypeInv, WorkOK, pc \in {"frame", "sweep"}
  PROVE  /\ 1 \in DOMAIN unit.target /\ Has(unit.target[1])
         /\ Dominated(unit.target[1]) /\ Backed(unit.target[1])
         /\ At(unit.target[1]).form \in Intact
BY LastApart DEF TypeInv, Control, WorkOK, Backed

\* The last output gone bad, its entries are still in what it was made from.
LEMMA FrameBadHolds ==
  ASSUME TypeInv, WorkOK, pc = "frame", NEW fs, Alike(fs), NEW k \in LongKeys, NEW e, e # Absent
  PROVE  Holds([fs EXCEPT ![Path(level, unit.target[1])].form = "bad"], k, e)
           <=> Holds(files, k, e)
<1> DEFINE last == Path(level, unit.target[1])
           gs == [fs EXCEPT ![last].form = "bad"]
<1>1. /\ 1 \in DOMAIN unit.target /\ last \in DOMAIN files /\ Backed(unit.target[1])
      /\ unit.target[1] \in Items
  BY LastBacked, LastApart DEF Has
<1>2. last \in DOMAIN fs /\ DOMAIN gs = DOMAIN fs
  BY <1>1 DEF Alike
<1>3. \A p \in DOMAIN fs : p # last => gs[p] = fs[p]
  BY <1>2
<1>4. gs[last].form \notin Intact
  <2>1. fs[last] \in FileRecords(clock)
    BY <1>1 DEF Alike
  <2> QED
    BY <1>2, <2>1 DEF Intact, FileRecords
<1> HIDE DEF gs
<1>5. Holds(gs, k, e) => Holds(fs, k, e)
  BY <1>2, <1>3, <1>4 DEF Holds
<1>6. ASSUME Holds(files, k, e)
      PROVE  Holds(gs, k, e)
  <2>1. PICK p \in DOMAIN files : files[p].form \in Intact /\ files[p].data[k] = e
    BY <1>6 DEF Holds
  <2>2. CASE p # last
    BY <1>2, <1>3, <2>1, <2>2 DEF Alike, Holds
  <2>3. CASE p = last
    <3>1. PICK i \in DOMAIN unit.consumed :
            /\ At(unit.consumed[i]).form \in Intact
            /\ At(unit.consumed[i]).data[k] = e
      BY <1>1, <2>1, <2>3 DEF Backed, At, last
    <3>2. Path(level, unit.consumed[i]) \in DOMAIN files
      BY DEF WorkOK, Has
    <3>3. Path(level, unit.consumed[i]) # last
      BY <1>1, ConsumedApart DEF last
    <3> QED
      BY <1>2, <1>3, <3>1, <3>2, <3>3 DEF Alike, Holds, At
  <2> QED
    BY <2>2, <2>3
<1> QED
  BY <1>5, <1>6, AlikeHolds DEF gs

\* Of the newest entries those of the consumed files are in the last output.
LEMMA SweepHolds ==
  ASSUME TypeInv, Ordered, StoreTop, WorkOK, pc = "sweep", NEW fs, Alike(fs),
         NEW I \in SUBSET DOMAIN unit.consumed, NEW k \in LongKeys
  PROVE  LET gs == Without(fs, {Path(level, unit.consumed[i]) : i \in I})
         IN  /\ store[k] # Absent /\ Holds(files, k, store[k]) => Holds(gs, k, store[k])
             /\ \A e : Holds(gs, k, e) => Holds(files, k, e)
<1> DEFINE swept == {Path(level, unit.consumed[i]) : i \in I}
           gs == Without(fs, swept)
           last == Path(level, unit.target[1])
<1>1. /\ DOMAIN gs = DOMAIN files \ swept
      /\ \A p \in DOMAIN gs : gs[p] = fs[p]
  BY DEF Without, Alike
<1>2. \A e : Holds(gs, k, e) => Holds(files, k, e)
  BY <1>1 DEF Holds, Alike
<1>3. ASSUME store[k] # Absent, Holds(files, k, store[k])
      PROVE  Holds(gs, k, store[k])
  <2>1. PICK p \in DOMAIN files : files[p].form \in Intact /\ files[p].data[k] = store[k]
    BY <1>3 DEF Holds
  <2>2. CASE p \notin swept
    BY <1>1, <2>1, <2>2 DEF Holds, Alike
  <2>3. CASE p \in swept
    <3>1. PICK i \in I : p = Path(level, unit.consumed[i])
      BY <2>3
    <3>2. Dominated(unit.consumed[i])
      BY DEF WorkOK
    <3>3. unit.input[k] # Absent /\ store[k].by <= unit.input[k].by
      BY <1>3, <2>1, <3>1, <3>2 DEF Dominated, At
    <3>4. /\ last \in DOMAIN files /\ files[last].form \in Intact
          /\ 1 \in DOMAIN unit.target /\ unit.target[1] \in Items
      BY LastBacked, LastApart DEF Has, At
    <3>5. last \notin swept
      BY <3>4, ConsumedApart
    <3>6. files[last].data[k] = unit.input[k]
      <4>1. k \in Keys
        BY DEF LongKeys
      <4>2. Queue = <<unit.target[1]>>
        <5>1. unit.merged = <<>> /\ Len(unit.target) = 1 /\ unit.target \in Seq(Items)
          BY ItemsTyped DEF TypeInv, Control
        <5>2. unit.target = <<unit.target[1]>>
          BY <5>1
        <5> QED
          BY <5>1, <5>2 DEF Queue
      <4>3. OverlayOf(files, level, Queue)[k] = unit.input[k]
        BY DEF Ordered, AtUnit
      <4>4. OverlayOf(files, level, <<unit.target[1]>>)[k] = files[Path(level, unit.target[1])].data[k]
        BY <3>4, <4>1, OverlaySingle
      <4> QED
        BY <4>2, <4>3, <4>4
    <3>7. unit.input[k] \in Entry /\ store[k] \in Entry
      BY <1>3, <3>3 DEF TypeInv, Types, Units, Content, LongKeys
    <3>8. unit.input[k].by <= store[k].by /\ (unit.input[k].by = store[k].by => unit.input[k] = store[k])
      <4>1. Holds(files, k, unit.input[k])
        BY <3>4, <3>6 DEF Holds
      <4> QED
        BY <3>7, <4>1 DEF StoreTop
    <3>9. unit.input[k] = store[k]
      BY <3>3, <3>7, <3>8 DEF Entry
    <3> QED
      BY <1>1, <3>4, <3>5, <3>6, <3>9 DEF Holds, Alike
  <2> QED
    BY <2>2, <2>3
<1> QED
  BY <1>2, <1>3

LEMMA RenameGrowth ==
  ASSUME NEW fs, NEW from \in DOMAIN fs, fs[from].form # "growing", NEW to, to \notin DOMAIN fs
  PROVE  GrowthKept(fs, Rename(fs, from, to))
<1> DEFINE gs == Rename(fs, from, to)
<1>1. /\ gs[to] = fs[from]
      /\ \A q \in DOMAIN fs : q # from => q \in DOMAIN gs /\ gs[q] = fs[q]
      /\ \A q \in DOMAIN gs : q # to => q \in DOMAIN fs /\ gs[q] = fs[q]
  BY RenameMoves, RenameKeeps, RenameOnly
<1> HIDE DEF gs
<1>2. GrowthKept(fs, gs)
  BY <1>1 DEF GrowthKept
<1> QED
  BY <1>2 DEF gs

LEMMA DrainOneGrowth ==
  ASSUME NEW fs, NEW x, Path(level, x) \in DOMAIN fs, fs[Path(level, x)].form # "growing",
         x[2] = "bin" => Path(level, Drained(x)) \notin DOMAIN fs
  PROVE  GrowthKept(fs, DrainOne(fs, x))
BY RenameGrowth DEF DrainOne, GrowthKept

LEMMA CreateGrowth ==
  ASSUME NEW fs, NEW p, p \notin DOMAIN fs, NEW data, NEW form, form # "growing"
  PROVE  GrowthKept(fs, Create(fs, p, data, form))
<1> DEFINE gs == Create(fs, p, data, form)
<1>1. /\ gs[p].form = form
      /\ \A q \in DOMAIN fs : q # p => q \in DOMAIN gs /\ gs[q] = fs[q]
      /\ \A q \in DOMAIN gs : q # p => q \in DOMAIN fs /\ gs[q] = fs[q]
  BY CreateMakes, CreateKeeps, CreateOnly
<1> HIDE DEF gs
<1>2. GrowthKept(fs, gs)
  BY <1>1 DEF GrowthKept
<1> QED
  BY <1>2 DEF gs

\* The three files of the pair, as NamesFresh and PairOK have them.
LEMMA PairAtHand ==
  ASSUME TypeInv, NamesFresh, PairOK, pc = "drain", NEW n \in 1..2
  PROVE  /\ n \in DOMAIN unit.target /\ unit.target[n] \in Items
         /\ Path(level, unit.target[n]) \in DOMAIN files
         /\ files[Path(level, unit.target[n])].form \in Intact
         /\ unit.target[n][2] = "bin" =>
              Path(level, Drained(unit.target[n])) \notin DOMAIN files
<1>1. n \in DOMAIN unit.target /\ unit.target[n] \in Items
  BY ItemsTyped, RestItems DEF TypeInv, Control
<1>2. Path(level, unit.target[n]) \in DOMAIN files
  BY <1>1 DEF TypeInv, TargetOK, Has
<1>3. unit.target[n][2] = "bin" => Path(level, Drained(unit.target[n])) \notin DOMAIN files
  BY DEF NamesFresh, Has
<1>4. files[Path(level, unit.target[n])].form \in Intact
  BY DEF PairOK, At
<1> QED
  BY <1>1, <1>2, <1>3, <1>4

LEMMA FirstDrainGrowth ==
  ASSUME TypeInv, NamesFresh, PairOK, pc = "drain"
  PROVE  GrowthKept(files, DrainOne(files, unit.target[1]))
<1>1. 1 \in 1..2
  OBVIOUS
<1> QED
  BY <1>1, PairAtHand, DrainOneGrowth DEF Intact

LEMMA PairDrainGrowth ==
  ASSUME TypeInv, NamesFresh, PairOK, pc = "drain"
  PROVE  GrowthKept(files, PairDrained)
<1> DEFINE gs == DrainOne(files, unit.target[1])
           l == unit.target[1]
           r == unit.target[2]
<1>1. /\ 1 \in DOMAIN unit.target /\ 2 \in DOMAIN unit.target /\ 1 \in 1..2 /\ 2 \in 1..2
      /\ l \in Items /\ r \in Items
      /\ Has(r) /\ Apart(r, 1) /\ l # r
  BY ItemsTyped, RestItems DEF TypeInv, Control, TargetOK, Apart
<1>2. Path(level, r) \in DOMAIN gs /\ gs[Path(level, r)] = files[Path(level, r)]
  BY <1>1, FirstDrained
<1>3. gs[Path(level, r)].form # "growing"
  BY <1>1, <1>2, PairAtHand DEF Intact
<1>4. r[2] = "bin" => Path(level, Drained(r)) \notin DOMAIN gs
  <2>1. r[2] = "bin" => Path(level, Drained(r)) \notin DOMAIN files
    BY <1>1, PairAtHand
  <2>2. l[2] = "bin" /\ r[2] = "bin" => Path(level, Drained(r)) # Path(level, Drained(l))
    BY <1>1, DrainedType, DrainedInjective, PathInjective
  <2> QED
    BY <2>1, <2>2, DrainOneOnly
<1>5. GrowthKept(files, gs)
  BY FirstDrainGrowth
<1> HIDE DEF gs, l, r
<1>6. GrowthKept(gs, DrainOne(gs, r))
  BY <1>2, <1>3, <1>4, DrainOneGrowth
<1> QED
  BY <1>5, <1>6 DEF GrowthKept, gs, r, PairDrained

\* A table under way is at a name that no other step has to do with.
LEMMA GrowingApart ==
  ASSUME TypeInv, WritingOK, NEW p \in DOMAIN files, files[p].form = "growing"
  PROVE  p[3] = "bin"
BY DEF WritingOK, TablePath

LEMMA LastGrowth ==
  ASSUME TypeInv, WritingOK, pc \in {"frame", "sweep"}, NEW form, form # "growing"
  PROVE  GrowthKept(files, [files EXCEPT ![Path(level, unit.target[1])].form = form])
<1> DEFINE last == Path(level, unit.target[1])
           gs == [files EXCEPT ![last].form = form]
<1>1. last \in DOMAIN files /\ last[3] = "tmp"
  BY LastApart, OwnTmpIsTmp, PathExtension DEF Has
<1>2. files[last] \in FileRecords(clock)
  BY <1>1 DEF TypeInv, Types, Directory
<1> HIDE DEF last
<1>3. /\ DOMAIN gs = DOMAIN files /\ gs[last].form = form
      /\ \A p \in DOMAIN files : p # last => gs[p] = files[p]
  BY <1>1, <1>2 DEF FileRecords
<1>4. \A p \in DOMAIN files : files[p].form = "growing" => p # last
  BY <1>1, GrowingApart
<1> HIDE DEF gs
<1>5. GrowthKept(files, gs)
  BY <1>3, <1>4 DEF GrowthKept
<1> QED
  BY <1>5 DEF gs, last

LEMMA SweptGrowth ==
  ASSUME TypeInv, WritingOK, NEW n \in 0..Len(unit.consumed)
  PROVE  GrowthKept(files, Swept(n))
<1>1. \A i \in DOMAIN unit.consumed : Path(level, unit.consumed[i])[3] # "bin"
  BY OwnTmpIsTmp, PathExtension DEF TypeInv, ConsumedOK
<1>2. \A p \in DOMAIN files : files[p].form = "growing" =>
        p \in DOMAIN Swept(n) /\ Swept(n)[p] = files[p]
  BY <1>1, GrowingApart, SweptKeeps
<1>3. \A p \in DOMAIN Swept(n) : p \in DOMAIN files /\ Swept(n)[p] = files[p]
  BY DEF Swept, Without
<1> QED
  BY <1>2, <1>3 DEF GrowthKept

-----------------------------------------------------------------------------
(* The entries, action by action                                           *)

History == WritingOK /\ StoreTop /\ StoreHeld

LEMMA HistoryRemains ==
  ASSUME History, UNCHANGED <<flushed, writing, store>>, GrowthKept(files, files'),
         NoneLost(files'), NoneMade(files')
  PROVE  History'
BY HeldRemains, WritingRemains DEF History

LEMMA FilesRemain ==
  ASSUME History, UNCHANGED <<files, flushed, writing, store>>
  PROVE  History'
<1>1. GrowthKept(files, files') /\ NoneLost(files') /\ NoneMade(files')
  BY DEF GrowthKept, NoneLost, NoneMade
<1> QED
  BY <1>1, HistoryRemains

LEMMA JoinHistory ==
  ASSUME TypeInv, History, NamesFresh, WholeReads, Join
  PROVE  History'
<1> DEFINE d == At(unit.target[1]).data
           e == At(unit.target[2]).data
<1>1. /\ pc = "join" /\ UNCHANGED <<flushed, writing, store>>
      /\ 1 \in DOMAIN unit.target /\ 2 \in DOMAIN unit.target
      /\ At(unit.target[1]).form \notin {"growing", "bad"}
      /\ At(unit.target[2]).form \notin {"growing", "bad"}
      /\ files' = Create(files, Path(level, Out), Joined(d, e), "raw")
  BY JoinStep
<1>2. Path(level, Out) \notin DOMAIN files
  BY <1>1 DEF NamesFresh, Has
<1>3. GrowthKept(files, files')
  BY <1>1, <1>2, CreateGrowth
<1>4. ASSUME NEW k \in LongKeys
      PROVE  Holds(files, k, d[k]) /\ Holds(files, k, e[k])
  <2>1. \A n \in 1..2 : Path(level, unit.target[n]) \in DOMAIN files
    BY <1>1 DEF TypeInv, TargetOK, Has
  <2>2. \A n \in 1..2 : files[Path(level, unit.target[n])].form \in Forms
    BY <2>1 DEF TypeInv, Types, Directory, FileRecords
  <2>3. \A n \in 1..2 : files[Path(level, unit.target[n])].form \in Intact
    BY <1>1, <2>2 DEF At, Forms, Intact
  <2> QED
    BY <2>1, <2>3 DEF Holds, At
<1> HIDE DEF d, e
<1>5. NoneLost(files')
  BY <1>1, OutKept, WrittenAlike DEF NoneLost
<1>6. NoneMade(files')
  <2> SUFFICES ASSUME NEW k \in LongKeys, NEW x \in Entry, Holds(files', k, x)
               PROVE  Holds(files, k, x)
    BY DEF NoneMade
  <2>1. Holds(files, k, x) \/ Joined(d, e)[k] = x
    BY <1>1, OutKept, WrittenAlike
  <2>2. Joined(d, e)[k] = d[k] \/ Joined(d, e)[k] = e[k]
    BY JoinedLong
  <2> QED
    BY <1>4, <2>1, <2>2
<1> QED
  BY <1>1, <1>3, <1>5, <1>6, HistoryRemains

LEMMA JoinFailsHistory ==
  ASSUME TypeInv, History, NamesFresh, JoinFails
  PROVE  History'
<1>1. pc = "join" /\ UNCHANGED <<flushed, writing, store>>
  BY DEF JoinFails
<1>2. CASE files' = Create(files, Path(level, Out), NoContent, "bad")
  <2>1. Path(level, Out) \notin DOMAIN files
    BY <1>1 DEF NamesFresh, Has
  <2>2. GrowthKept(files, files')
    BY <1>2, <2>1, CreateGrowth
  <2>3. NoneLost(files') /\ NoneMade(files')
    BY <1>1, <1>2, OutKept, WrittenAlike DEF NoneLost, NoneMade, Intact
  <2> QED
    BY <1>1, <2>2, <2>3, HistoryRemains
<1>3. CASE files' = files
  BY <1>1, <1>3, FilesRemain
<1> QED
  BY <1>2, <1>3 DEF JoinFails

LEMMA DrainHistory ==
  ASSUME TypeInv, History, NamesFresh, PairOK, Drain
  PROVE  History'
<1>1. pc = "drain" /\ UNCHANGED <<flushed, writing, store>> /\ files' = PairDrained
  BY DrainStep
<1>2. GrowthKept(files, files') /\ NoneLost(files') /\ NoneMade(files')
  BY <1>1, PairDrainGrowth, PairDrainHolds DEF NoneLost, NoneMade
<1> QED
  BY <1>1, <1>2, HistoryRemains

LEMMA DrainFailsHistory ==
  ASSUME TypeInv, History, NamesFresh, PairOK, DrainFails
  PROVE  History'
<1>1. /\ pc = "drain" /\ UNCHANGED <<flushed, writing, store>>
      /\ files' = files \/ files' = DrainOne(files, unit.target[1])
  BY DEF DrainFails
<1>2. CASE files' = DrainOne(files, unit.target[1])
  <2>1. GrowthKept(files, files') /\ NoneLost(files') /\ NoneMade(files')
    BY <1>1, <1>2, FirstDrainGrowth, FirstDrainHolds, WrittenAlike DEF NoneLost, NoneMade
  <2> QED
    BY <1>1, <2>1, HistoryRemains
<1> QED
  BY <1>1, <1>2, FilesRemain

\* An entry is no Absent.
LEMMA EntryPresent == \A e \in Entry : e # Absent
BY AbsentAssumption

LEMMA FrameHistory ==
  ASSUME TypeInv, History, WorkOK, Frame
  PROVE  History'
<1> DEFINE last == Path(level, unit.target[1])
<1>1. /\ pc = "frame" /\ UNCHANGED <<flushed, writing, store>>
      /\ files' = [files EXCEPT ![last].form = "table"]
  BY DEF Frame
<1>2. last \in DOMAIN files /\ files[last].form \in Intact
  BY <1>1, LastBacked DEF Has, At
<1>3. GrowthKept(files, files')
  BY <1>1, LastGrowth DEF History
<1>4. files[last] \in FileRecords(clock)
  BY <1>2 DEF TypeInv, Types, Directory
<1> HIDE DEF last
<1>5. /\ DOMAIN files' = DOMAIN files
      /\ files'[last].form \in Intact /\ files'[last].data = files[last].data
      /\ \A p \in DOMAIN files : p # last => files'[p] = files[p]
  BY <1>1, <1>2, <1>4 DEF FileRecords, Intact
<1>6. \A k, e : Holds(files', k, e) <=> Holds(files, k, e)
  BY <1>2, <1>5 DEF Holds
<1> QED
  BY <1>1, <1>3, <1>6, HistoryRemains DEF NoneLost, NoneMade

LEMMA FrameFailsHistory ==
  ASSUME TypeInv, History, WorkOK, FrameFails
  PROVE  History'
<1>1. /\ pc = "frame" /\ UNCHANGED <<flushed, writing, store>>
      /\ files' = [files EXCEPT ![Path(level, unit.target[1])].form = "bad"]
  BY DEF FrameFails
<1>2. GrowthKept(files, files')
  BY <1>1, LastGrowth DEF History
<1>3. NoneLost(files') /\ NoneMade(files')
  BY <1>1, FrameBadHolds, WrittenAlike, EntryPresent DEF NoneLost, NoneMade
<1> QED
  BY <1>1, <1>2, <1>3, HistoryRemains

LEMMA SweptHolds ==
  ASSUME TypeInv, Ordered, StoreTop, WorkOK, pc = "sweep", NEW n \in 0..Len(unit.consumed)
  PROVE  NoneLost(Swept(n)) /\ NoneMade(Swept(n))
<1>1. 1..n \subseteq DOMAIN unit.consumed
  <2>1. unit.consumed \in Seq(Items)
    BY ItemsTyped DEF TypeInv
  <2>2. DOMAIN unit.consumed = 1..Len(unit.consumed) /\ Len(unit.consumed) \in Nat
    BY <2>1
  <2> QED
    BY <2>2
<1> QED
  BY <1>1, SweepHolds, WrittenAlike DEF Swept, NoneLost, NoneMade

LEMMA SweepSwept ==
  ASSUME TypeInv, Sweep \/ SweepFails
  PROVE  \E n \in 0..Len(unit.consumed) : files' = Swept(n)
<1>1. Len(unit.consumed) \in Nat
  BY ItemsTyped DEF TypeInv
<1>2. CASE Sweep
  <2>1. Len(unit.consumed) \in 0..Len(unit.consumed)
    BY <1>1
  <2> QED
    BY <1>2, <2>1 DEF Sweep
<1>3. CASE SweepFails
  <2>1. PICK n \in 1..Len(unit.consumed) : files' = Swept(n - 1)
    BY <1>3 DEF SweepFails
  <2>2. n - 1 \in 0..Len(unit.consumed)
    BY <1>1
  <2> QED
    BY <2>1, <2>2
<1> QED
  BY <1>2, <1>3

LEMMA SweepHistory ==
  ASSUME TypeInv, History, Ordered, WorkOK, Sweep \/ SweepFails
  PROVE  History'
<1>1. pc = "sweep" /\ UNCHANGED <<flushed, writing, store>>
  BY DEF Sweep, SweepFails
<1>2. PICK n \in 0..Len(unit.consumed) : files' = Swept(n)
  BY SweepSwept
<1> QED
  BY <1>1, <1>2, SweptHolds, SweptGrowth, HistoryRemains DEF History

LEMMA PromoteHistory ==
  ASSUME TypeInv, History, NamesFresh, Promote
  PROVE  History'
<1> DEFINE from == Path(level, outputs[1])
           to == Path(level + 1, <<outputs[1][1], "bin">>)
<1>1. /\ pc = "units" /\ units = <<>> /\ outputs # <<>> /\ 1 \in DOMAIN outputs
      /\ from \in DOMAIN files /\ files' = Rename(files, from, to)
      /\ UNCHANGED <<flushed, writing, store>>
  BY PromoteStep
<1>2. Head(outputs) = outputs[1]
  BY <1>1, ItemsTyped DEF TypeInv
<1>3. to \notin DOMAIN files
  BY <1>1, <1>2 DEF NamesFresh
<1>4. from[3] = "tmp"
  BY <1>1, PathExtension DEF TypeInv, OutputsOK, Tmp
<1> HIDE DEF from, to
<1>5. files[from].form # "growing"
  BY <1>1, <1>4, GrowingApart DEF History
<1>6. GrowthKept(files, files') /\ NoneLost(files') /\ NoneMade(files')
  BY <1>1, <1>3, <1>5, RenameGrowth, RenameHolds DEF NoneLost, NoneMade
<1> QED
  BY <1>1, <1>6, HistoryRemains

\* What was under way when the process ended is not whole and never will be.
LEMMA CrashHistory ==
  ASSUME TypeInv, History, Ordered, NamesFresh, WorkOK, PairOK, Crash
  PROVE  History'
<1> DEFINE fs == Written("bad")
<1>1. files' \in Left(fs) /\ writing' = NoContent /\ UNCHANGED <<flushed, store>>
  BY DEF Crash
<1>2. Alike(fs)
  BY WrittenAlike
<1>3. \A p \in DOMAIN fs : fs[p].form # "growing"
  BY WrittenKeeps, WrittenTurns DEF TypeInv, Types, Forms, Written
<1> HIDE DEF fs
<1> DEFINE Good(gs) == /\ NoneLost(gs) /\ NoneMade(gs)
                       /\ \A p \in DOMAIN gs : gs[p].form # "growing"
<1>4. Good(fs)
  BY <1>2, <1>3, AlikeHolds DEF NoneLost, NoneMade
<1>5. ASSUME pc = "join"
      PROVE  Good(Create(fs, Path(level, Out), NoContent, "bad"))
  <2> DEFINE gs == Create(fs, Path(level, Out), NoContent, "bad")
  <2>1. NoneLost(gs) /\ NoneMade(gs)
    BY <1>2, <1>5, OutKept DEF NoneLost, NoneMade, Intact
  <2>2. \A p \in DOMAIN gs : gs[p].form # "growing"
    BY <1>3, CreateMakes, CreateOnly
  <2> HIDE DEF gs
  <2> QED
    BY <2>1, <2>2 DEF gs
<1>6. ASSUME pc = "drain"
      PROVE  Good(DrainOne(fs, unit.target[1]))
  <2> DEFINE gs == DrainOne(fs, unit.target[1])
             x == unit.target[1]
  <2>1. NoneLost(gs) /\ NoneMade(gs)
    BY <1>2, <1>6, FirstDrainHolds DEF NoneLost, NoneMade
  <2>2. Path(level, x) \in DOMAIN fs /\ x \in Items
    <3>1. 1 \in DOMAIN unit.target
      BY <1>6, ItemsTyped, RestItems DEF TypeInv, Control
    <3> QED
      BY <1>2, <3>1, ItemsTyped DEF TypeInv, TargetOK, Has, Alike
  <2>3. \A p \in DOMAIN gs : gs[p].form # "growing"
    BY <1>3, <2>2, DrainOneMoves, DrainOneOnly
  <2> HIDE DEF gs
  <2> QED
    BY <2>1, <2>3 DEF gs
<1>7. ASSUME pc = "frame"
      PROVE  Good([fs EXCEPT ![Path(level, unit.target[1])].form = "bad"])
  <2> DEFINE last == Path(level, unit.target[1])
             gs == [fs EXCEPT ![last].form = "bad"]
  <2>1. NoneLost(gs) /\ NoneMade(gs)
    BY <1>2, <1>7, FrameBadHolds, EntryPresent DEF NoneLost, NoneMade
  <2>2. last \in DOMAIN fs /\ fs[last] \in FileRecords(clock)
    BY <1>2, <1>7, LastApart DEF Has, Alike
  <2>3. \A p \in DOMAIN gs : gs[p].form # "growing"
    BY <1>3, <2>2 DEF FileRecords
  <2> HIDE DEF gs
  <2> QED
    BY <2>1, <2>3 DEF gs
<1>8. ASSUME pc = "sweep", NEW n \in DOMAIN unit.consumed
      PROVE  Good(Without(fs, {Path(level, unit.consumed[i]) : i \in 1..n}))
  <2> DEFINE gs == Without(fs, {Path(level, unit.consumed[i]) : i \in 1..n})
  <2>1. 1..n \subseteq DOMAIN unit.consumed
    <3>1. unit.consumed \in Seq(Items)
      BY ItemsTyped DEF TypeInv
    <3> QED
      BY <3>1
  <2>2. NoneLost(gs) /\ NoneMade(gs)
    BY <1>2, <1>8, <2>1, SweepHolds DEF NoneLost, NoneMade, History
  <2>3. \A p \in DOMAIN gs : gs[p].form # "growing"
    BY <1>3 DEF Without
  <2> HIDE DEF gs
  <2> QED
    BY <2>2, <2>3 DEF gs
<1> HIDE DEF Good
<1>9. Good(files')
  BY <1>1, <1>4, <1>5, <1>6, <1>7, <1>8 DEF Left
<1>10. StoreTop' /\ StoreHeld'
  BY <1>1, <1>9, HeldRemains DEF Good, History
<1>11. WritingOK'
  BY <1>1, <1>9 DEF Good, History, WritingOK, NoContent, LongKeys
<1> QED
  BY <1>10, <1>11 DEF History

LEMMA NextHistory ==
  ASSUME TypeInv, History, Ordered, WorkOK, PairOK, NamesFresh, WholeReads, [Next]_vars
  PROVE  History'
<1>1. CASE FlushBegin \/ FlushEnd \/ FlushTorn
  BY <1>1, FlushBeginHistory, FlushEndHistory, FlushTornHistory DEF History
<1>2. CASE \/ TimerExpires \/ VisitSkip \/ VisitCompact \/ BeginUnit
           \/ PromoteFails \/ Finish \/ UNCHANGED vars
  <2>1. UNCHANGED <<files, flushed, writing, store>>
    BY <1>2 DEF TimerExpires, VisitSkip, VisitCompact, BeginUnit, PromoteFails, Finish, vars
  <2> QED
    BY <2>1, FilesRemain
<1> QED
  BY <1>1, <1>2, JoinHistory, JoinFailsHistory, DrainHistory, DrainFailsHistory, FrameHistory,
     FrameFailsHistory, SweepHistory, PromoteHistory, CrashHistory DEF Next, Coordinator

-----------------------------------------------------------------------------
(* The order of the entries, action by action                              *)

LEMMA AgedRemains ==
  ASSUME WaitingOK, UnitsAged, UNCHANGED <<level, units>>, UnitsStay
  PROVE  UnitsAged'
<1>1. \A u \in DOMAIN units : \A i \in DOMAIN units[u] :
        files'[Path(level, units[u][i])].data = files[Path(level, units[u][i])].data
  BY DEF WaitingOK, UnitsStay, Stays, Has
<1> QED
  BY <1>1 DEF UnitsAged, At

LEMMA NoUnitsAged ==
  ASSUME units' = <<>>
  PROVE  UnitsAged'
<1>1. DOMAIN units' = {}
  OBVIOUS
<1> QED
  BY <1>1 DEF UnitsAged

LEMMA VisitCompactAged ==
  ASSUME TypeInv, AgesOrdered, VisitCompact
  PROVE  UnitsAged'
<1>1. /\ pc = "visit" /\ UNCHANGED <<files, level>> /\ units' = Partition(Listing)
      /\ units' # <<>> => rounds < MaxCompactions
  BY DEF VisitCompact
<1>2. CASE units' = <<>>
  BY <1>2, NoUnitsAged
<1>3. CASE units' # <<>>
  <2>1. /\ Listing \in Seq(Items)
        /\ \A i \in DOMAIN Listing : Listing[i] \in Found
        /\ \A i, j \in DOMAIN Listing :
             i < j => At(Listing[i]).created > At(Listing[j]).created
    BY ListingOrder DEF TypeInv, Types
  <2>2. /\ units' \in Seq(Seq(Items))
        /\ \A u \in DOMAIN units' :
             /\ Len(units'[u]) \in 2..TargetChunks
             /\ \A i \in DOMAIN units'[u] :
                  Place(u, i) \in DOMAIN Listing /\ units'[u][i] = Listing[Place(u, i)]
    BY <1>1, <2>1, PartitionUnits
  <2>3. ASSUME NEW u \in DOMAIN units'
        PROVE  u \in Nat \ {0} /\ DOMAIN units'[u] \subseteq 1..TargetChunks
    <3>1. units'[u] \in Seq(Items) /\ u \in Nat \ {0}
      BY <2>2
    <3>2. DOMAIN units'[u] = 1..Len(units'[u])
      BY <3>1
    <3> QED
      BY <2>2, <3>1, <3>2, ChunksAssumption
  <2>4. \A x \in Found : Path(level, x) \in Tables(level)
    BY FoundTables, PathExtension DEF Tables, Has, TypeInv, Types
  <2>5. ASSUME NEW u \in DOMAIN units', NEW i \in DOMAIN units'[u], NEW j \in DOMAIN units'[u],
               i < j, NEW k \in LongKeys,
               At(units'[u][i]).data[k] # Absent, At(units'[u][j]).data[k] # Absent
        PROVE  At(units'[u][i]).data[k].by >= At(units'[u][j]).data[k].by
    <3> DEFINE x == units'[u][i]
               y == units'[u][j]
    <3>1. Place(u, i) < Place(u, j)
      BY <2>3, <2>5, PlacesOrdered
    <3>2. x \in Found /\ y \in Found /\ At(x).created > At(y).created
      BY <2>1, <2>2, <3>1
    <3> HIDE DEF x, y
    <3>3. Path(level, x) \in Tables(level) /\ Path(level, y) \in Tables(level)
      BY <2>4, <3>2
    <3>4. At(x).data[k] # Absent /\ At(y).data[k] # Absent
      BY <2>5 DEF x, y
    <3>5. At(x).data[k].by >= At(y).data[k].by
      BY <1>1, <1>3, <3>2, <3>3, <3>4 DEF AgesOrdered, At
    <3> QED
      BY <3>5 DEF x, y
  <2> QED
    BY <1>1, <2>5 DEF UnitsAged, At
<1> QED
  BY <1>2, <1>3

LEMMA BeginUnitAged ==
  ASSUME TypeInv, UnitsAged, BeginUnit
  PROVE  UnitsAged'
<1>1. units # <<>> /\ units' = Tail(units) /\ UNCHANGED <<files, level>>
  BY DEF BeginUnit
<1>2. \A u \in DOMAIN units' : u + 1 \in DOMAIN units /\ units'[u] = units[u + 1]
  <2>1. units \in Seq(Seq(Items))
    BY DEF TypeInv, Types
  <2> QED
    BY <1>1, <2>1
<1> QED
  BY <1>1, <1>2 DEF UnitsAged, At

LEMMA NextAged ==
  ASSUME TypeInv, UnitsAged, NamesFresh, AgesOrdered, [Next]_vars
  PROVE  UnitsAged'
<1>1. CASE FlushBegin \/ FlushEnd \/ FlushTorn \/ TimerExpires \/ UNCHANGED vars
  BY <1>1, EnvironmentStays, AgedRemains DEF UnitsStay, TypeInv
<1>2. CASE VisitSkip \/ Promote
  <2>1. units' = <<>>
    BY <1>2 DEF VisitSkip, Promote, TypeInv, Control
  <2> QED
    BY <2>1, NoUnitsAged
<1>3. CASE PromoteFails \/ Finish \/ Crash
  BY <1>3, NoUnitsAged DEF PromoteFails, Finish, Crash, EndCompaction
<1>4. CASE Join \/ JoinFails
  <2>1. UNCHANGED <<level, units>>
    BY <1>4 DEF Join, JoinFails
  <2>2. UnitsStay
    <3>1. CASE files' = files
      BY <3>1 DEF UnitsStay, Stays
    <3>2. CASE files' # files
      <4>1. PICK data, form : files' = Create(files, Path(level, Out), data, form)
        BY <1>4, <3>2 DEF Join, JoinFails
      <4> QED
        BY <4>1, OutStays
    <3> QED
      BY <3>1, <3>2
  <2> QED
    BY <2>1, <2>2, AgedRemains DEF TypeInv
<1>5. CASE Drain
  BY <1>5, DrainStays, AgedRemains DEF Drain, TypeInv
<1>6. CASE DrainFails
  <2>1. /\ pc = "drain" /\ UNCHANGED <<level, units>>
        /\ files' = files \/ files' = DrainOne(files, unit.target[1])
    BY <1>6 DEF DrainFails
  <2>2. 1 \in DOMAIN unit.target
    BY <2>1, ItemsTyped, RestItems DEF TypeInv, Control
  <2>3. UnitsStay
    <3>1. CASE files' = files
      BY <3>1 DEF UnitsStay, Stays
    <3> QED
      BY <2>1, <2>2, <3>1, FirstDrainStays
  <2> QED
    BY <2>1, <2>3, AgedRemains DEF TypeInv
<1>7. CASE Frame \/ FrameFails
  <2>1. /\ pc = "frame" /\ UNCHANGED <<level, units, flushed>>
        /\ \E form \in Forms : files' = [files EXCEPT ![Path(level, unit.target[1])].form = form]
    BY <1>7 DEF Frame, FrameFails, Forms
  <2>2. UnitsStay
    BY <2>1, LastFormed
  <2> QED
    BY <2>1, <2>2, AgedRemains DEF TypeInv
<1>8. CASE Sweep \/ SweepFails
  <2>1. UNCHANGED <<level, units, flushed>>
    BY <1>8 DEF Sweep, SweepFails
  <2>2. PICK n \in 0..Len(unit.consumed) : files' = Swept(n)
    BY <1>8, SweepSwept
  <2>3. UnitsStay
    BY <2>1, <2>2, SweptTypes
  <2> QED
    BY <2>1, <2>3, AgedRemains DEF TypeInv
<1> QED
  BY <1>1, <1>2, <1>3, <1>4, <1>5, <1>6, <1>7, <1>8, VisitCompactAged, BeginUnitAged
     DEF Next, Coordinator

-----------------------------------------------------------------------------
(* The files of the unit at work, action by action                         *)

\* WorkOK and PairOK of any directory tree and any unit.
DominatedIn(fs, l, u, x) ==
  \A k \in LongKeys : fs[Path(l, x)].data[k] # Absent =>
    u.input[k] # Absent /\ fs[Path(l, x)].data[k].by <= u.input[k].by
BackedIn(fs, l, u, x) ==
  /\ fs[Path(l, x)].form \in Intact
  /\ \A k \in LongKeys : fs[Path(l, x)].data[k] # Absent =>
       \E i \in DOMAIN u.consumed :
         /\ fs[Path(l, u.consumed[i])].form \in Intact
         /\ fs[Path(l, u.consumed[i])].data[k] = fs[Path(l, x)].data[k]
WorkIn(fs, l, u) ==
  /\ \A i \in DOMAIN u.consumed :
       Path(l, u.consumed[i]) \in DOMAIN fs /\ DominatedIn(fs, l, u, u.consumed[i])
  /\ \A i \in DOMAIN u.target :
       /\ DominatedIn(fs, l, u, u.target[i])
       /\ u.target[i][2] = "tmp" => BackedIn(fs, l, u, u.target[i])
  /\ \A i \in DOMAIN u.merged :
       DominatedIn(fs, l, u, u.merged[i]) /\ BackedIn(fs, l, u, u.merged[i])

LEMMA WorkIs ==
  /\ WorkOK <=> WorkIn(files, level, unit)
  /\ WorkOK' <=> WorkIn(files', level', unit')
BY DEF WorkOK, WorkIn, Dominated, DominatedIn, Backed, BackedIn, Has, At

LEMMA NoWork ==
  ASSUME TypeInv', pc' \in {"visit", "units"}
  PROVE  WorkOK' /\ PairOK'
<1>1. unit'.target = <<>> /\ unit'.merged = <<>> /\ unit'.consumed = <<>>
  <2>1. NoUnit.target = <<>> /\ NoUnit.merged = <<>> /\ NoUnit.consumed = <<>>
    BY DEF NoUnit
  <2> QED
    BY <2>1 DEF TypeInv, Control
<1>2. DOMAIN unit'.target = {} /\ DOMAIN unit'.merged = {} /\ DOMAIN unit'.consumed = {}
  BY <1>1
<1>3. WorkIn(files', level', unit')
  BY <1>2 DEF WorkIn
<1> QED
  BY <1>3, WorkIs DEF PairOK

LEMMA WorkRemains ==
  ASSUME TypeInv, WorkOK, UNCHANGED <<level, unit>>, \A p : Stays(p)
  PROVE  WorkOK'
<1>1. \A i \in DOMAIN unit.target : Has(unit.target[i])
  BY DEF TypeInv, TargetOK
<1>2. \A i \in DOMAIN unit.merged : Has(unit.merged[i])
  BY DEF TypeInv, MergedOK
<1>3. \A i \in DOMAIN unit.consumed : Has(unit.consumed[i])
  BY DEF WorkOK
<1>4. ASSUME NEW x, Has(x)
      PROVE  /\ Path(level, x) \in DOMAIN files'
             /\ files'[Path(level, x)].data = files[Path(level, x)].data
             /\ files[Path(level, x)].form \in Intact => files'[Path(level, x)].form \in Intact
  BY <1>4 DEF Has, Stays
<1>5. WorkIn(files, level, unit)
  BY WorkIs
<1>6. ASSUME NEW x, Has(x), DominatedIn(files, level, unit, x)
      PROVE  DominatedIn(files', level, unit, x)
  BY <1>4, <1>6 DEF DominatedIn
<1>7. ASSUME NEW x, Has(x), BackedIn(files, level, unit, x)
      PROVE  BackedIn(files', level, unit, x)
  BY <1>3, <1>4, <1>7 DEF BackedIn
<1>8. WorkIn(files', level, unit)
  BY <1>1, <1>2, <1>3, <1>4, <1>5, <1>6, <1>7 DEF WorkIn
<1> QED
  BY <1>8, WorkIs

\* The pair and its output are left alone by what is not the coordinator's doing.
LEMMA PairRemains ==
  ASSUME TypeInv, PairOK, UNCHANGED <<pc, level, unit>>, \A p : Stays(p)
  PROVE  PairOK'
<1> SUFFICES ASSUME pc = "drain"
             PROVE  PairOK'
  BY DEF PairOK
<1>1. /\ 1 \in DOMAIN unit.target /\ 2 \in DOMAIN unit.target
      /\ Has(unit.target[1]) /\ Has(unit.target[2]) /\ Has(Out)
  BY ItemsTyped, RestItems DEF TypeInv, Control, TargetOK, OutOK
<1>2. Out' = Out
  BY DEF Out, OutName
<1>3. ASSUME NEW x, Has(x)
      PROVE  /\ files'[Path(level, x)].data = files[Path(level, x)].data
             /\ files[Path(level, x)].form \in Intact => files'[Path(level, x)].form \in Intact
  BY <1>3 DEF Has, Stays
<1>4. \A n \in 1..2 : Has(unit.target[n])
  BY <1>1
<1> QED
  BY <1>1, <1>2, <1>3, <1>4 DEF PairOK, At

LEMMA FramesStay ==
  ASSUME TypeInv, Frame
  PROVE  UNCHANGED <<level, unit>> /\ pc' = "sweep" /\ \A p : Stays(p)
BY LastFormed DEF Frame, Forms, Intact

\* The tables of a unit in the order of their entries: the first has the newest.
LEMMA BeginUnitWork ==
  ASSUME TypeInv, UnitsAged, BeginUnit
  PROVE  WorkOK' /\ PairOK'
<1> DEFINE head == units[1]
<1>1. /\ units # <<>> /\ pc' = "join" /\ UNCHANGED <<files, level>>
      /\ unit' = [NoUnit EXCEPT !.id = unit.id, !.target = Head(units),
                                !.input = Overlay(Head(units))]
  BY DEF BeginUnit
<1>2. 1 \in DOMAIN units /\ Head(units) = head
  BY <1>1 DEF TypeInv, Types
<1>3. /\ head \in Seq(Items)
      /\ \A i \in DOMAIN head : head[i][2] = "bin" /\ Has(head[i])
  BY <1>2, ItemsTyped DEF TypeInv, WaitingOK
<1>4. ASSUME NEW i \in DOMAIN head, NEW j \in DOMAIN head, i < j, NEW k \in LongKeys,
             At(head[i]).data[k] # Absent, At(head[j]).data[k] # Absent
      PROVE  At(head[i]).data[k].by >= At(head[j]).data[k].by
  BY <1>2, <1>4 DEF UnitsAged
<1>5. \A i \in DOMAIN head, k \in LongKeys :
        At(head[i]).data[k] # Absent => At(head[i]).data[k].by \in Int
  BY <1>3 DEF TypeInv, Types, Directory, FileRecords, Content, Entry, LongKeys, At, Has
<1> HIDE DEF head
<1>6. /\ unit'.merged = <<>> /\ unit'.target = head /\ unit'.consumed = <<>>
      /\ unit'.input = Overlay(head)
  BY <1>1, <1>2 DEF NoUnit
<1>7. ASSUME NEW i \in DOMAIN head, NEW k \in LongKeys, At(head[i]).data[k] # Absent
      PROVE  /\ unit'.input[k] # Absent
             /\ At(head[i]).data[k].by <= unit'.input[k].by
  <2>1. k \in Keys
    BY DEF LongKeys
  <2>2. PICK j \in DOMAIN head :
          /\ At(head[j]).data[k] # Absent
          /\ \A m \in DOMAIN head : m < j => At(head[m]).data[k] = Absent
          /\ Overlay(head)[k] = At(head[j]).data[k]
    BY <1>3, <1>7, <2>1, OverlayCases, OverlayIsOf DEF At
  <2>3. i \in Int /\ j \in Int
    BY <1>3, ItemAt
  <2>4. ~(i < j)
    BY <1>7, <2>2
  <2>5. CASE i = j
    BY <1>5, <1>6, <1>7, <2>2, <2>5
  <2>6. CASE j < i
    BY <1>4, <1>5, <1>6, <1>7, <2>2, <2>6
  <2> QED
    BY <2>3, <2>4, <2>5, <2>6
<1>8. DOMAIN unit'.merged = {} /\ DOMAIN unit'.consumed = {}
  BY <1>6
<1>9. \A i \in DOMAIN unit'.target : unit'.target[i][2] # "tmp"
  BY <1>3, <1>6
<1>10. \A i \in DOMAIN unit'.target : DominatedIn(files', level', unit', unit'.target[i])
  BY <1>1, <1>6, <1>7 DEF DominatedIn, At
<1>11. WorkIn(files', level', unit')
  BY <1>8, <1>9, <1>10 DEF WorkIn
<1> QED
  BY <1>1, <1>11, WorkIs DEF PairOK

LEMMA JoinWork ==
  ASSUME TypeInv, WorkOK, NamesFresh, WholeReads, Join
  PROVE  WorkOK' /\ PairOK'
<1> DEFINE d == At(unit.target[1]).data
           e == At(unit.target[2]).data
           out == Path(level, Out)
<1>1. /\ pc = "join" /\ UNCHANGED <<level, unit>>
      /\ 1 \in DOMAIN unit.target /\ 2 \in DOMAIN unit.target
      /\ At(unit.target[1]).form \notin {"growing", "bad"}
      /\ At(unit.target[2]).form \notin {"growing", "bad"}
      /\ files' = Create(files, out, Joined(d, e), "raw")
  BY JoinStep
<1>2. out \notin DOMAIN files /\ Out' = Out
  BY <1>1 DEF NamesFresh, Has, Out, OutName
<1>3. \A p \in DOMAIN files : p \in DOMAIN files' /\ files'[p] = files[p]
  BY <1>1, <1>2, CreateKeeps
<1>4. \A p : Stays(p)
  BY <1>3 DEF Stays
<1>5. \A n \in 1..2 : Path(level, unit.target[n]) \in DOMAIN files
  BY <1>1 DEF TypeInv, TargetOK, Has
<1>6. \A n \in 1..2 : At(unit.target[n]).form \in Intact
  <2>1. \A n \in 1..2 : At(unit.target[n]).form \in Forms
    BY <1>5 DEF TypeInv, Types, Directory, FileRecords, At
  <2> QED
    BY <1>1, <2>1 DEF Forms, Intact
<1>7. files'[out].data = Joined(d, e) /\ files'[out].form = "raw"
  BY <1>1, CreateMakes
<1>8. \A n \in 1..2 : files'[Path(level, unit.target[n])] = At(unit.target[n])
  BY <1>3, <1>5 DEF At
<1>9. ASSUME NEW k \in LongKeys
      PROVE  \E n \in 1..2 :
               files'[Path(level, unit.target[n])].data[k] = files'[out].data[k]
  <2>1. Joined(d, e)[k] = d[k] \/ Joined(d, e)[k] = e[k]
    BY JoinedLong
  <2> QED
    BY <1>7, <1>8, <2>1
<1>10. PairOK'
  <2>1. /\ files'[out].form \in Intact
        /\ files'[Path(level, unit.target[1])].form \in Intact
        /\ files'[Path(level, unit.target[2])].form \in Intact
    BY <1>6, <1>7, <1>8 DEF Intact
  <2>2. Path(level, Out)' = out
    BY <1>1, <1>2
  <2> HIDE DEF out
  <2> QED
    BY <1>1, <1>9, <2>1, <2>2, Zenon DEF PairOK, At
<1> QED
  BY <1>1, <1>4, <1>10, WorkRemains

\* A drain moves the pair to names of their own, and nothing else.
LEMMA PairAlone ==
  ASSUME TypeInv, NamesFresh, PairOK, pc = "drain", NEW q \in DOMAIN files,
         q # Path(level, unit.target[1]), q # Path(level, unit.target[2])
  PROVE  q \in DOMAIN PairDrained /\ PairDrained[q] = files[q]
<1> DEFINE gs == DrainOne(files, unit.target[1])
           l == unit.target[1]
           r == unit.target[2]
<1>1. 1 \in 1..2 /\ 2 \in 1..2
  OBVIOUS
<1>2. /\ l[2] = "bin" => q # Path(level, l) /\ q # Path(level, Drained(l))
      /\ r[2] = "bin" => q # Path(level, r) /\ q # Path(level, Drained(r))
  BY <1>1, PairAtHand
<1> HIDE DEF l, r
<1>3. q \in DOMAIN gs /\ gs[q] = files[q]
  BY <1>2, DrainOneKeeps DEF l
<1> HIDE DEF gs
<1>4. q \in DOMAIN DrainOne(gs, r) /\ DrainOne(gs, r)[q] = gs[q]
  BY <1>2, <1>3, DrainOneKeeps
<1> QED
  BY <1>3, <1>4 DEF gs, l, r, PairDrained

\* What a unit has consumed after a drain: what it had before, and the pair.
LEMMA ConsumedNow ==
  ASSUME TypeInv, Drain
  PROVE  /\ \A j \in DOMAIN unit.consumed :
              j \in DOMAIN unit'.consumed /\ unit'.consumed[j] = unit.consumed[j]
         /\ \A n \in 1..2 : \E m \in DOMAIN unit'.consumed :
              unit'.consumed[m] = Drained(unit.target[n])
         /\ \A i \in DOMAIN unit'.consumed :
              \/ \E j \in DOMAIN unit.consumed : unit'.consumed[i] = unit.consumed[j]
              \/ \E n \in 1..2 : unit'.consumed[i] = Drained(unit.target[n])
<1> DEFINE s == unit.consumed
           t == DrainedNow
<1>1. /\ unit.target[1] \in Items /\ unit.target[2] \in Items /\ s \in Seq(Items)
      /\ unit'.consumed = s \o t
  BY DrainStep, ItemsTyped DEF TypeInv
<1>2. /\ t \in Seq(Items) /\ DOMAIN t = {1, 2}
      /\ t[1] = Drained(unit.target[1]) /\ t[2] = Drained(unit.target[2])
  BY <1>1, DrainedNowItems
<1> HIDE DEF s, t
<1> DEFINE c == s \o t
<1>3. /\ \A j \in DOMAIN s : j \in DOMAIN c /\ c[j] = s[j]
      /\ \A n \in DOMAIN t : Len(s) + n \in DOMAIN c /\ c[Len(s) + n] = t[n]
      /\ \A i \in DOMAIN c :
           (i \in DOMAIN s /\ c[i] = s[i])
             \/ (i - Len(s) \in DOMAIN t /\ c[i] = t[i - Len(s)])
  BY <1>1, <1>2, ConcatItems
<1> HIDE DEF c
<1>4. {1, 2} = 1..2
  OBVIOUS
<1>5. \A n \in 1..2 : n \in DOMAIN t /\ t[n] = Drained(unit.target[n])
  BY <1>2, <1>4
<1>6. \A n \in 1..2 : \E m \in DOMAIN c : c[m] = Drained(unit.target[n])
  BY <1>3, <1>5
<1>7. \A n \in DOMAIN t : n \in 1..2
  BY <1>2, <1>4
<1>8. \A i \in DOMAIN c :
        \/ \E j \in DOMAIN s : c[i] = s[j]
        \/ \E n \in 1..2 : c[i] = Drained(unit.target[n])
  BY <1>3, <1>5, <1>7
<1>9. unit'.consumed = c
  BY <1>1 DEF c
<1> QED
  BY <1>3, <1>6, <1>8, <1>9 DEF s

\* A drained file holds what it held; so does what was drained before.
LEMMA DrainedHold ==
  ASSUME TypeInv, NamesFresh, WorkOK, PairOK, Drain
  PROVE  /\ \A j \in DOMAIN unit.consumed :
              /\ Path(level, unit.consumed[j]) \in DOMAIN files'
              /\ files'[Path(level, unit.consumed[j])] = files[Path(level, unit.consumed[j])]
         /\ \A n \in 1..2 :
              /\ n \in DOMAIN unit.target
              /\ Path(level, Drained(unit.target[n])) \in DOMAIN files'
              /\ files'[Path(level, Drained(unit.target[n]))] = files[Path(level, unit.target[n])]
              /\ files[Path(level, unit.target[n])].form \in Intact
<1>1. /\ pc = "drain" /\ 1 \in DOMAIN unit.target /\ 2 \in DOMAIN unit.target
      /\ files' = PairDrained
  BY DrainStep
<1>2. ASSUME NEW j \in DOMAIN unit.consumed
      PROVE  /\ Path(level, unit.consumed[j]) \in DOMAIN files'
             /\ files'[Path(level, unit.consumed[j])] = files[Path(level, unit.consumed[j])]
  <2>1. /\ unit.consumed[j] \in Items /\ unit.target[1] \in Items /\ unit.target[2] \in Items
        /\ Path(level, unit.consumed[j]) \in DOMAIN files
    BY <1>1, ItemsTyped DEF TypeInv, WorkOK, Has
  <2>2. unit.consumed[j] # unit.target[1] /\ unit.consumed[j] # unit.target[2]
    BY <1>1 DEF TypeInv, ConsumedOK
  <2>3. /\ Path(level, unit.consumed[j]) # Path(level, unit.target[1])
        /\ Path(level, unit.consumed[j]) # Path(level, unit.target[2])
    BY <2>1, <2>2, PathInjective
  <2> QED
    BY <1>1, <2>1, <2>3, PairAlone
<1>3. ASSUME NEW n \in 1..2
      PROVE  /\ n \in DOMAIN unit.target
             /\ Path(level, Drained(unit.target[n])) \in DOMAIN files'
             /\ files'[Path(level, Drained(unit.target[n]))] = files[Path(level, unit.target[n])]
             /\ files[Path(level, unit.target[n])].form \in Intact
  BY <1>1, PairAtHand, PairMoves
<1> QED
  BY <1>2, <1>3

\* What a drain leaves to the unit: the outputs of the pass and the rest.
DrainItem(x) ==
  \/ \E i \in DOMAIN MergedNow : x = MergedNow[i]
  \/ \E i \in DOMAIN Rest : x = Rest[i]

LEMMA DrainItems ==
  ASSUME TypeInv, Drain
  PROVE  /\ \A i \in DOMAIN unit'.target : DrainItem(unit'.target[i])
         /\ \A i \in DOMAIN unit'.merged :
              DrainItem(unit'.merged[i]) /\ unit'.merged[i][2] = "tmp"
<1>1. MergedNow \in Seq(Items) /\ Rest \in Seq(Items)
  BY DrainStep
<1>2. \A i \in DOMAIN MergedNow : MergedNow[i][2] = "tmp"
  BY NowItems DEF Tmp
<1>3. CASE unit'.target = Rest /\ unit'.merged = MergedNow
  BY <1>2, <1>3 DEF DrainItem
<1>4. CASE unit'.target = MergedNow \o Rest /\ unit'.merged = <<>>
  <2>1. \A i \in DOMAIN (MergedNow \o Rest) : DrainItem((MergedNow \o Rest)[i])
    BY <1>1, ConcatItems DEF DrainItem
  <2>2. DOMAIN unit'.merged = {}
    BY <1>4
  <2> QED
    BY <1>4, <2>1, <2>2
<1> QED
  BY <1>3, <1>4, DrainStep

\* The items that are left were the unit's before, or are the output of the join.
LEMMA DrainItemWas ==
  ASSUME TypeInv, Drain, NEW x, DrainItem(x)
  PROVE  /\ files'[Path(level, x)] = files[Path(level, x)]
         /\ \/ \E i \in DOMAIN unit.merged : x = unit.merged[i]
            \/ \E i \in DOMAIN unit.target : x = unit.target[i]
            \/ x = Out
<1>1. files'[Path(level, x)] = files[Path(level, x)]
  BY DrainKeeps DEF DrainItem
<1>2. /\ unit.merged \in Seq(Items) /\ Out \in Items
      /\ unit.target \in Seq(Items) /\ Len(unit.target) >= 2
  BY ItemsTyped DEF Drain, TypeInv, Control
<1>3. ASSUME NEW i \in DOMAIN MergedNow
      PROVE  (\E j \in DOMAIN unit.merged : MergedNow[i] = unit.merged[j]) \/ MergedNow[i] = Out
  BY <1>2, AppendItems DEF MergedNow
<1>4. ASSUME NEW i \in DOMAIN Rest
      PROVE  \E j \in DOMAIN unit.target : Rest[i] = unit.target[j]
  BY <1>2, RestItems DEF Rest
<1> QED
  BY <1>1, <1>3, <1>4 DEF DrainItem

LEMMA DrainWork ==
  ASSUME TypeInv, WorkOK, PairOK, NamesFresh, Drain
  PROVE  WorkOK' /\ PairOK'
<1>1. /\ level' = level /\ pc = "drain" /\ pc' # "drain" /\ unit'.input = unit.input
  BY DrainStep
<1>2. WorkIn(files, level, unit)
  BY WorkIs
<1> DEFINE g(x) == files'[Path(level, x)]
           f(x) == files[Path(level, x)]
<1>3. \A n \in 1..2 :
        /\ n \in DOMAIN unit.target /\ f(unit.target[n]).form \in Intact
        /\ Path(level, Drained(unit.target[n])) \in DOMAIN files'
        /\ g(Drained(unit.target[n])) = f(unit.target[n])
  BY DrainedHold
<1>4. \A j \in DOMAIN unit.consumed :
        Path(level, unit.consumed[j]) \in DOMAIN files' /\ g(unit.consumed[j]) = f(unit.consumed[j])
  BY DrainedHold
<1>5. ASSUME NEW i \in DOMAIN unit'.consumed
      PROVE  /\ Path(level, unit'.consumed[i]) \in DOMAIN files'
             /\ DominatedIn(files', level, unit', unit'.consumed[i])
  <2> DEFINE x == unit'.consumed[i]
  <2>1. ASSUME NEW j \in DOMAIN unit.consumed, x = unit.consumed[j]
        PROVE  Path(level, x) \in DOMAIN files' /\ DominatedIn(files', level, unit', x)
    <3>1. /\ DominatedIn(files, level, unit, unit.consumed[j])
          /\ Path(level, unit.consumed[j]) \in DOMAIN files'
          /\ files'[Path(level, unit.consumed[j])] = files[Path(level, unit.consumed[j])]
      BY <1>2, <1>4 DEF WorkIn
    <3> HIDE DEF x
    <3> QED
      BY <1>1, <2>1, <3>1 DEF DominatedIn
  <2>2. ASSUME NEW n \in 1..2, x = Drained(unit.target[n])
        PROVE  Path(level, x) \in DOMAIN files' /\ DominatedIn(files', level, unit', x)
    <3>1. /\ DominatedIn(files, level, unit, unit.target[n])
          /\ Path(level, Drained(unit.target[n])) \in DOMAIN files'
          /\ files'[Path(level, Drained(unit.target[n]))] = files[Path(level, unit.target[n])]
      BY <1>2, <1>3 DEF WorkIn
    <3> HIDE DEF x
    <3> QED
      BY <1>1, <2>2, <3>1 DEF DominatedIn
  <2> QED
    BY <2>1, <2>2, ConsumedNow
<1>6. ASSUME NEW k \in LongKeys, NEW e,
             \/ \E j \in DOMAIN unit.consumed :
                  f(unit.consumed[j]).form \in Intact /\ f(unit.consumed[j]).data[k] = e
             \/ \E n \in 1..2 : f(unit.target[n]).data[k] = e
      PROVE  \E i \in DOMAIN unit'.consumed :
               g(unit'.consumed[i]).form \in Intact /\ g(unit'.consumed[i]).data[k] = e
  <2>1. CASE \E j \in DOMAIN unit.consumed :
               f(unit.consumed[j]).form \in Intact /\ f(unit.consumed[j]).data[k] = e
    BY <1>4, <2>1, ConsumedNow
  <2>2. ASSUME NEW n \in 1..2, f(unit.target[n]).data[k] = e
        PROVE  \E i \in DOMAIN unit'.consumed :
                 g(unit'.consumed[i]).form \in Intact /\ g(unit'.consumed[i]).data[k] = e
    <3>1. PICK m \in DOMAIN unit'.consumed : unit'.consumed[m] = Drained(unit.target[n])
      BY ConsumedNow
    <3> QED
      BY <1>3, <2>2, <3>1
  <2> QED
    BY <1>6, <2>1, <2>2
<1>7. /\ f(Out).form \in Intact
      /\ \A k \in LongKeys : f(Out).data[k] # Absent =>
           \E n \in 1..2 : f(unit.target[n]).data[k] = f(Out).data[k]
  BY <1>1 DEF PairOK, At
<1>8. ASSUME NEW x, DrainItem(x)
      PROVE  /\ DominatedIn(files', level, unit', x)
             /\ x[2] = "tmp" => BackedIn(files', level, unit', x)
  <2>1. g(x) = f(x)
    BY <1>8, DrainItemWas
  <2>2. CASE x = Out
    <3>1. DominatedIn(files', level, unit', x)
      <4>1. \A n \in 1..2 : DominatedIn(files, level, unit, unit.target[n])
        BY <1>2, <1>3 DEF WorkIn
      <4>2. DominatedIn(files, level, unit, Out)
        <5> SUFFICES ASSUME NEW k \in LongKeys, f(Out).data[k] # Absent
                     PROVE  unit.input[k] # Absent /\ f(Out).data[k].by <= unit.input[k].by
          BY DEF DominatedIn
        <5>1. PICK n \in 1..2 : f(unit.target[n]).data[k] = f(Out).data[k]
          BY <1>7
        <5> QED
          BY <4>1, <5>1 DEF DominatedIn
      <4> QED
        BY <1>1, <2>1, <2>2, <4>2 DEF DominatedIn
    <3>2. ASSUME NEW k \in LongKeys, g(x).data[k] # Absent
          PROVE  \E i \in DOMAIN unit'.consumed :
                   g(unit'.consumed[i]).form \in Intact /\ g(unit'.consumed[i]).data[k] = g(x).data[k]
      <4>1. \E n \in 1..2 : f(unit.target[n]).data[k] = g(x).data[k]
        BY <1>7, <2>1, <2>2, <3>2
      <4> QED
        BY <1>6, <4>1
    <3>3. BackedIn(files', level, unit', x)
      BY <1>7, <2>1, <2>2, <3>2 DEF BackedIn
    <3> QED
      BY <3>1, <3>3
  <2>3. CASE \/ \E i \in DOMAIN unit.merged : x = unit.merged[i]
             \/ \E i \in DOMAIN unit.target : x = unit.target[i]
    <3>1. DominatedIn(files, level, unit, x) /\ (x[2] = "tmp" => BackedIn(files, level, unit, x))
      BY <1>2, <2>3 DEF WorkIn
    <3>2. DominatedIn(files', level, unit', x)
      BY <1>1, <2>1, <3>1 DEF DominatedIn
    <3>3. ASSUME BackedIn(files, level, unit, x), NEW k \in LongKeys, g(x).data[k] # Absent
          PROVE  \E i \in DOMAIN unit'.consumed :
                   g(unit'.consumed[i]).form \in Intact /\ g(unit'.consumed[i]).data[k] = g(x).data[k]
      <4>1. \E j \in DOMAIN unit.consumed :
              f(unit.consumed[j]).form \in Intact /\ f(unit.consumed[j]).data[k] = g(x).data[k]
        BY <2>1, <3>3 DEF BackedIn
      <4> QED
        BY <1>6, <4>1
    <3>4. BackedIn(files, level, unit, x) => BackedIn(files', level, unit', x)
      BY <2>1, <3>3 DEF BackedIn
    <3> QED
      BY <3>1, <3>2, <3>4
  <2> QED
    BY <1>8, <2>2, <2>3, DrainItemWas
<1>9. WorkIn(files', level, unit')
  BY <1>5, <1>8, DrainItems DEF WorkIn
<1> QED
  BY <1>1, <1>9, WorkIs DEF PairOK

LEMMA NextWork ==
  ASSUME TypeInv, TypeInv', WorkOK, PairOK, UnitsAged, NamesFresh, WholeReads, [Next]_vars
  PROVE  WorkOK' /\ PairOK'
<1>1. CASE FlushBegin \/ FlushEnd \/ FlushTorn \/ TimerExpires \/ UNCHANGED vars
  BY <1>1, EnvironmentStays, WorkRemains, PairRemains
<1>2. CASE \/ VisitSkip \/ VisitCompact \/ JoinFails \/ DrainFails \/ FrameFails \/ Sweep
           \/ SweepFails \/ Promote \/ PromoteFails \/ Finish \/ Crash
  BY <1>2, LeavesUnit, NoWork
<1>3. CASE Frame
  BY <1>3, FramesStay, WorkRemains DEF PairOK
<1> QED
  BY <1>1, <1>2, <1>3, BeginUnitWork, JoinWork, DrainWork DEF Next, Coordinator

LEMMA InitErasure == Init => ErasureInv
<1> SUFFICES ASSUME Init
             PROVE  ErasureInv
  OBVIOUS
<1>1. /\ files = <<>> /\ writing = NoContent /\ store = NoContent /\ units = <<>>
      /\ unit = NoUnit /\ pc = "visit"
  BY DEF Init
<1>2. /\ DOMAIN files = {} /\ DOMAIN units = {}
      /\ DOMAIN NoUnit.target = {} /\ DOMAIN NoUnit.merged = {} /\ DOMAIN NoUnit.consumed = {}
  BY <1>1 DEF NoUnit
<1>3. \A k \in LongKeys : NoContent[k] = Absent
  BY DEF NoContent, LongKeys
<1>4. WritingOK
  BY <1>1, <1>2, <1>3 DEF WritingOK
<1>5. StoreTop /\ StoreHeld
  BY <1>1, <1>2, <1>3 DEF StoreTop, StoreHeld, Holds
<1>6. UnitsAged /\ WorkOK /\ PairOK
  BY <1>1, <1>2 DEF UnitsAged, WorkOK, PairOK
<1> QED
  BY <1>4, <1>5, <1>6 DEF ErasureInv

LEMMA NextErasure ==
  ASSUME TypeInv, TypeInv', Ordered, ErasureInv, NamesFresh, AgesOrdered, WholeReads,
         [Next]_vars
  PROVE  ErasureInv'
<1>1. History'
  BY NextHistory DEF ErasureInv, History
<1>2. UnitsAged'
  BY NextAged DEF ErasureInv
<1>3. WorkOK' /\ PairOK'
  BY NextWork DEF ErasureInv
<1> QED
  BY <1>1, <1>2, <1>3 DEF ErasureInv, History

LEMMA AlwaysErasure ==
  WholeReads => (Spec /\ [](NamesFresh /\ AgesOrdered) => []ErasureInv)
<1> SUFFICES ASSUME WholeReads
             PROVE  Spec /\ [](NamesFresh /\ AgesOrdered) => []ErasureInv
  OBVIOUS
<1>1. /\ TypeInv /\ TypeInv' /\ Ordered /\ ErasureInv /\ NamesFresh /\ AgesOrdered
      /\ [Next]_vars
      => ErasureInv'
  BY NextErasure
<1>2. Spec => []Ordered
  BY AlwaysOrdered
<1> QED
  BY <1>1, <1>2, InitErasure, AlwaysTyped, PTL DEF Spec

\* If joins read only what is whole, no file name repeats and the tables of a
\* level are in the order of their entries when a compaction begins, then the
\* newest flushed entry of every key of two bytes or more is always in some
\* intact file, wherever the process ends and whatever operation fails.
THEOREM ErasesNothing ==
  WholeReads => (Spec /\ [](NamesFresh /\ AgesOrdered) => []NothingErased)
<1>1. ErasureInv => NothingErased
  BY NothingErasedIs DEF ErasureInv
<1> QED
  BY <1>1, AlwaysErasure, PTL

-----------------------------------------------------------------------------
(* The first compaction: names do not repeat, tables are in order          *)

TableNames == {<<"table", n>> : n \in Nat}

\* The names of the outputs there were so far in the compaction.
Used(name) ==
  \E a, b, c \in Nat :
    /\ name = <<"unit", a, b, c>>
    /\ \/ a < unit.id
       \/ /\ a = unit.id /\ AtUnit
          /\ \/ b < unit.pass
             \/ b = unit.pass /\ c < unit.pair
             \/ b = unit.pass /\ c = unit.pair /\ pc = "drain"

AtWork == units # <<>> \/ AtUnit

\* Before any compaction there are the tables of the flushes, in their order.
OnlyFlushed ==
  rounds = 0 =>
    /\ ~AtWork /\ outputs = <<>>
    /\ \A p \in DOMAIN files : \E n \in 1..flushed : p = TablePath(n)
    /\ \A n \in 1..flushed, k \in LongKeys :
         TablePath(n) \in DOMAIN files /\ files[TablePath(n)].data[k] # Absent =>
           files[TablePath(n)].data[k].by = n
    /\ \A n, m \in 1..flushed :
         /\ TablePath(n) \in DOMAIN files /\ TablePath(m) \in DOMAIN files
         /\ files[TablePath(n)].created > files[TablePath(m)].created
         => n >= m

\* While units are compacted there are tables, and outputs of the joins so far.
WorkNames ==
  AtWork => \A p \in DOMAIN files :
    p[2] \in TableNames \/ (p[1] = level /\ p[3] = "tmp" /\ Used(p[2]))

\* The place an output is promoted to is free.
OutputsFree ==
  \A i \in DOMAIN outputs : Path(level + 1, <<outputs[i][1], "bin">>) \notin DOMAIN files

\* No table was drained under a name that a table still has.
DrainedApart ==
  \A p, q \in DOMAIN files :
    p[1] = q[1] /\ p[2] = q[2] /\ p[2] \in TableNames /\ p[3] = "bin" => q[3] # "drain"

FirstInv == OnlyFlushed /\ WorkNames /\ OutputsFree /\ DrainedApart

LEMMA UnitNames ==
  ASSUME NEW a, NEW b, NEW c
  PROVE  <<"unit", a, b, c>> \notin TableNames
<1> SUFFICES ASSUME NEW n \in Nat, <<"unit", a, b, c>> = <<"table", n>>
             PROVE  FALSE
  BY DEF TableNames
<1>1. <<"unit", a, b, c>>[1] = "unit" /\ <<"table", n>>[1] = "table"
  OBVIOUS
<1> QED
  BY <1>1

LEMMA FirstNamesFresh ==
  ASSUME TypeInv, FirstInv
  PROVE  NamesFresh
<1>1. ASSUME pc = "join", Has(Out)
      PROVE  FALSE
  <2> DEFINE p == Path(level, Out)
  <2>1. p \in DOMAIN files /\ p[2] = <<"unit", unit.id, unit.pass, unit.pair>>
    BY <1>1, PathExtension DEF Has, Out, OutName
  <2>2. AtWork
    BY <1>1 DEF AtWork, AtUnit
  <2>3. p[2] \notin TableNames
    BY <2>1, UnitNames
  <2>4. Used(p[2])
    BY <2>1, <2>2, <2>3 DEF FirstInv, WorkNames
  <2>5. PICK a \in Nat, b \in Nat, c \in Nat :
          /\ p[2] = <<"unit", a, b, c>>
          /\ \/ a < unit.id
             \/ /\ a = unit.id /\ AtUnit
                /\ \/ b < unit.pass
                   \/ b = unit.pass /\ c < unit.pair
                   \/ b = unit.pass /\ c = unit.pair /\ pc = "drain"
    BY <2>4 DEF Used
  <2>6. a = unit.id /\ b = unit.pass /\ c = unit.pair
    BY <2>1, <2>5
  <2>7. unit.id \in Nat /\ unit.pass \in Nat /\ unit.pair \in Nat
    BY ItemsTyped DEF TypeInv
  <2> QED
    BY <1>1, <2>5, <2>6, <2>7
<1>2. ASSUME pc = "drain", NEW n \in 1..2, unit.target[n][2] = "bin",
             Has(Drained(unit.target[n]))
      PROVE  FALSE
  <2> DEFINE x == unit.target[n]
             p == Path(level, x)
             q == Path(level, Drained(x))
  <2>1. n \in DOMAIN unit.target
    BY <1>2, ItemsTyped, RestItems DEF TypeInv, Control
  <2>2. p \in DOMAIN files /\ q \in DOMAIN files
    BY <1>2, <2>1 DEF TypeInv, TargetOK, Has
  <2>3. p[1] = q[1] /\ p[2] = q[2] /\ p[3] = "bin" /\ q[3] = "drain"
    BY <1>2, PathExtension DEF Drained
  <2>4. AtWork
    BY <1>2 DEF AtWork, AtUnit
  <2>5. p[2] \in TableNames
    BY <2>2, <2>3, <2>4 DEF FirstInv, WorkNames
  <2> QED
    BY <2>2, <2>3, <2>5 DEF FirstInv, DrainedApart
<1>3. ASSUME outputs # <<>>
      PROVE  Path(level + 1, <<Head(outputs)[1], "bin">>) \notin DOMAIN files
  <2>1. 1 \in DOMAIN outputs /\ Head(outputs) = outputs[1]
    BY <1>3, ItemsTyped DEF TypeInv
  <2> QED
    BY <2>1 DEF FirstInv, OutputsFree
<1> QED
  BY <1>1, <1>2, <1>3 DEF NamesFresh

LEMMA FirstAgesOrdered ==
  ASSUME TypeInv, FirstInv, MaxCompactions <= 1
  PROVE  AgesOrdered
<1> SUFFICES ASSUME rounds < MaxCompactions, NEW p \in Tables(level), NEW q \in Tables(level),
                    NEW k \in LongKeys, files[p].created > files[q].created,
                    files[p].data[k] # Absent, files[q].data[k] # Absent
             PROVE  files[p].data[k].by >= files[q].data[k].by
  BY DEF AgesOrdered
<1>1. rounds = 0
  BY BoundsAssumption DEF TypeInv, Types
<1>2. PICK n \in 1..flushed : p = TablePath(n)
  BY <1>1 DEF FirstInv, OnlyFlushed, Tables
<1>3. PICK m \in 1..flushed : q = TablePath(m)
  BY <1>1 DEF FirstInv, OnlyFlushed, Tables
<1>4. p \in DOMAIN files /\ q \in DOMAIN files
  BY DEF Tables
<1>5. n >= m /\ files[p].data[k].by = n /\ files[q].data[k].by = m
  BY <1>1, <1>2, <1>3, <1>4 DEF FirstInv, OnlyFlushed
<1> QED
  BY <1>5

\* The files a step brings into being.
NewFile(q) ==
  \/ q = TablePath(flushed + 1) /\ FlushBegin
  \/ q = Path(level, Out) /\ pc = "join" /\ (Join \/ JoinFails \/ Crash)
  \/ /\ pc = "drain" /\ (Drain \/ DrainFails \/ Crash)
     /\ \E n \in 1..2 :
          /\ n \in DOMAIN unit.target /\ unit.target[n][2] = "bin"
          /\ q = Path(level, Drained(unit.target[n]))
          /\ Path(level, unit.target[n]) \notin DOMAIN files'
  \/ q = Path(level + 1, <<outputs[1][1], "bin">>) /\ Promote

\* After a rename the old name is free.
LEMMA DrainOneFrees ==
  ASSUME NEW fs, NEW x, x[2] = "bin"
  PROVE  Path(level, x) \notin DOMAIN DrainOne(fs, x)
<1>1. Path(level, x) # Path(level, Drained(x))
  <2>1. Path(level, x)[3] = "bin" /\ Path(level, Drained(x))[3] = "drain"
    BY PathExtension DEF Drained
  <2> QED
    BY <2>1
<1> QED
  BY <1>1, RenameOnly DEF DrainOne

LEMMA DrainFrees ==
  ASSUME TypeInv, Drain, NEW n \in 1..2, unit.target[n][2] = "bin"
  PROVE  Path(level, unit.target[n]) \notin DOMAIN files'
<1> DEFINE gs == DrainOne(files, unit.target[1])
           l == unit.target[1]
           r == unit.target[2]
<1>1. files' = DrainOne(gs, r)
  BY DrainStep DEF PairDrained
<1>2. CASE n = 2
  BY <1>1, <1>2, DrainOneFrees
<1>3. CASE n = 1
  <2> SUFFICES ASSUME Path(level, l) \in DOMAIN files'
               PROVE  FALSE
    BY <1>3
  <2>1. r[2] = "bin" => Path(level, l) # Path(level, Drained(r))
    <3>1. r[2] = "bin" => Path(level, l)[3] = "bin" /\ Path(level, Drained(r))[3] = "drain"
      BY <1>3, PathExtension DEF Drained
    <3> QED
      BY <3>1
  <2>2. Path(level, l) \notin DOMAIN gs
    BY <1>3, DrainOneFrees
  <2> HIDE DEF gs, l, r
  <2> QED
    BY <1>1, <2>1, <2>2, DrainOneOnly
<1> QED
  BY <1>2, <1>3

LEMMA DrainComes ==
  ASSUME TypeInv, Drain, NEW q \in DOMAIN files'
  PROVE  q \in DOMAIN files \/ NewFile(q)
<1> DEFINE gs == DrainOne(files, unit.target[1])
           l == unit.target[1]
           r == unit.target[2]
<1>1. /\ pc = "drain" /\ 1 \in DOMAIN unit.target /\ 2 \in DOMAIN unit.target
      /\ files' = DrainOne(gs, r)
  BY DrainStep DEF PairDrained
<1>2. 1 \in 1..2 /\ 2 \in 1..2
  OBVIOUS
<1>3. r[2] = "bin" => Path(level, r) \notin DOMAIN files'
  BY <1>2, DrainFrees
<1>4. l[2] = "bin" => Path(level, l) \notin DOMAIN files'
  BY <1>2, DrainFrees
<1>5. CASE r[2] = "bin" /\ q = Path(level, Drained(r))
  BY <1>1, <1>2, <1>3, <1>5 DEF NewFile
<1>6. CASE ~(r[2] = "bin" /\ q = Path(level, Drained(r)))
  <2>1. q \in DOMAIN gs
    <3> HIDE DEF gs, l, r
    <3> QED
      BY <1>1, <1>6, DrainOneOnly
  <2>2. CASE l[2] = "bin" /\ q = Path(level, Drained(l))
    BY <1>1, <1>2, <1>4, <2>2 DEF NewFile
  <2>3. CASE ~(l[2] = "bin" /\ q = Path(level, Drained(l)))
    BY <2>1, <2>3, DrainOneOnly
  <2> QED
    BY <2>2, <2>3
<1> QED
  BY <1>5, <1>6

\* The first of the two is drained, from the directory or what a crash made of it.
LEMMA FirstDrainComes ==
  ASSUME TypeInv, pc = "drain", DrainFails \/ Crash, NEW fs, DOMAIN fs = DOMAIN files,
         files' = DrainOne(fs, unit.target[1]), NEW q \in DOMAIN files'
  PROVE  q \in DOMAIN files \/ NewFile(q)
<1>1. 1 \in DOMAIN unit.target /\ 1 \in 1..2
  BY ItemsTyped, RestItems DEF TypeInv, Control
<1>2. CASE unit.target[1][2] = "bin" /\ q = Path(level, Drained(unit.target[1]))
  BY <1>1, <1>2, DrainOneFrees DEF NewFile
<1>3. CASE ~(unit.target[1][2] = "bin" /\ q = Path(level, Drained(unit.target[1])))
  BY <1>3, DrainOneOnly
<1> QED
  BY <1>2, <1>3

LEMMA CrashComes ==
  ASSUME TypeInv, Crash, NEW q \in DOMAIN files'
  PROVE  q \in DOMAIN files \/ NewFile(q)
<1> DEFINE fs == Written("bad")
<1>1. DOMAIN fs = DOMAIN files
  BY DEF Written
<1> HIDE DEF fs
<1>2. \/ files' = fs
      \/ pc = "join" /\ files' = Create(fs, Path(level, Out), NoContent, "bad")
      \/ pc = "drain" /\ files' = DrainOne(fs, unit.target[1])
      \/ pc = "frame" /\ files' = [fs EXCEPT ![Path(level, unit.target[1])].form = "bad"]
      \/ \E ps : files' = Without(fs, ps)
  BY DEF Crash, Left, fs
<1>3. CASE pc = "join" /\ files' = Create(fs, Path(level, Out), NoContent, "bad")
  BY <1>1, <1>3, CreateOnly DEF NewFile
<1>4. CASE pc = "drain" /\ files' = DrainOne(fs, unit.target[1])
  BY <1>1, <1>4, FirstDrainComes
<1>5. CASE \/ files' = fs
           \/ files' = [fs EXCEPT ![Path(level, unit.target[1])].form = "bad"]
           \/ \E ps : files' = Without(fs, ps)
  BY <1>1, <1>5 DEF Without
<1> QED
  BY <1>2, <1>3, <1>4, <1>5

LEMMA FilesCome ==
  ASSUME TypeInv, [Next]_vars, NEW q \in DOMAIN files'
  PROVE  q \in DOMAIN files \/ NewFile(q)
<1>1. CASE FlushBegin
  <2>1. files' = Create(files, TablePath(flushed + 1), writing', "growing")
    BY <1>1 DEF FlushBegin, TablePath
  <2> QED
    BY <1>1, <2>1, CreateOnly DEF NewFile
<1>2. CASE FlushEnd \/ FlushTorn
  BY <1>2 DEF FlushEnd, FlushTorn, Written
<1>3. CASE \/ TimerExpires \/ VisitSkip \/ VisitCompact \/ BeginUnit
           \/ PromoteFails \/ Finish \/ UNCHANGED vars
  BY <1>3 DEF TimerExpires, VisitSkip, VisitCompact, BeginUnit, PromoteFails, Finish, vars
<1>4. CASE Join \/ JoinFails
  <2>1. pc = "join"
    BY <1>4 DEF Join, JoinFails
  <2>2. files' = files \/ \E data, form : files' = Create(files, Path(level, Out), data, form)
    BY <1>4 DEF Join, JoinFails
  <2> QED
    BY <1>4, <2>1, <2>2, CreateOnly DEF NewFile
<1>5. CASE DrainFails
  <2>1. pc = "drain" /\ (files' = files \/ files' = DrainOne(files, unit.target[1]))
    BY <1>5 DEF DrainFails
  <2> QED
    BY <1>5, <2>1, FirstDrainComes
<1>6. CASE Frame \/ FrameFails
  BY <1>6 DEF Frame, FrameFails
<1>7. CASE Sweep \/ SweepFails
  BY <1>7, SweepSwept DEF Swept, Without
<1>8. CASE Promote
  BY <1>8, PromoteStep, RenameOnly DEF NewFile
<1> QED
  BY <1>1, <1>2, <1>3, <1>4, <1>5, <1>6, <1>7, <1>8, DrainComes, CrashComes
     DEF Next, Coordinator

\* The names used so far stay used as long as there are units to compact.
LEMMA UsedRemains ==
  ASSUME TypeInv, [Next]_vars, AtWork, AtWork', NEW name, Used(name)
  PROVE  Used(name)' /\ level' = level
<1>1. PICK a \in Nat, b \in Nat, c \in Nat :
        /\ name = <<"unit", a, b, c>>
        /\ \/ a < unit.id
           \/ /\ a = unit.id /\ AtUnit
              /\ \/ b < unit.pass
                 \/ b = unit.pass /\ c < unit.pair
                 \/ b = unit.pass /\ c = unit.pair /\ pc = "drain"
  BY DEF Used
<1>2. unit.id \in Nat /\ unit.pass \in Nat /\ unit.pair \in Nat
  BY ItemsTyped DEF TypeInv
<1> DEFINE UsedThen == \/ a < unit'.id
                       \/ /\ a = unit'.id /\ pc' \in {"join", "drain", "frame", "sweep"}
                          /\ \/ b < unit'.pass
                             \/ b = unit'.pass /\ c < unit'.pair
                             \/ b = unit'.pass /\ c = unit'.pair /\ pc' = "drain"
<1>3. UsedThen => Used(name)'
  BY <1>1 DEF Used, AtUnit
<1>4. SUFFICES UsedThen /\ level' = level
  BY <1>3
<1>5. CASE FlushBegin \/ FlushEnd \/ FlushTorn \/ TimerExpires \/ UNCHANGED vars
  BY <1>1, <1>5, EnvironmentStays DEF AtUnit
<1>6. CASE VisitSkip \/ VisitCompact
  BY <1>6 DEF VisitSkip, VisitCompact, AtWork, AtUnit, TypeInv, Control
<1>7. CASE PromoteFails \/ Finish \/ Crash
  BY <1>7 DEF PromoteFails, Finish, Crash, EndCompaction, AtWork, AtUnit
<1>8. CASE Promote
  BY <1>8 DEF Promote, AtWork, AtUnit
<1>9. CASE BeginUnit
  <2>1. pc = "units" /\ level' = level /\ unit'.id = unit.id
    BY <1>9 DEF BeginUnit, NoUnit
  <2> QED
    BY <1>1, <2>1 DEF AtUnit
<1>10. CASE JoinFails \/ DrainFails \/ FrameFails \/ Sweep \/ SweepFails
  <2>1. AbandonUnit /\ level' = level
    BY <1>10 DEF JoinFails, DrainFails, FrameFails, Sweep, SweepFails
  <2>2. unit'.id = unit.id + 1
    BY <2>1 DEF AbandonUnit, NoUnit
  <2> QED
    BY <1>1, <1>2, <2>1, <2>2
<1>11. CASE Join \/ Frame
  <2>1. /\ UNCHANGED <<unit, level>>
        /\ \/ pc = "join" /\ pc' = "drain"
           \/ pc = "frame" /\ pc' = "sweep"
    BY <1>11 DEF Join, Frame
  <2> QED
    BY <1>1, <2>1
<1>12. CASE Drain
  <2>1. /\ level' = level /\ unit'.id = unit.id /\ pc = "drain" /\ pc' \in {"join", "frame"}
        /\ \/ unit'.pass = unit.pass /\ unit'.pair = unit.pair + 1
           \/ unit'.pass = unit.pass + 1
    BY <1>12, DrainStep
  <2> QED
    BY <1>1, <1>2, <2>1
<1> QED
  BY <1>5, <1>6, <1>7, <1>8, <1>9, <1>10, <1>11, <1>12 DEF Next, Coordinator

\* With nothing compacted yet the coordinator has nothing to do with the files.
LEMMA BeforeFirst ==
  ASSUME TypeInv, OnlyFlushed, rounds = 0, [Next]_vars
  PROVE  \/ FlushBegin
         \/ /\ flushed' = flushed
            /\ files' = files \/ \E form \in Forms : files' = Written(form)
<1>1. pc \in {"visit", "units"} /\ units = <<>> /\ outputs = <<>>
  BY DEF OnlyFlushed, AtWork, AtUnit, TypeInv, Types
<1>2. CASE FlushEnd \/ FlushTorn
  BY <1>2 DEF FlushEnd, FlushTorn, Forms
<1>3. CASE TimerExpires \/ VisitSkip \/ VisitCompact \/ PromoteFails \/ Finish \/ UNCHANGED vars
  BY <1>3 DEF TimerExpires, VisitSkip, VisitCompact, PromoteFails, Finish, vars
<1>4. CASE Crash
  BY <1>1, <1>4 DEF Crash, Left, Forms
<1>5. ~BeginUnit /\ ~Promote
  BY <1>1 DEF BeginUnit, Promote
<1>6. /\ ~Join /\ ~JoinFails /\ ~Drain /\ ~DrainFails
      /\ ~Frame /\ ~FrameFails /\ ~Sweep /\ ~SweepFails
  BY <1>1 DEF Join, JoinFails, Drain, DrainFails, Frame, FrameFails, Sweep, SweepFails
<1> QED
  BY <1>2, <1>3, <1>4, <1>5, <1>6 DEF Next, Coordinator

\* Nothing is at work either as long as no compaction has started.
LEMMA RestsBeforeFirst ==
  ASSUME TypeInv, OnlyFlushed, rounds' = 0, [Next]_vars
  PROVE  rounds = 0 /\ ~AtWork' /\ outputs' = <<>>
<1>1. rounds = 0
  <2>1. rounds \in Nat
    BY BoundsAssumption DEF TypeInv, Types
  <2>2. CASE VisitCompact
    BY <2>1, <2>2 DEF VisitCompact
  <2>3. CASE ~VisitCompact
    BY <2>3 DEF Next, Coordinator, FlushBegin, FlushEnd, FlushTorn, TimerExpires, VisitSkip,
       BeginUnit, Join, JoinFails, Drain, DrainFails, Frame, FrameFails, Sweep, SweepFails,
       Promote, PromoteFails, Finish, Crash, vars
  <2> QED
    BY <2>2, <2>3
<1>2. pc \in {"visit", "units"} /\ units = <<>> /\ outputs = <<>>
  BY <1>1 DEF OnlyFlushed, AtWork, AtUnit, TypeInv, Types
<1>3. CASE FlushBegin \/ FlushEnd \/ FlushTorn \/ TimerExpires \/ UNCHANGED vars
  BY <1>2, <1>3, EnvironmentStays DEF AtWork, AtUnit
<1>4. CASE VisitSkip
  BY <1>2, <1>4 DEF VisitSkip, AtWork, AtUnit
<1>5. CASE VisitCompact
  BY <1>1, <1>5 DEF VisitCompact, AtWork, AtUnit
<1>6. CASE PromoteFails \/ Finish \/ Crash
  BY <1>6 DEF PromoteFails, Finish, Crash, EndCompaction, AtWork, AtUnit
<1>7. ~BeginUnit /\ ~Promote
  BY <1>2 DEF BeginUnit, Promote
<1>8. /\ ~Join /\ ~JoinFails /\ ~Drain /\ ~DrainFails
      /\ ~Frame /\ ~FrameFails /\ ~Sweep /\ ~SweepFails
  BY <1>2 DEF Join, JoinFails, Drain, DrainFails, Frame, FrameFails, Sweep, SweepFails
<1> QED
  BY <1>1, <1>3, <1>4, <1>5, <1>6, <1>7, <1>8 DEF Next, Coordinator

LEMMA TablePathInjective ==
  ASSUME NEW n, NEW m, TablePath(n) = TablePath(m)
  PROVE  n = m
BY DEF TablePath

LEMMA NextOnlyFlushed ==
  ASSUME TypeInv, OnlyFlushed, [Next]_vars
  PROVE  OnlyFlushed'
<1> SUFFICES ASSUME rounds' = 0
             PROVE  OnlyFlushed'
  BY DEF OnlyFlushed
<1>1. rounds = 0 /\ ~AtWork' /\ outputs' = <<>>
  BY RestsBeforeFirst
<1>2. /\ \A p \in DOMAIN files : \E n \in 1..flushed : p = TablePath(n)
      /\ \A n \in 1..flushed, k \in LongKeys :
           TablePath(n) \in DOMAIN files /\ files[TablePath(n)].data[k] # Absent =>
             files[TablePath(n)].data[k].by = n
      /\ \A n, m \in 1..flushed :
           /\ TablePath(n) \in DOMAIN files /\ TablePath(m) \in DOMAIN files
           /\ files[TablePath(n)].created > files[TablePath(m)].created
           => n >= m
  BY <1>1 DEF OnlyFlushed
<1> DEFINE Q == /\ \A p \in DOMAIN files' : \E n \in 1..flushed' : p = TablePath(n)
                /\ \A n \in 1..flushed', k \in LongKeys :
                     TablePath(n) \in DOMAIN files' /\ files'[TablePath(n)].data[k] # Absent =>
                       files'[TablePath(n)].data[k].by = n
                /\ \A n, m \in 1..flushed' :
                     /\ TablePath(n) \in DOMAIN files' /\ TablePath(m) \in DOMAIN files'
                     /\ files'[TablePath(n)].created > files'[TablePath(m)].created
                     => n >= m
<1>3. SUFFICES Q
  BY <1>1 DEF OnlyFlushed, TablePath
<1>4. CASE flushed' = flushed /\ files' = files
  BY <1>2, <1>4
<1>5. ASSUME flushed' = flushed, NEW form \in Forms, files' = Written(form)
      PROVE  Q
  <2>1. /\ DOMAIN files' = DOMAIN files
        /\ \A p \in DOMAIN files :
             files'[p].data = files[p].data /\ files'[p].created = files[p].created
    BY <1>5, WrittenKeeps, WrittenTurns DEF TypeInv, Types, Written
  <2> QED
    BY <1>2, <1>5, <2>1
<1>6. CASE FlushBegin
  <2> DEFINE new == flushed + 1
             path == TablePath(new)
  <2>1. /\ files' = Create(files, path, writing', "growing") /\ flushed' = new
        /\ path \notin DOMAIN files /\ flushed \in Nat
    BY <1>6, FlushPathIsNew, BoundsAssumption DEF FlushBegin, TablePath, TypeInv, Types
  <2>2. \A k \in LongKeys : writing'[k] # Absent => writing'[k].by = new
    BY <1>6, <2>1, WritingType DEF TypeInv, Types, LongKeys
  <2>3. \A n \in 1..flushed : n \in 1..new /\ n <= new /\ n # new
    BY <2>1
  <2>4. new \in 1..new /\ \A n \in 1..new : n \in 1..flushed \/ n = new
    BY <2>1
  <2>5. files'[path].data = writing' /\ files'[path].created = clock
    BY <2>1, CreateMakes DEF Create, With, File
  <2>6. \A q \in DOMAIN files : q \in DOMAIN files' /\ files'[q] = files[q]
    BY <2>1, CreateKeeps
  <2>7. \A q \in DOMAIN files' : q = path \/ (q \in DOMAIN files /\ files'[q] = files[q])
    BY <2>1, CreateOnly
  <2>8. \A q \in DOMAIN files : files[q].created \in Int /\ ~(files[q].created > clock)
    <3>1. \A q \in DOMAIN files : files[q].created \in 1..(clock - 1)
      BY DEF TypeInv, Types, Directory, FileRecords
    <3> QED
      BY <3>1 DEF TypeInv, Types
  <2>9. \A n \in 1..flushed : TablePath(n) # path
    BY <2>3, TablePathInjective
  <2> HIDE DEF path, new
  <2>10. \A p \in DOMAIN files' : \E n \in 1..new : p = TablePath(n)
    BY <1>2, <2>3, <2>4, <2>7 DEF path
  <2>11. ASSUME NEW n \in 1..new, NEW k \in LongKeys, TablePath(n) \in DOMAIN files',
                files'[TablePath(n)].data[k] # Absent
         PROVE  files'[TablePath(n)].data[k].by = n
    <3>1. CASE n = new
      BY <2>2, <2>5, <2>11, <3>1 DEF path
    <3>2. CASE n \in 1..flushed
      BY <1>2, <2>7, <2>9, <2>11, <3>2
    <3> QED
      BY <2>4, <3>1, <3>2
  <2>12. ASSUME NEW n \in 1..new, NEW m \in 1..new,
                TablePath(n) \in DOMAIN files', TablePath(m) \in DOMAIN files',
                files'[TablePath(n)].created > files'[TablePath(m)].created
         PROVE  n >= m
    <3>1. CASE n = new
      BY <2>1, <3>1 DEF new
    <3>2. CASE n \in 1..flushed /\ m = new
      BY <2>5, <2>7, <2>8, <2>9, <2>12, <3>2 DEF path
    <3>3. CASE n \in 1..flushed /\ m \in 1..flushed
      BY <1>2, <2>7, <2>9, <2>12, <3>3
    <3> QED
      BY <2>4, <3>1, <3>2, <3>3
  <2> QED
    BY <2>1, <2>10, <2>11, <2>12
<1> HIDE DEF Q
<1> QED
  BY <1>1, <1>4, <1>5, <1>6, BeforeFirst

\* Only a visit that finds a unit begins the work.
LEMMA StartsWork ==
  ASSUME TypeInv, [Next]_vars, ~AtWork, AtWork'
  PROVE  VisitCompact /\ units' # <<>>
<1>1. pc \in {"visit", "units"} /\ units = <<>>
  BY DEF AtWork, AtUnit, TypeInv, Types
<1>2. ~(FlushBegin \/ FlushEnd \/ FlushTorn \/ TimerExpires \/ UNCHANGED vars)
  BY EnvironmentStays DEF AtWork, AtUnit
<1>3. ~VisitSkip
  BY <1>1 DEF VisitSkip, AtWork, AtUnit
<1>4. ~(PromoteFails \/ Finish \/ Crash)
  BY DEF PromoteFails, Finish, Crash, EndCompaction, AtWork, AtUnit
<1>5. ~BeginUnit /\ ~Promote
  BY <1>1 DEF BeginUnit, Promote, AtWork, AtUnit
<1>6. /\ ~Join /\ ~JoinFails /\ ~Drain /\ ~DrainFails
      /\ ~Frame /\ ~FrameFails /\ ~Sweep /\ ~SweepFails
  BY <1>1 DEF Join, JoinFails, Drain, DrainFails, Frame, FrameFails, Sweep, SweepFails
<1>7. VisitCompact
  BY <1>2, <1>3, <1>4, <1>5, <1>6 DEF Next, Coordinator
<1> QED
  BY <1>7 DEF VisitCompact, AtWork, AtUnit

LEMMA NextWorkNames ==
  ASSUME TypeInv, FirstInv, MaxCompactions <= 1, [Next]_vars
  PROVE  WorkNames'
<1> SUFFICES ASSUME AtWork', NEW q \in DOMAIN files', q[2] \notin TableNames
             PROVE  q[1] = level' /\ q[3] = "tmp" /\ Used(q[2])'
  BY DEF WorkNames
<1>1. CASE ~AtWork
  <2>1. VisitCompact /\ units' # <<>>
    BY <1>1, StartsWork
  <2>2. rounds = 0 /\ files' = files
    BY <2>1, BoundsAssumption DEF VisitCompact, TypeInv, Types
  <2>3. PICK n \in 1..flushed : q = TablePath(n)
    BY <2>2 DEF FirstInv, OnlyFlushed
  <2>4. n \in Nat
    BY <2>3
  <2> QED
    BY <2>3, <2>4, TablePathType DEF TableNames
<1>2. CASE AtWork /\ q \in DOMAIN files
  <2>1. q[1] = level /\ q[3] = "tmp" /\ Used(q[2])
    BY <1>2 DEF FirstInv, WorkNames
  <2> QED
    BY <1>2, <2>1, UsedRemains
<1>3. ASSUME AtWork, NewFile(q)
      PROVE  q[1] = level' /\ q[3] = "tmp" /\ Used(q[2])'
  <2>1. q # TablePath(flushed + 1)
    <3>1. flushed + 1 \in Nat
      BY BoundsAssumption DEF TypeInv, Types
    <3> QED
      BY <3>1, TablePathType DEF TableNames
  <2>2. ASSUME NEW n \in 1..2, n \in DOMAIN unit.target, unit.target[n][2] = "bin",
               q = Path(level, Drained(unit.target[n]))
        PROVE  FALSE
    <3> DEFINE p == Path(level, unit.target[n])
    <3>1. p \in DOMAIN files /\ p[3] = "bin" /\ p[2] = q[2]
      BY <2>2, PathExtension DEF TypeInv, TargetOK, Has, Drained
    <3> QED
      BY <1>3, <3>1 DEF FirstInv, WorkNames
  <2>3. ~Promote
    BY <1>3 DEF Promote, AtWork, AtUnit
  <2>4. ~Crash
    BY DEF Crash, AtWork, AtUnit
  <2>5. q = Path(level, Out) /\ pc = "join" /\ (Join \/ JoinFails)
    BY <1>3, <2>1, <2>2, <2>3, <2>4 DEF NewFile
  <2>6. q[1] = level /\ q[3] = "tmp" /\ q[2] = <<"unit", unit.id, unit.pass, unit.pair>>
    BY <2>5, PathExtension DEF Out, OutName
  <2>7. unit.id \in Nat /\ unit.pass \in Nat /\ unit.pair \in Nat
    BY ItemsTyped DEF TypeInv
  <2>8. CASE Join
    <3>1. level' = level /\ unit' = unit /\ pc' = "drain"
      BY <2>8 DEF Join
    <3> QED
      BY <2>6, <2>7, <3>1 DEF Used, AtUnit
  <2>9. CASE JoinFails
    <3>1. level' = level /\ unit'.id = unit.id + 1
      BY <2>9 DEF JoinFails, AbandonUnit, NoUnit
    <3>2. unit.id < unit'.id
      BY <2>7, <3>1
    <3> QED
      BY <2>6, <2>7, <3>1, <3>2 DEF Used
  <2> QED
    BY <2>5, <2>8, <2>9
<1> QED
  BY <1>1, <1>2, <1>3, FilesCome

\* What is to be promoted was so before, or is the output of the unit just done.
LEMMA OutputsWere ==
  ASSUME TypeInv, [Next]_vars, NEW i \in DOMAIN outputs'
  PROVE  /\ level' = level
         /\ \/ \E j \in DOMAIN outputs : outputs'[i] = outputs[j] /\ (Promote => j # 1)
            \/ pc = "sweep" /\ Sweep /\ outputs'[i] = unit.target[1]
<1>1. outputs' # <<>>
  OBVIOUS
<1>2. ~VisitCompact /\ ~PromoteFails /\ ~Finish /\ ~Crash
  BY <1>1 DEF VisitCompact, PromoteFails, Finish, Crash, EndCompaction
<1>3. ~VisitSkip
  BY <1>1 DEF VisitSkip, TypeInv, Control
<1>4. CASE Sweep
  <2>1. outputs' = Append(outputs, unit.target[1]) /\ level' = level /\ pc = "sweep" /\ outputs \in Seq(Items)
    BY <1>4, ItemsTyped DEF Sweep, TypeInv
  <2>2. unit.target[1] \in Items
    BY <2>1, LastApart
  <2>3. ~Promote
    BY <2>1 DEF Promote
  <2> QED
    BY <1>4, <2>1, <2>2, <2>3, AppendItems
<1>5. CASE Promote
  BY <1>5, PromoteStep
<1>6. CASE ~Sweep /\ ~Promote
  <2>1. UNCHANGED <<outputs, level>>
    BY <1>2, <1>3, <1>6 DEF Next, Coordinator, FlushBegin, FlushEnd, FlushTorn, TimerExpires,
       BeginUnit, Join, JoinFails, Drain, DrainFails, Frame, FrameFails, SweepFails, vars
  <2> QED
    BY <1>6, <2>1
<1> QED
  BY <1>4, <1>5, <1>6

LEMMA TmpNamed ==
  ASSUME NEW a, NEW b, NEW c
  PROVE  Tmp(a, b, c)[1] \notin TableNames /\ Tmp(a, b, c)[2] = "tmp"
<1>1. Tmp(a, b, c)[1] = <<"unit", a, b, c>> /\ Tmp(a, b, c)[2] = "tmp"
  BY DEF Tmp
<1> QED
  BY <1>1, UnitNames

LEMMA OutputsNamed ==
  ASSUME TypeInv
  PROVE  /\ \A i \in DOMAIN outputs : outputs[i][1] \notin TableNames
         /\ \A i, j \in DOMAIN outputs : outputs[i][1] = outputs[j][1] => i = j
         /\ pc = "sweep" => unit.target[1][1] \notin TableNames
<1>1. ASSUME NEW i \in DOMAIN outputs
      PROVE  outputs[i][1] \notin TableNames /\ outputs[i] \in Items /\ outputs[i][2] = "tmp"
  <2>1. PICK a \in Nat, b \in Nat, c \in Nat : a < unit.id /\ outputs[i] = Tmp(a, b, c)
    BY DEF TypeInv, OutputsOK
  <2> QED
    BY <2>1, ItemsTyped, TmpNamed DEF TypeInv
<1>2. ASSUME NEW i \in DOMAIN outputs, NEW j \in DOMAIN outputs, outputs[i][1] = outputs[j][1]
      PROVE  i = j
  <2>1. outputs[i] = outputs[j]
    BY <1>1, <1>2 DEF Items
  <2> QED
    BY <2>1 DEF TypeInv, OutputsOK
<1>3. ASSUME pc = "sweep"
      PROVE  unit.target[1][1] \notin TableNames
  <2>1. OwnTmp(unit.target[1])
    BY <1>3, LastApart
  <2>2. PICK b \in Nat, c \in Nat : unit.target[1] = Tmp(unit.id, b, c)
    BY <2>1 DEF OwnTmp
  <2> QED
    BY <2>2, TmpNamed
<1> QED
  BY <1>1, <1>2, <1>3

LEMMA NextOutputsFree ==
  ASSUME TypeInv, FirstInv, [Next]_vars
  PROVE  OutputsFree'
<1> SUFFICES ASSUME NEW i \in DOMAIN outputs',
                    Path(level' + 1, <<outputs'[i][1], "bin">>) \in DOMAIN files'
             PROVE  FALSE
  BY DEF OutputsFree, Path
<1> DEFINE name == outputs'[i][1]
           q == Path(level + 1, <<name, "bin">>)
<1>1. /\ level' = level
      /\ \/ \E j \in DOMAIN outputs : name = outputs[j][1] /\ (Promote => j # 1)
         \/ pc = "sweep" /\ Sweep /\ name = unit.target[1][1]
  BY OutputsWere
<1> HIDE DEF name
<1>2. q \in DOMAIN files' /\ q[1] = level + 1 /\ q[2] = name /\ q[3] = "bin"
  BY <1>1, PathExtension DEF name
<1>3. name \notin TableNames
  BY <1>1, OutputsNamed
<1>4. q \notin DOMAIN files
  <2>1. CASE \E j \in DOMAIN outputs : name = outputs[j][1]
    BY <2>1 DEF FirstInv, OutputsFree
  <2>2. CASE pc = "sweep"
    BY <1>2, <1>3, <2>2 DEF FirstInv, WorkNames, AtWork, AtUnit
  <2> QED
    BY <1>1, <2>1, <2>2
<1> HIDE DEF q
<1>5. NewFile(q)
  BY <1>2, <1>4, FilesCome
<1>6. q # TablePath(flushed + 1)
  <2>1. flushed + 1 \in Nat
    BY BoundsAssumption DEF TypeInv, Types
  <2> QED
    BY <1>2, <1>3, <2>1, TablePathType DEF TableNames
<1>7. q # Path(level, Out)
  BY <1>2, PathExtension DEF Out
<1>8. \A n \in 1..2 : unit.target[n][2] = "bin" => q # Path(level, Drained(unit.target[n]))
  BY <1>2, PathExtension DEF Drained
<1>9. Promote /\ q = Path(level + 1, <<outputs[1][1], "bin">>)
  BY <1>5, <1>6, <1>7, <1>8 DEF NewFile
<1>10. name = outputs[1][1] /\ 1 \in DOMAIN outputs
  BY <1>2, <1>9, PathExtension, PromoteStep
<1>11. PICK j \in DOMAIN outputs : name = outputs[j][1] /\ j # 1
  BY <1>1, <1>9 DEF Promote
<1> QED
  BY <1>10, <1>11, OutputsNamed

LEMMA NextDrainedApart ==
  ASSUME TypeInv, FirstInv, [Next]_vars
  PROVE  DrainedApart'
<1> SUFFICES ASSUME NEW p \in DOMAIN files', NEW q \in DOMAIN files', p[1] = q[1], p[2] = q[2],
                    p[2] \in TableNames, p[3] = "bin", q[3] = "drain"
             PROVE  FALSE
  BY DEF DrainedApart
<1>1. q # TablePath(flushed + 1)
  BY DEF TablePath
<1>2. p # Path(level, Out) /\ q # Path(level, Out)
  BY PathExtension DEF Out
<1>3. \A n \in 1..2 : unit.target[n][2] = "bin" => p # Path(level, Drained(unit.target[n]))
  BY PathExtension DEF Drained
<1>4. q # Path(level + 1, <<outputs[1][1], "bin">>)
  BY PathExtension
<1>5. Promote => p # Path(level + 1, <<outputs[1][1], "bin">>)
  BY OutputsNamed, PromoteStep, PathExtension
<1>6. p \in DOMAIN files \/ p = TablePath(flushed + 1)
  BY <1>2, <1>3, <1>5, FilesCome DEF NewFile
<1>7. \/ q \in DOMAIN files
      \/ \E n \in 1..2 :
           /\ n \in DOMAIN unit.target /\ unit.target[n][2] = "bin"
           /\ q = Path(level, Drained(unit.target[n]))
           /\ Path(level, unit.target[n]) \notin DOMAIN files'
  BY <1>1, <1>2, <1>4, FilesCome DEF NewFile
<1>8. \E o \in DOMAIN files : o[2] = q[2]
  <2>1. ASSUME NEW n \in DOMAIN unit.target, unit.target[n][2] = "bin",
               q = Path(level, Drained(unit.target[n]))
        PROVE  \E o \in DOMAIN files : o[2] = q[2]
    <3>1. Path(level, unit.target[n]) \in DOMAIN files
      BY DEF TypeInv, TargetOK, Has
    <3>2. Path(level, unit.target[n])[2] = q[2]
      BY <2>1, PathExtension DEF Drained
    <3> QED
      BY <3>1, <3>2
  <2> QED
    BY <1>7, <2>1
<1>9. p # TablePath(flushed + 1)
  <2>1. flushed + 1 \in Nat /\ ~(flushed + 1 <= flushed)
    BY BoundsAssumption DEF TypeInv, Types
  <2> QED
    BY <1>8, <2>1, TablePathType DEF TypeInv, TablesNumbered
<1>10. CASE q \in DOMAIN files
  BY <1>6, <1>9, <1>10 DEF FirstInv, DrainedApart
<1>11. ASSUME NEW n \in DOMAIN unit.target, unit.target[n][2] = "bin",
              q = Path(level, Drained(unit.target[n])),
              Path(level, unit.target[n]) \notin DOMAIN files'
       PROVE  FALSE
  <2>1. p \in Paths
    BY <1>6, <1>9 DEF TypeInv, Types, Directory
  <2>2. p[1] = level /\ p[2] = unit.target[n][1]
    BY <1>11, PathExtension DEF Drained
  <2>3. p = Path(level, unit.target[n])
    BY <1>11, <2>1, <2>2 DEF Paths, Path
  <2> QED
    BY <1>11, <2>3
<1> QED
  BY <1>7, <1>10, <1>11

LEMMA InitFirst == Init => FirstInv
<1> SUFFICES ASSUME Init
             PROVE  FirstInv
  OBVIOUS
<1>1. files = <<>> /\ outputs = <<>> /\ units = <<>> /\ pc = "visit" /\ flushed = 0
  BY DEF Init
<1>2. DOMAIN files = {} /\ DOMAIN outputs = {} /\ ~AtWork /\ 1..flushed = {}
  BY <1>1 DEF AtWork, AtUnit
<1> QED
  BY <1>1, <1>2 DEF FirstInv, OnlyFlushed, WorkNames, OutputsFree, DrainedApart

LEMMA NextFirst ==
  ASSUME TypeInv, FirstInv, MaxCompactions <= 1, [Next]_vars
  PROVE  FirstInv'
BY NextOnlyFlushed, NextWorkNames, NextOutputsFree, NextDrainedApart DEF FirstInv

LEMMA AlwaysFirst == MaxCompactions <= 1 => (Spec => []FirstInv)
<1> SUFFICES ASSUME MaxCompactions <= 1
             PROVE  Spec => []FirstInv
  OBVIOUS
<1>1. TypeInv /\ FirstInv /\ [Next]_vars => FirstInv'
  BY NextFirst
<1> QED
  BY <1>1, InitFirst, AlwaysTyped, PTL DEF Spec

\* Through the first compaction after the start the names and the order need not
\* be assumed: flushes, failures and ends of the process at any point included,
\* nothing is erased.
THEOREM FirstErasesNothing ==
  WholeReads /\ MaxCompactions <= 1 => (Spec => []NothingErased)
<1> SUFFICES ASSUME WholeReads, MaxCompactions <= 1
             PROVE  Spec => []NothingErased
  OBVIOUS
<1>1. TypeInv /\ FirstInv => NamesFresh /\ AgesOrdered
  BY FirstNamesFresh, FirstAgesOrdered
<1>2. Spec /\ [](NamesFresh /\ AgesOrdered) => []NothingErased
  BY ErasesNothing
<1> QED
  BY <1>1, <1>2, AlwaysFirst, AlwaysTyped, PTL

=============================================================================
