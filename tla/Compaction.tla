----------------------------- MODULE Compaction -----------------------------
(***************************************************************************)
(* The compaction coordinator (lsm_tree/compaction.rs) and the directory   *)
(* tree it works on, while the memtable keeps flushing new tables into     *)
(* level 1.  One background task visits the levels in turn; where          *)
(* compaction is due it cuts the level's tables, newest first, into units, *)
(* joins each unit pairwise into one file and moves the results to the     *)
(* next level.  Nothing keeps it from the files of a flush that is under   *)
(* way.  Every file operation is a step, so that flushes come in between   *)
(* and a failure or the end of the process can strike anywhere:            *)
(*                                                                         *)
(*   visit --> units --> join <--> drain --> frame --> sweep --> units     *)
(*     ^         |                                                         *)
(*     +------- promote (all units done)                                   *)
(*                                                                         *)
(* A file is known by its level, its name and its extension.  "bin" is a   *)
(* table, the only kind readers and the coordinator look for; "drain" a    *)
(* table whose entries a join has copied; "tmp" the output of a join.      *)
(***************************************************************************)
EXTENDS Integers, Sequences, FiniteSets

CONSTANTS
  Keys,
  ShortKeys,       \* the keys of one byte, which is_tombstone singles out
  Absent,          \* the table has no entry for the key
  TargetChunks,    \* target_chunks
  Levels,          \* how many levels the monitor visits (10 in the code)
  Faults,          \* subset of {"crash", "io_error", "torn_flush", "part_read"}
  MaxFlushes,      \* bound: tables the memtable flushes
  MaxCompactions   \* bound: compactions with something to do that are started

\* crash: the process ends and starts anew; io_error: a file operation of the
\* coordinator fails; torn_flush: one of the memtable's fails; part_read: a join
\* takes what there is of a table the memtable is writing, or failed to write,
\* for the whole.
FaultKinds == {"crash", "io_error", "torn_flush", "part_read"}

ASSUME KeysAssumption == ShortKeys \subseteq Keys
ASSUME ChunksAssumption == TargetChunks \in Nat /\ TargetChunks >= 2
ASSUME LevelsAssumption == Levels \in Nat \ {0}
ASSUME FaultsAssumption == Faults \subseteq FaultKinds
ASSUME BoundsAssumption == MaxFlushes \in Nat /\ MaxCompactions \in Nat

VARIABLES
  files,     \* path -> [data, created, form]: the whole of data/
  clock,     \* how many files were ever created: the time of the next one
  flushed,   \* how many flushes there were
  writing,   \* what the memtable is writing to a table now, or NoContent
  store,     \* history: what the completed flushes hold, the newest winning
  due,       \* Instant::now() >= compact_by
  pc,        \* the coordinator's next step
  level,     \* the level it visits
  rounds,    \* how many compactions it started
  units,     \* the units it has yet to compact, each a sequence of items
  unit,      \* the unit at work: [id, pass, pair, target, merged, consumed, input]
  outputs    \* compacted_tmp_files

vars == <<files, clock, flushed, writing, store, due, pc, level, rounds, units, unit, outputs>>

\* An entry is told apart by the flush that wrote it; dead is a tombstone.
Entry == [by : 1..MaxFlushes, dead : BOOLEAN]
Content == [Keys -> Entry \cup {Absent}]

ASSUME AbsentAssumption == Absent \notin Entry

\* A table with its header and index, a bare data section, a table that is
\* being written, or nothing that can be read.
Forms == {"table", "raw", "growing", "bad"}

NoContent == [k \in Keys |-> Absent]
NoUnit == [id |-> 0, pass |-> 0, pair |-> 0, target |-> <<>>, merged |-> <<>>,
           consumed |-> <<>>, input |-> NoContent]

-----------------------------------------------------------------------------
(* Files.  An item is a name and an extension: a path in the current level *)

Path(l, item) == <<l, item[1], item[2]>>

File(data, created, form) == [data |-> data, created |-> created, form |-> form]

Without(fs, paths) == [p \in DOMAIN fs \ paths |-> fs[p]]

With(fs, p, file) == [q \in DOMAIN fs \cup {p} |-> IF q = p THEN file ELSE fs[q]]

\* rename(2) replaces what the new name stood for.
Rename(fs, from, to) == With(Without(fs, {from}), to, fs[from])

\* File::create empties a file that exists, whose creation time stays.
Create(fs, p, data, form) ==
  With(fs, p, File(data, IF p \in DOMAIN fs THEN fs[p].created ELSE clock, form))

\* The file of an item of the level being visited.
At(item) == files[Path(level, item)]

\* The clock after a Create.
Tick(p) == IF p \in DOMAIN files THEN clock ELSE clock + 1

\* The newer content first.
Over(d, e) == [k \in Keys |-> IF d[k] # Absent THEN d[k] ELSE e[k]]

Dead(e) == IF e = Absent THEN TRUE ELSE e.dead

-----------------------------------------------------------------------------
Init ==
  /\ files = <<>>
  /\ clock = 1
  /\ flushed = 0
  /\ writing = NoContent
  /\ store = NoContent
  /\ due = FALSE
  /\ pc = "visit"
  /\ level = 1
  /\ rounds = 0
  /\ units = <<>>
  /\ unit = NoUnit
  /\ outputs = <<>>

\* What becomes of the table being written, wherever it is by now.
Written(form) ==
  [p \in DOMAIN files |->
     IF files[p].form = "growing" THEN [files[p] EXCEPT !.form = form] ELSE files[p]]

\* The memtable creates a table of level 1, under a fresh name, to write some
\* entries to.
FlushBegin ==
  /\ flushed < MaxFlushes
  /\ writing = NoContent
  /\ flushed' = flushed + 1
  /\ clock' = clock + 1
  /\ \E ks \in (SUBSET Keys) \ {{}} : \E dead \in [ks -> BOOLEAN] :
       writing' = [k \in Keys |-> IF k \in ks THEN [by |-> flushed', dead |-> dead[k]]
                                  ELSE Absent]
  /\ files' = Create(files, <<1, <<"table", flushed'>>, "bin">>, writing', "growing")
  /\ UNCHANGED <<store, due, pc, level, rounds, units, unit, outputs>>

FlushEnd ==
  /\ writing # NoContent
  /\ files' = Written("table")
  /\ store' = Over(writing, store)
  /\ writing' = NoContent
  /\ UNCHANGED <<clock, flushed, due, pc, level, rounds, units, unit, outputs>>

\* The flush fails: the table stays as it is, its entries stay in memory.
FlushTorn ==
  /\ "torn_flush" \in Faults
  /\ writing # NoContent
  /\ files' = Written("bad")
  /\ writing' = NoContent
  /\ UNCHANGED <<clock, flushed, store, due, pc, level, rounds, units, unit, outputs>>

TimerExpires ==
  /\ ~due
  /\ due' = TRUE
  /\ UNCHANGED <<files, clock, flushed, writing, store, pc, level, rounds, units, unit, outputs>>

-----------------------------------------------------------------------------
(* monitor: visiting a level                                               *)

Tables(l) == {p \in DOMAIN files : p[1] = l /\ p[3] = "bin"}

Triggered == due \/ Cardinality(Tables(level)) > TargetChunks * TargetChunks

NextLevel == IF level = Levels THEN 1 ELSE level + 1

\* The tables of the level, newest first: the i-th has i - 1 newer ones.
Listing ==
  LET found == {<<p[2], p[3]>> : p \in Tables(level)}
      newer(x) == {y \in found : At(y).created > At(x).created}
  IN  [i \in 1..Cardinality(found) |-> CHOOSE x \in found : Cardinality(newer(x)) = i - 1]

\* Mutant: a single table left over makes a unit too.
PartitionTakesOne(items) ==
  LET full == Len(items) \div TargetChunks
      rest == SubSeq(items, full * TargetChunks + 1, Len(items))
      cut == [u \in 1..full |->
                SubSeq(items, (u - 1) * TargetChunks + 1, u * TargetChunks)]
  IN  IF Len(rest) >= 1 THEN Append(cut, rest) ELSE cut

\* Mutant: a full unit ends one table early.
PartitionEndsEarly(items) ==
  LET full == Len(items) \div TargetChunks
      rest == SubSeq(items, full * TargetChunks + 1, Len(items))
      cut == [u \in 1..full |->
                SubSeq(items, (u - 1) * TargetChunks + 1, u * TargetChunks - 1)]
  IN  IF Len(rest) >= 2 THEN Append(cut, rest) ELSE cut

\* Full units of TargetChunks, and a last one if at least two tables are left.
Partition(items) ==
  LET full == Len(items) \div TargetChunks
      rest == SubSeq(items, full * TargetChunks + 1, Len(items))
      cut == [u \in 1..full |->
                SubSeq(items, (u - 1) * TargetChunks + 1, u * TargetChunks)]
  IN  IF Len(rest) >= 2 THEN Append(cut, rest) ELSE cut

VisitSkip ==
  /\ pc = "visit"
  /\ ~Triggered
  /\ level' = NextLevel
  /\ UNCHANGED <<files, clock, flushed, writing, store, due, pc, rounds, units, unit, outputs>>

VisitCompact ==
  /\ pc = "visit"
  /\ Triggered
  /\ units' = Partition(Listing)
  /\ units' # <<>> => rounds < MaxCompactions
  /\ rounds' = rounds + IF units' = <<>> THEN 0 ELSE 1
  /\ unit' = NoUnit
  /\ outputs' = <<>>
  /\ pc' = "units"
  /\ UNCHANGED <<files, clock, flushed, writing, store, due, level>>

-----------------------------------------------------------------------------
(* compact: one unit                                                       *)

\* What the items hold together, the first ones newest.
Overlay(items) ==
  [k \in Keys |->
     LET hits == {i \in DOMAIN items : At(items[i]).data[k] # Absent}
         first == CHOOSE i \in hits : \A j \in hits : i <= j
     IN  IF hits = {} THEN Absent ELSE At(items[first]).data[k]]

BeginUnit ==
  /\ pc = "units"
  /\ units # <<>>
  /\ unit' = [NoUnit EXCEPT !.id = unit.id, !.target = Head(units),
                            !.input = Overlay(Head(units))]
  /\ units' = Tail(units)
  /\ pc' = "join"
  /\ UNCHANGED <<files, clock, flushed, writing, store, due, level, rounds, outputs>>

\* The error is logged; the next unit follows.
AbandonUnit ==
  /\ unit' = [NoUnit EXCEPT !.id = unit.id + 1]
  /\ pc' = "units"

OutName == <<"unit", unit.id, unit.pass, unit.pair>>
Out == <<OutName, "tmp">>

\* join_tables: both sides lose the tombstones of one-byte keys, then the left,
\* newer, record wins.
Alive(d) == [k \in Keys |-> IF k \in ShortKeys /\ Dead(d[k]) THEN Absent ELSE d[k]]
Joined(left, right) == Over(Alive(left), Alive(right))

\* What to_data_section and the reads after it may take from a file: all of
\* it, or nothing at all when they fail; of an unfinished table also a part.
Part(d, ks) == [k \in Keys |-> IF k \in ks THEN d[k] ELSE Absent]
Takes(item) ==
  LET f == At(item)
  IN  IF f.form \notin {"growing", "bad"} THEN {f.data}
      ELSE IF "part_read" \in Faults THEN {Part(f.data, ks) : ks \in SUBSET Keys}
      ELSE {}

Join ==
  /\ pc = "join"
  /\ \E left \in Takes(unit.target[1]), right \in Takes(unit.target[2]) :
       files' = Create(files, Path(level, Out), Joined(left, right), "raw")
  /\ clock' = Tick(Path(level, Out))
  /\ pc' = "drain"
  /\ UNCHANGED <<flushed, writing, store, due, level, rounds, units, unit, outputs>>

\* A table cannot be parsed, once the output is created; or an error earlier.
JoinFails ==
  /\ pc = "join"
  /\ \/ /\ "io_error" \in Faults \/ \E i \in 1..2 : At(unit.target[i]).form \in {"bad", "growing"}
        /\ files' = Create(files, Path(level, Out), NoContent, "bad")
        /\ clock' = Tick(Path(level, Out))
     \/ /\ "io_error" \in Faults
        /\ UNCHANGED <<files, clock>>
  /\ AbandonUnit
  /\ UNCHANGED <<flushed, writing, store, due, level, rounds, units, outputs>>

\* Input tables are renamed to .drain, intermediate outputs keep their name.
Drained(item) == IF item[2] = "bin" THEN <<item[1], "drain">> ELSE item

\* Mutant: a joined table is deleted at once.
DrainOneDeletes(fs, item) ==
  IF item[2] = "bin" THEN Without(fs, {Path(level, item)}) ELSE fs

DrainOne(fs, item) ==
  IF item[2] = "bin" THEN Rename(fs, Path(level, item), Path(level, Drained(item))) ELSE fs

\* Mutant: the odd table is put in front of the outputs.
DrainOddFirst ==
  /\ pc = "drain"
  /\ LET left == unit.target[1]
         right == unit.target[2]
         rest == Tail(Tail(unit.target))
         merged == Append(unit.merged, Out)
         consumed == unit.consumed \o <<Drained(left), Drained(right)>>
     IN  /\ files' = DrainOne(DrainOne(files, left), right)
         /\ unit' = IF Len(rest) >= 2
                    THEN [unit EXCEPT !.target = rest, !.merged = merged,
                                      !.consumed = consumed, !.pair = @ + 1]
                    ELSE [unit EXCEPT !.target = rest \o merged, !.merged = <<>>,
                                      !.consumed = consumed, !.pair = 0, !.pass = @ + 1]
         /\ pc' = IF Len(unit'.target) >= 2 THEN "join" ELSE "frame"
  /\ UNCHANGED <<clock, flushed, writing, store, due, level, rounds, units, outputs>>

\* mark_drained_file on both sides.  The pass ends when less than a pair is
\* left: the outputs, and then the odd one, are the next pass's input.
Drain ==
  /\ pc = "drain"
  /\ LET left == unit.target[1]
         right == unit.target[2]
         rest == Tail(Tail(unit.target))
         merged == Append(unit.merged, Out)
         consumed == unit.consumed \o <<Drained(left), Drained(right)>>
     IN  /\ files' = DrainOne(DrainOne(files, left), right)
         /\ unit' = IF Len(rest) >= 2
                    THEN [unit EXCEPT !.target = rest, !.merged = merged,
                                      !.consumed = consumed, !.pair = @ + 1]
                    ELSE [unit EXCEPT !.target = merged \o rest, !.merged = <<>>,
                                      !.consumed = consumed, !.pair = 0, !.pass = @ + 1]
         /\ pc' = IF Len(unit'.target) >= 2 THEN "join" ELSE "frame"
  /\ UNCHANGED <<clock, flushed, writing, store, due, level, rounds, units, outputs>>

\* One of the two renames fails.
DrainFails ==
  /\ "io_error" \in Faults
  /\ pc = "drain"
  /\ files' \in {files, DrainOne(files, unit.target[1])}
  /\ AbandonUnit
  /\ UNCHANGED <<clock, flushed, writing, store, due, level, rounds, units, outputs>>

\* build_from_data_section rewrites the last output, in place, as a table.
Frame ==
  /\ pc = "frame"
  /\ files' = [files EXCEPT ![Path(level, unit.target[1])].form = "table"]
  /\ pc' = "sweep"
  /\ UNCHANGED <<clock, flushed, writing, store, due, level, rounds, units, unit, outputs>>

FrameFails ==
  /\ "io_error" \in Faults
  /\ pc = "frame"
  /\ files' = [files EXCEPT ![Path(level, unit.target[1])].form = "bad"]
  /\ AbandonUnit
  /\ UNCHANGED <<clock, flushed, writing, store, due, level, rounds, units, outputs>>

\* The first n of the consumed files, deleted.
Swept(n) == Without(files, {Path(level, unit.consumed[i]) : i \in 1..n})

Sweep ==
  /\ pc = "sweep"
  /\ files' = Swept(Len(unit.consumed))
  /\ outputs' = Append(outputs, unit.target[1])
  /\ AbandonUnit
  /\ UNCHANGED <<clock, flushed, writing, store, due, level, rounds, units>>

\* A deletion fails: the framed output is not among those to promote.
SweepFails ==
  /\ "io_error" \in Faults
  /\ pc = "sweep"
  /\ \E n \in 1..Len(unit.consumed) : files' = Swept(n - 1)
  /\ AbandonUnit
  /\ UNCHANGED <<clock, flushed, writing, store, due, level, rounds, units, outputs>>

-----------------------------------------------------------------------------
(* size_tier_compaction: the end of a compaction                           *)

\* compact_by is reset whether the compaction succeeded or not.
EndCompaction ==
  /\ due' = FALSE
  /\ level' = NextLevel
  /\ pc' = "visit"
  /\ units' = <<>>
  /\ unit' = NoUnit
  /\ outputs' = <<>>

Promote ==
  /\ pc = "units"
  /\ units = <<>>
  /\ outputs # <<>>
  /\ files' = Rename(files, Path(level, Head(outputs)),
                     Path(level + 1, <<Head(outputs)[1], "bin">>))
  /\ outputs' = Tail(outputs)
  /\ UNCHANGED <<clock, flushed, writing, store, due, pc, level, rounds, units, unit>>

PromoteFails ==
  /\ "io_error" \in Faults
  /\ pc = "units"
  /\ units = <<>>
  /\ outputs # <<>>
  /\ EndCompaction
  /\ UNCHANGED <<files, clock, flushed, writing, store, rounds>>

\* The next level's summary is rebuilt and the reader told to reload.
Finish ==
  /\ pc = "units"
  /\ units = <<>>
  /\ outputs = <<>>
  /\ EndCompaction
  /\ UNCHANGED <<files, clock, flushed, writing, store, rounds>>

\* What a process that ends leaves of the coordinator's work: a file being
\* written is cut short; of several renames or deletions some are done.
Left(fs) ==
  {fs} \cup
  CASE pc = "join" -> {Create(fs, Path(level, Out), NoContent, "bad")}
    [] pc = "drain" -> {DrainOne(fs, unit.target[1])}
    [] pc = "frame" -> {[fs EXCEPT ![Path(level, unit.target[1])].form = "bad"]}
    [] pc = "sweep" -> {Without(fs, {Path(level, unit.consumed[i]) : i \in 1..n}) :
                          n \in DOMAIN unit.consumed}
    [] OTHER -> {}

\* The process ends and starts anew; so does the table it was writing.  Nothing
\* ever looks for "drain" or "tmp" files again.
Crash ==
  /\ "crash" \in Faults
  /\ files' \in Left(Written("bad"))
  /\ clock' = clock + Cardinality(DOMAIN files' \ DOMAIN files)
  /\ writing' = NoContent
  /\ due' = FALSE
  /\ level' = 1
  /\ pc' = "visit"
  /\ units' = <<>>
  /\ unit' = NoUnit
  /\ outputs' = <<>>
  /\ UNCHANGED <<flushed, store, rounds>>

-----------------------------------------------------------------------------
Coordinator ==
  \/ VisitSkip \/ VisitCompact
  \/ BeginUnit \/ Join \/ JoinFails \/ Drain \/ DrainFails
  \/ Frame \/ FrameFails \/ Sweep \/ SweepFails
  \/ Promote \/ PromoteFails \/ Finish

Next == FlushBegin \/ FlushEnd \/ FlushTorn \/ TimerExpires \/ Coordinator \/ Crash

Spec == Init /\ [][Next]_vars

\* The runtime runs the background task and the thread that flushes, and the
\* clock runs; no client owes the server the writes that start a flush.
FairSpec ==
  Spec /\ WF_vars(Coordinator) /\ WF_vars(FlushEnd \/ FlushTorn) /\ WF_vars(TimerExpires)

-----------------------------------------------------------------------------
(* What a reader that opens the directory now finds                        *)

Hits(l, k) ==
  {p \in Tables(l) : files[p].form = "table" /\ files[p].data[k] # Absent}

\* LsmTreeReader::read: the first level with a hit, and there the newest table.
Seen(k) ==
  LET hitting == {l \in 1..(Levels + 1) : Hits(l, k) # {}}
      first == CHOOSE l \in hitting : \A m \in hitting : l <= m
      newest == CHOOSE p \in Hits(first, k) :
                  \A q \in Hits(first, k) : files[q].created <= files[p].created
  IN  IF hitting = {} THEN Absent ELSE files[newest].data[k]

LongKeys == Keys \ ShortKeys

-----------------------------------------------------------------------------
(* Properties                                                              *)

\* Every variable keeps its type; the unit at work has a pair to join, or one
\* output to frame.
TypeOK ==
  /\ \A p \in DOMAIN files :
       /\ p[1] \in 1..(Levels + 1) /\ p[3] \in {"bin", "tmp", "drain"}
       /\ files[p].data \in Content /\ files[p].created \in 1..clock
       /\ files[p].form \in Forms
  /\ clock \in Nat /\ flushed \in 0..MaxFlushes
  /\ writing \in Content /\ store \in Content
  /\ due \in BOOLEAN
  /\ pc \in {"visit", "units", "join", "drain", "frame", "sweep"}
  /\ level \in 1..Levels
  /\ rounds \in 0..MaxCompactions
  /\ pc \in {"join", "drain"} => Len(unit.target) >= 2
  /\ pc \in {"frame", "sweep"} => Len(unit.target) = 1
  /\ pc = "visit" => units = <<>> /\ unit = NoUnit /\ outputs = <<>>

\* The pairwise passes keep the order newest to oldest, odd tables included:
\* at every step the unit's intermediate files, read in their order, hold what
\* its input tables held (but for tombstones of one-byte keys).
UnitKeepsOrder ==
  LET queue == IF pc = "drain" THEN unit.merged \o <<Out>> \o Tail(Tail(unit.target))
               ELSE unit.merged \o unit.target
  IN  pc \in {"join", "drain", "frame", "sweep"} =>
        \A k \in LongKeys : Overlay(queue)[k] = unit.input[k]

\* Input files go only when their entries are in a later file: through crashes
\* and errors, the newest entry of every key is in some intact file, whatever
\* its extension.
NothingErased ==
  \A k \in LongKeys : store[k] # Absent =>
    \E p \in DOMAIN files : files[p].form \in {"table", "raw"} /\ files[p].data[k] = store[k]

\* What a completed flush wrote, for which the log was truncated, is in an intact
\* file, or something newer is.
FlushesKept ==
  \A k \in LongKeys : store[k] # Absent =>
    \E p \in DOMAIN files :
      /\ files[p].form \in {"table", "raw"}
      /\ files[p].data[k] # Absent /\ files[p].data[k].by >= store[k].by

\* Between compactions a reader that opens the directory finds for every key
\* the newest value flushed, or nothing if that was a tombstone or there is none.
ViewKept ==
  pc = "visit" => \A k \in Keys :
    IF Dead(store[k]) THEN Dead(Seen(k)) ELSE Seen(k) = store[k]

\* Entries of a level are newer than those of the levels below it, which is what
\* read's order of the levels takes for granted.
UpperLevelNewerEntries ==
  \A l, m \in 1..(Levels + 1), k \in Keys : l < m =>
    \A p \in Hits(l, k), q \in Hits(m, k) : files[p].data[k].by > files[q].data[k].by

\* Every level gets its turn: below the first, one with two tables, enough to
\* compact when the interval is over, eventually is compacted (unless the bound
\* on compactions is met).
DeepLevelsCompact ==
  \A l \in 2..Levels :
    Cardinality(Tables(l)) >= 2
      ~> Cardinality(Tables(l)) < 2 \/ rounds = MaxCompactions
=============================================================================
