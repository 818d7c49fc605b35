# Formal model of swift-merge

swift-merge is a key-value store built as an LSM tree: writes go to a log and a
memtable, the memtable is flushed to immutable tables, tables are merged level by
level in the background, reads look in the memtable and then in the tables. This
directory holds TLA+ specifications of it, TLC configurations that check them on
small instances, and proofs checked by TLAPS. Paths below are relative to
`switft-merge/`.

## The system

| part | source | state | operations |
|---|---|---|---|
| write handlers | `src/service.rs` | none of their own; one `std::sync::RwLock` around the memtable | Put, Delete, BatchWrite, ReloadConfig, GracefulShutdown |
| memtable | `src/memtable/mem.rs` 371-908 | entries, size estimate, flush deadline, configuration | put, delete, manage_flush, flush, rebuild_memtable, update_config, shutdown |
| write-ahead log | `src/memtable/mem.rs` 1146-1212 | one append-only file | write_entry, drain, clear |
| compaction coordinator | `src/lsm_tree/compaction.rs` | `compact_by`; the files of `data/l1` to `data/l11` | monitor, size_tier_compaction, compact, join_tables, build_from_data_section, mark_drained_file, build_level_summary |
| table reader | `src/lsm_tree/disk.rs` 132-510 | open files and indexes as of the start or the last reload, under a tokio `RwLock` | new, read, reload, search |
| Bloom filter | `src/lsm_tree/disk.rs` 512-637 | 1 block per table | generate_filter, probably_exist |
| read handlers | `src/service.rs` 148-256, 382-461 | none | Get, Range |
| encodings | `src/memtable/mem.rs` 110-270, 608-695 | none | serialize, deserialize, table layout |
| configuration | `src/memtable/mem.rs` 911-970 | none | validate |
| metrics | `src/memtable/mem.rs` 354-370, 972-1130 | counters, two files | counted by the others, written every minute, reset by flush |
| main | `src/main.rs` | none | start order: memtable, reader, coordinator, server |

**Interactions.** A write handler takes the memtable's lock and holds it through the
log append, the update and, when due, the flush, without an `await`: writes are serial,
and what interrupts one is an error, a panic, or the end of the process. A flush
creates a file in `data/l1`. The coordinator runs as one task, takes no lock the
memtable knows of, and finds tables by listing directories. It tells the reader to
reload through a callback that spawns yet another task; a flush tells nobody. The
configuration of the memtable can be reloaded; the coordinator keeps the one of the start.

**What is hard.** Disk state that must make sense after the process ends at any step;
errors after part of the work is done (log written, memtable not; some tables of a unit
renamed); faults the code answers with success (a short `write`); a log that reloads
switch on and off; a size estimate in wrapping `u32`; flushes in the middle of a
compaction; the order newest to oldest, which is nowhere recorded and must survive
partition, pairing and creation times; names of output files that repeat; deadlines
that only some callers look at. `PROJECT.json` lists them line by line as hazards.

**What makes each part correct.**
- Write path: a write takes effect once, at its log record; a crash keeps what was
  logged; a restart gives back exactly that; a flush changes no readable value; the size
  never falls below the bytes in memory; a memtable over its limit is flushed.
- Compaction: no entry is deleted with its last copy; the newest entry of a key stays the
  one readers find; every level is compacted in the end.
- Reader: a reload never costs it an entry, though the coordinator renames and deletes
  tables between any two of the reload's steps; a Get that began with an up-to-date reader
  answers with a value of its time; what is flushed becomes readable in the end.
- Tables: written by two pieces of code and read by two others, none of which share any;
  the reader finds exactly a table's records, a compaction reads back exactly them, and the
  join of two tables has of every key the newer record.
- Log: the parser rebuilds exactly what was appended, and takes no log that was cut short.

## Modules

| module | what it is |
|---|---|
| `KVStore` | the abstract store: one dictionary, the part of it that a crash cannot take, the keys written since the last flush; writes, flushes, crashes, recovery |
| `Memtable` | write handlers, memtable, log, flush, process life; refines `KVStore` |
| `LogParser` | the log byte by byte: the encoding, and `rebuild_memtable` one record a step |
| `Compaction` | the coordinator and the directory tree, with flushes going on |
| `ReadPath` | extends `Compaction` with the memtable, the reader's snapshot, its reload tasks and Get |
| `SSTable` | the table format as its three users have it: flush, frame, search; the Bloom filter |
| `TableMerge` | extends `SSTable` with the merge loop of `join_tables` |
| `RecursionTheorems` | lemmas on recursive functions: that they exist, and induction up to a bound |
| `Memtable_proofs` | theorems about `Memtable`: no flush or crash loses a write, the refinement of `KVStore`, the size |
| `LogParser_proofs` | theorems about `LogParser`: the encodings read back, whole logs only |
| `TableMerge_proofs` | theorems about `TableMerge` with `SSTable`: the join, the search, the reading back |
| `Compaction_proofs` | theorems about `Compaction`: types, files that are there, the order within a unit |
| `CompactionErasure_proofs` | extends it: that nothing is erased |
| `CompactionView_proofs` | extends it: the order of the levels and what readers find, where a level fits in a unit |
| `ReadPath_proofs` | extends it: `ReadPath` is a `Compaction`, what a Get answers, and that a reload loses nothing |
| `MCMemtable`, `MCLogParser`, `MCCompaction`, `MCReadPath`, `MCTableMerge` | instances for TLC |

The modules meet where one takes in a single step what another takes apart. `Memtable`
replays a log at once, as `LogParser` does record by record; `Compaction` joins two files
at once, as `TableMerge` does record by record, and reads a file at once, as `ReadSection`
of `SSTable` does by lengths; `ReadPath` asks a table for a key as a function, as `Lookup`
of `SSTable` does by range, filter and index.

### Memtable

`pc` is the program counter of the lock's holder: `log` (write_entry), `apply` (size and
map updated, should_flush asked), `create` (flush up to `File::create`), `write`
(`write_all`, `sync_all`), `clear` (`wal.clear` and the reset). `todo` is the rest of a
batch. `wal` is the sequence of records with the file's length after each, and whether
the record is complete; `tables` is `data/l1`, oldest first. `mem`, `size`, `config`
and `expired` are `in_memory_repr`, `current_size_bytes`, the configuration and
"now > `flush_by`". `exiting` is the pending `exit(0)` of a graceful shutdown.
Requests start at `idle` and only put work in `todo`: the lock is theirs from then on.

Environment: `Crash` at any step; `Faults` allows `io_error` (any file operation of the
writer), `short_write` and `power_loss`. `Restart` is enabled only where the program
would start: `Parses` is the verdict of rebuild_memtable, `Opens` that of
`LsmTreeReader::new`. The log is replayed in order and kept, its length becomes the size.

Abstractions: a key and a value are told apart by name and length only. A table is whole,
too short to be opened, or opens and shows nothing (its footer is missing, so that its
key range is wrong). A short record is one byte short: the parser's verdict on the whole
log is taken to be the same for any count. That is so when the log ends there, which
`LogParser` shows; when more records follow a cut one, lengths are read from the middle of
them and the log may by chance parse, to contents that were never written (`ShortWrites`
of `LogParser`), which `Parses` of `Memtable` leaves out. A process
crash keeps what was written, since the page cache survives it. After a power loss only
the log's end may be missing; truncating it (`set_len`) is taken for durable, and so is a
table after `sync_all`. Arithmetic wraps: the dockerfile builds `--release`.

### Compaction

`files` maps a path (level, name, extension) to contents, creation time and form:
`table`, `raw` (a bare data section, the output of a join), `growing` (a table the
memtable is writing) or `bad` (cannot be read). `pc` follows the coordinator: `visit` (a
level of monitor), `units` (the loops of size_tier_compaction), `join`, `drain`, `frame`,
`sweep` (the steps of compact). Names of outputs are unit, pass and pair, as in the code,
so that they repeat; `Rename` and `Create` replace and truncate as the system calls do.
Each failing step (`JoinFails`, `DrainFails`, `FrameFails`, `SweepFails`, `PromoteFails`)
leaves what was done before the error and goes on where the code does. `Crash` leaves the
file being written as it is and starts anew at level 1 with a fresh interval. A flush is
two steps, `FlushBegin` and `FlushEnd` or `FlushTorn`, so that the coordinator can
meet the table in between. Entries are named by the flush that wrote them; `store` is the
history variable "what the completed flushes hold".

Abstractions: creation times are a strict order (seconds in the code; `ReadPath` has the
ties). The merge of two sorted files is a function of their contents. Reading a table
that is being written, or never was finished, fails, or, with the fault `part_read`, gives
some of its entries: the length read from the file decides (`TablesReadBack`). The last
write of a join that is still under way when its file is read, or is lost with its error,
shows as a failure of the next step. `level.filter` is written and
never read; it is left out. The listing and the decision to compact are one step.

### ReadPath

`mem` is `in_memory_repr`. `snapshot` is `level_array`: for each level the contents and
creation times of the tables opened at the last reload. An open file outlives its name, so
that the snapshot does not depend on `files` once it is loaded. `waiting` counts the reload
tasks that the closure of `main.rs` 40-51 has spawned and that wait for the write lock;
`reloading` is the one that has it. `create_level_array` is a loop of two steps per level:
`ReloadLists` reads the directory, `ReloadOpens` opens what was listed and builds the map,
with its key (second, index, largest key) under which two tables may fall together;
`ReloadFails` ends the task with the old array in place when a listed file is gone or too
short. The last level's `ReloadOpens` replaces the array. The coordinator takes its own
steps in between: `Coordinates` is that of `Compaction`, with `SpawnReload` for `Finish`.

`get` is a Get (`service.rs` 148-240) between its halves. `GetMissesMemory` is the look
under the memtable's lock, when it does not find the key; `GetFromDisk` is `read` on the
snapshot, once no reload holds the lock, with any of `GetAnswers`: the first level with a
hit decides, and in it the newest second. A Get that finds the key in memory changes
nothing and has no action. `current` and `fresh` are history: the values the key has had
since the Get began, and whether the reader was up to date then. `asOf` and `calm` are
history of a reload: what the completed flushes held when it began, and whether it listed
only levels of which no table was on its way to the next one.

Abstractions: no file operation fails and the process does not end (those faults are in
`Compaction` and `Memtable`; here they would only add states in which the reader keeps its
old snapshot); the size of the memtable, its timer and its log are left out, and a flush
may come whenever there is an entry. Writes are bounded by the flushes (`MaxFlushes`),
deletes to those before the flushes in `DeletesIn`. A reload that is spawned while
`MaxReloads` are pending makes the coordinator wait for them; in the code it does not wait.

### SSTable and TableMerge

A record is a key, whether it is a tombstone, and the table it comes from; its bytes are
counted, not spelt. A table is a filter, an index, records and a footer. The index is a
function on the places of the records that are marked, in their order. `FlushIndex` and
`FrameIndex` mark blocks by the two rules of `flush` (`mem.rs` 608-695) and
`build_from_data_section` (`compaction.rs` 604-736). `Lookup` is what `read` (`disk.rs`
159-213) does with one table: key range from the first index entry and the footer, filter,
then `Search` from the last mark not above the key. `ReadSection` is `to_data_section`
with the reads after it, on the first `len` bytes of the file. `Filter` and `ProbablyExist`
are `generate_filter` and `probably_exist`, with the hash a constant, any function to
pairs of numbers.

`TableMerge` has the two cursors (`lp`, `rp`) and the output. `SkipLeft` and `SkipRight`
are the loop of `read_next_non_tombstone_entry`, which comes before anything is written:
`WriteLeft` and `WriteRight` ask that both sides have a record to show or are at their end.
`TakeLeft`, `TakeRight`, `TakeBoth` are the three orders of two keys, `DrainLeft` and
`DrainRight` the loops after one side has ended, `BuildTable` the frame around the result.

Abstractions: a key is a number in the order of the byte strings; checksums are always
right; values of one table have one size; a scan that runs into the footer is an error.

### LogParser

`log` is the file's bytes, `idx` is `curr_idx`, `mem` and `size` what the parse builds.
`Finish`, `StopsShort`, `Rejects` and `Inserts` are the ways one turn of the loop
(`mem.rs` 751-813) can go, with the bounds checks in their order in `InBounds`. `Encode` is
`to_wal_entry` and `serialize`: `Names` is the order in which a `BTreeMap` gives its keys,
that of their bytes. `Deserialize` and `DeserializeMeta` are the way back, and `NextName` one
turn of the loop over the names; there are at most as many turns as bytes, and a turn at the
end of the bytes changes nothing. Decoders give a set, of one value or, of malformed bytes,
none. `Init` has every log that some appends can leave, the last one cut at any byte.

A length that is too large for its field is cut to the field's low bytes, in `LE` as by the
cast in the code. The theorems about the log therefore assume that lengths fit (below). A
name need only be bytes; the code panics (`mem.rs:222`) at one that is not UTF-8, which no
encoder wrote.

## Runs

`CHECK_DEADLOCK FALSE` stands in the configurations of `Memtable`, `Compaction` and
`ReadPath`: a stopped process may stay stopped, or find a log it will not parse, and the
bounds stop the clients (`MaxWal`, `MaxTables`), the flushes and the compactions. The runs
of `TableMerge` and `LogParser` check deadlock: the two loops always come to their end.

| run | bounds | shows |
|---|---|---|
| `MemtableLogged` | 2 keys, 2 values, batches of 2, 2 records, 2 tables, io errors, log always on, two size limits by reload | `FlushNeverPanics`, `LogIsMemtable`, `CrashKeepsWrites` |
| `MemtableToggle` | the same, 1 value, no failing file operation, log switched and the limit lowered and raised by reload, fair | `LogInMemory`, `ImplementsKVStore`, `OverLimitDrains` |
| `MemtableFaults` | 2 keys, 1 value, all faults, log on and off, remote disk | `TypeOK`, `SizeCoversEntries`, `FlushInv`, `FlushKeepsView` |
| `CompactionFaults` | units of 3, 1 key, 5 flushes (one unit of three and one of two), 2 levels, crashes, io errors, torn flushes, 1 compaction | `TypeOK`, `UnitKeepsOrder`, `NothingErased` |
| `ReadPath` | units of 3, 1 key, 3 flushes, deletes before the second, 2 compactions, 1 level below which tables stay, 1 pending reload, one file a second, fair | `StoreTypeOK`, `ViewKept`, `UpperLevelNewerEntries`, `ReloadLosesNothing`, `GetIsAtomic`, `FlushedBecomesReadable` |
| `TableMerge` | all pairs of sections over 4 keys, 2 of them of one byte, one too long for a footer; colliding hashes | `TypeOK`, `MergedSoFar`, `TablesAnswer`, `TablesReadBack` |
| `LogParser` | all pairs of records over 3 keys and 10 entries, the last one cut anywhere; lengths of 2 bytes | `TypeOK`, `ParserInStep`, `TakesWholeLogsOnly` |

Why the bounds are enough. A property of the write path relates one record, one entry and
one table of a key to another one's: two keys and two records give overwrites, a key that
is in the log and one that is not, a batch stopped half way, a flush in the middle of a
batch, a second table over a first. The sizes are set so that two long values come to the
limit exactly and every other pair stays below it, and one value reaches the limit of the
tight configuration. The modulus `U32` is above anything the log comes to in a run, as 2^32
is for every log that a disk of usual size is likely to see; past it see below. In
compaction, contents depend on keys pointwise, so that one key is enough where only one
key's entries are compared; five tables cut by three give a full unit with two passes and
an odd table, and a short unit. One compaction per behaviour is a restriction that
matters: with two, `NothingErased` fails (below). `ViewKept` needs that no operation fails
and that a level has no more tables than one unit takes. It is therefore checked in
`ReadPath`: three tables make one unit with an odd table and two passes, and two make one
that leaves a later flush above its output. The fault `part_read` is only in `PartRead`, the
run that shows what it does; with it `NothingErased` fails too.

In `ReadPath` a reload has two levels to load, and both compactions, a flush under way and
a Get fall between any two of its steps. One pending reload is enough for a reload to
overlap the next compaction, which need not wait for it before its end. Properties of the
reader compare one key's entries.

In `TableMerge` four keys give every interleaving of two sections with a record skipped at
the start, in the middle and at the end, on one side and on both; the records' sizes meet
both block sizes exactly and exceed them, so that blocks of one record and of two
occur; a cut is tried at every byte behind the index. In `LogParser` keys and values are
chosen to look like lengths, flags and tombstones; a parser that is in step after one record
is in the same state as at the start, so that two records show every transition. The merge,
the search, the reading back and the parse of the log are proved for all lengths.

Runs that end in a violation, each of something the repository says:

| run | property | what happens |
|---|---|---|
| `TornTable` | `TablesOpen` | a crash during a flush leaves a table with which the program no longer starts |
| `OldestLeft` | `UpperLevelNewerEntries` | the table left out of the units is the oldest, and stays where readers look first |
| `NameClash` | `NothingErased` | a second compaction's output replaces the first one's in the next level |
| `StaleRead` | `ReadsNewest` | a value that was flushed is in neither the memtable nor the snapshot, and Get does not find it |
| `PartRead` | `FlushesKept` | a join takes a part of a table that is being written; the flush ends and truncates the log, the table is drained and deleted, and its entries are gone |

`PartRead` needs two tables and one compaction, and no other fault: the newer of the two
tables of a unit is the one being written when the first join opens it. The property is
`FlushesKept`, which speaks of tables whose flush has ended and lets a newer entry stand in
for an older one. `NothingErased` wants the newest such entry itself, and with `part_read` it
fails already when an entry of a flush that has not ended takes its place. Neither file nor
directory tells a table being written from a finished one, so that the coordinator's only
guard is that the read fails, which `UnitKeepsOrder`, `NothingErased` and `ViewKept` rely on
in the other runs.

The same modules show the following, with other constants and with the properties above;
they have no configuration here. They are the reason for the hypotheses of the runs and
theorems.

- `DeepLevelsCompact` fails under `FairSpec` with two levels: `compact_by` is one for all
  levels and is reset by the first level visited (`compaction.rs:112`), whether it had
  anything to compact; the levels below it find the interval not over, round after round,
  though `config.md:35` speaks of an interval at which the tree is checked.
- `LogReplays` fails when the empty key is deleted: `put` refuses it (`service.rs:29`) and
  `delete` does not, the parser (`mem.rs:768`) takes a key length of 0 for damage, and after
  a crash the program no longer starts.
- `RamMaxTimeBounds` fails: the deadline is looked at by writes only (`mem.rs:828`), so that
  without further writes nothing is flushed.
- With `ShortKeys`, the keys of one byte, `ViewKept` fails: `is_tombstone`
  (`compaction.rs:827`) compares the length of the key, so that the tombstones of such keys
  are dropped by a join, and a value in an older table is back.
- With `short_write`, `LogReplays` fails: `write_entry` (`mem.rs:1175`) takes any count of
  `write(2)` for success, and the records after a partial one cannot be parsed.
- With `power_loss`, `CrashKeepsWrites` fails: the log is written and never synced.
- With the log off in the file and switched on by a reload, `ImplementsKVStore` fails: the
  start (`mem.rs:401`) does not look at the log of the run before.
- With the log off, a graceful shutdown (`mem.rs:882`) drops the memtable.
- With a log past `U32` bytes, `SizeCoversEntries` fails: `rebuild_memtable` (`mem.rs:814`)
  takes the length modulo 2^32, and overwrites let a log outgrow its entries.
- With `localDisk: false`, which is accepted, `FlushNeverPanics` fails (`mem.rs:705`), and
  the poisoned lock refuses every request from then on.
- With two units, outputs are created in the order newest to oldest (`compaction.rs:174`),
  so that `ViewKept` fails: the oldest entries are in the newest file.
- With `io_error` or `torn_flush` or `crash`, `ViewKept` fails: tables renamed to `.drain`
  and outputs left as `.tmp` (`compaction.rs:392`) are found by no reader.
- With `crash` and two compactions, `NothingErased` fails: the `.tmp` file that has the
  only copy is truncated by the next join (`compaction.rs:380`).
- With two files in a second (`FilesPerSecond = 2`), `ReloadLosesNothing` fails: tables of
  one second are searched in any order (`disk.rs:454`), and two with the same index and
  largest key are one key of the level's map (`disk.rs:282`).
- Without `calm`, `ReloadLosesNothing` fails: a reload that lists a level while the next
  compaction has its tables renamed to `.drain`, or its outputs still at `.tmp`, lacks
  their entries until the next reload. Nothing orders the two tasks.
- A table that was cut short makes every later reload fail, as it does the start: the
  reader stays with what it has, and no longer sees what is flushed or compacted.
- A failing level summary (`compaction.rs:213`) returns before the callback: no reload.
- A footer above 10000 bytes counts as none (`disk.rs:352`): a table whose largest key has
  more than 9996 bytes answers no key. `TablesAnswer` states it as it is.
- A cut table can be read as a proper part of itself, if the cut and the bytes taken for a
  footer fall well; `TablesReadBack` states that it is never anything else.
- `NeverPanics` of `LogParser` fails: with 1 to 3 bytes left over after a record,
  `rebuild_memtable` slices out of bounds (`mem.rs:759`), where the comment at `mem.rs:750`
  promises an error. Either way the program does not start.
- With `ShortWrites`, `TakesWholeLogsOnly` and `ParserInStep` fail, as said above.
- A Get answered from disk gives the serialized value, length prefix and metadata included
  (`service.rs` 224-239), where one answered from memory gives the value and its metadata.
  No module has the two forms: entries stand for both.

## Fairness

`FairSpec` of `Memtable`: weak fairness of the lock holder's step and of the timer. The
holder is a thread that never waits while it holds the lock; the clock runs. No fairness of
requests, restarts, reloads. `FairSpec` of `Compaction`: weak fairness of the coordinator's
task (the runtime polls it; it takes no lock that anybody keeps), of the end of a flush,
and of the clock; none of the start of a flush. `FairStoreSpec` of `ReadPath`: the same,
and weak fairness of the reload tasks, which the runtime polls and which wait only for the
reader's lock, kept by nobody for ever; none of writes and Gets. `FlushedBecomesReadable`
gives way when the bound on compactions is reached: the coordinator of the model can then
stand still before a level that wants to be compacted. `DeepLevelsCompact` gives way when the
bound on compactions is reached, so that its counterexample is not the bound's: it is a
loop in which the interval always ends before the visit to the first level, as it does
when the task sleeps between rounds.

## Proofs

### Memtable

`Memtable_proofs` proves, for any keys, values, lengths, configurations and bounds:

| theorem | hypotheses | result |
|---|---|---|
| `TypeCorrect` | | `TypeOK` always |
| `FlushCorrect` | | `FlushInv` always |
| `FlushSafe` | | `FlushKeepsView` |
| `LogCorrect` | the log on in every configuration, no short write | `LogIsMemtable` always |
| `CrashSafe` | the same, no power loss | `CrashKeepsWrites` |
| `LogInMemoryCorrect` | the log on in every startup configuration, no short write | `LogInMemory` always |
| `Refinement` | the same, no power loss | the write path implements `KVStore` |
| `SizeCorrect` | always `SizesFit` | `SizeCoversEntries` always |
| `FlushAlwaysWorks` | the same, every configuration has a local disk | `FlushNeverPanics` always |

The assumptions are those the modules name: tombstone and "no entry" are not values,
lengths are naturals, configurations are records of the right type.

The argument. `FlushKeepsView` is not inductive: the step that empties the memtable is safe
because of what the two steps before it did. `FlushInv` is what they leave: while the table
is being written it holds the memtable's entries and is not yet readable; when the log is to
be truncated every entry of the memtable is the newest readable one on disk. With `TypeOK`
it is inductive, and the lemmas about `NewestTable` (a new unreadable table changes no
answer, a table that becomes readable answers for all its keys) carry the steps.
`LogIsMemtable` says that replaying the log gives the memtable with the write that is logged
and not yet applied; the lemma on `Replay` of an appended record is its core, and since the
log and the tables then hold the view in every state, ending the process anywhere loses
nothing. With reloads that switch the log off and on the log may lack entries;
`LogInMemory` is the weaker invariant that remains, and it suffices for the refinement: the
abstract dictionary is the view while the process runs and the durable state while it does
not, the safe part is the durable state, the buffered keys are those with an entry in memory. Every action is shown to be a step of `KVStore` (a write, a
persist, a flush, a crash, a recovery, a change of logging) or a stutter; that the step
which clears the log is a flush, after which everything is safe, is where `LogInMemory` is
needed. The run `MemtableToggle` checks the refinement without failing file operations, the
theorem has them.

`SizesFit` says that neither the log's length nor the size a write arrives at reaches 2^32;
past it `SizeCoversEntries` fails, as said above. The bytes of the entries are a set
(`Held`), one element for every key and place in its record, so that the library's facts
about cardinality say what a write changes (`HeldWrite`) for any number of keys. The
property is not inductive, since a restart takes the size from the log: `SizeInv` adds that
the log's length, up to any record before the first broken one, covers the entries that
this much of the log gives. It is stated of every part because a power loss leaves any
part. Overwritten records only make the log longer. A flush divides by the size;
it begins only after a write, so that there is an entry, the size is not zero, and the
panic is out of reach (`FlushReady`).

### TableMerge

`TableMerge_proofs` proves, for any finite set of keys, lengths of keys, and two sorted
sections of any length:

| theorem | result |
|---|---|
| `TypeCorrect` | `TypeOK` always: no record is read behind the end of a section |
| `MergeCorrect` | `MergedSoFar` always: the output is sorted, and is the join of all the merge has behind it |
| `ReadersFind` | `TablesAnswer` always: in a flush's table and in the merge's the reader finds every record and no other |
| `SectionsReadBack` | `TablesReadBack` always: a compaction reads a whole table back, and of a cut one first records or nothing |

The assumptions are those `SSTable` and `TableMerge` name: keys are positive numbers,
finitely many; lengths, block sizes, strides, bits and the range of the hashes are positive
numbers, the hashes any; the two sides are among the sources.

The merge. `MergedSoFar` is not inductive:
it speaks of the keys that are behind, and which those are changes also when a tombstone
is skipped and nothing is written. `IInv` says instead that what is written is exactly what
of the join has been read, and that each side's records, once read, come before all that
the other side has yet to offer (`Precedes`), tombstones excepted, which are skipped
wherever they stand. `ReadIsBehind` leads from the one to the other: a record of the join
has been read if and only if its key is behind. The step lemmas say for each side what
reading on adds (`LeftReadNext`), that a record that counts is in the join (`LeftJoined`,
`RightJoined`; the right one because an equal key on the left would have been met), and
that of two equal keys only the left one is (`EqualKeys`).

The tables. The offsets of the records, the bytes since the last mark and the length of the
index are recursive functions of the data. Two facts are needed of each: that there is a
function of the kind the recursion describes, for otherwise `CHOOSE` says nothing of it
(`IteratesExist`, `SumExists`), and what it then computes. Both are proved by the least
counterexample: `Least` (of `RecursionTheorems`, as `IteratesExist` is) gives the smallest
number at which the fact fails, and one step of the recursion refutes it. So later records
start at later bytes (`OffsetsRise`), and of either index all that the search needs is
`Indexed`: a mark says where its record starts and what its key is, and the first record has
one (`FlushIndexed`, `FrameIndexed`). Where else the marks are makes a search longer or
shorter, never wrong: from the last mark not above the key the scan meets the key's record
or passes its place (`ScanAnswers`, `SearchAnswers`), the key's range is that of the records
because they are sorted, and the filter never denies a key it was built from, whatever the
hashes (`FilterKeeps`). Reading back, the file's length less header, index and footer is
where the last record ends, since the index has a length at all (`DataOffsetType`), and by
`OffsetsRise` exactly the records start before that (`ReadsBack`). `Framed` says that the
merge's table is made of all that was written and nothing after it.

### LogParser

`LogParser_proofs` proves, for any keys and entries, metadata included, length fields of any
size and any number of records:

| theorem | hypotheses | result |
|---|---|---|
| `TypeCorrect` | | `TypeOK` always |
| `StaysInStep` | no short write, lengths fit | `ParserInStep` always |
| `WholeLogsOnly` | the same | `TakesWholeLogsOnly` always |

The assumptions are those `LogParser` names: keys are sequences of bytes and not empty,
entries are values of bytes with or without metadata, a length field has a byte at least.
"Lengths fit" is `LengthsFit`: the length of every key and of every serialized entry is
below 256 to the number of bytes of a length field, 2^32 in the code. It is needed: a longer
one is written as its remainder, and the parser loses step. The parts of an entry then fit
too, since they are shorter than it is (`EntryFits`).

`TypeCorrect` needs neither: it is about a parse of arbitrary bytes. Whatever the log
holds, the index does not pass its end, and what the decoders accept is an entry. The
bounds checks carry this: a length read from the log is any number, and each slice is within
the log because of the check before it (`TakenType`, `DeserializeType`).

That the parser stays in step is that every decoder undoes its encoder, in place. `Holds`
says that a sequence has another one at an index; all that is read back is stated of a
longer sequence that holds the encoding, with anything behind it, so that the lemmas can be
composed: a number (`LEReadBack`), the metadata (`MetaReadBack`), an entry (`EntryReadBack`),
a record (`TakesRecord`). Metadata is the deepest of them. `Names` chooses an
enumeration in order, and one must exist (`NamesExist`): the order of byte strings is
total, so that every finite set has a last name. The loop over the names is then compared
with the encoder from the other end: after k turns the map has the first k names, and
what is left of the bytes is the encoding of the other ones.

A record of which a part is missing is refused, wherever the log ends in it (`RefusesPart`):
of a key's or a value's length field, of a key or of a value, each has a check that fails.
`RecordAfter` says that behind whole records the log has a next whole record or a part of
the last one, or is at its end, and then all was read (`AllRecordsAtEnd`), as no record is
empty. `ReplayNext` says what one more record changes in the replay. `StepInv`, the
inductive invariant, is `ParserInStep`, that the log is what the appends left
(`LogOfRecords`), and how the parse ended: done at the log's end, or stopped at a log
that is not whole (`Ending`).

### Compaction

`Compaction_proofs`, `CompactionErasure_proofs` and `CompactionView_proofs` prove, for any
keys, units of any size from two, any number of levels, any set of faults and any bounds:

| theorem | hypotheses | result |
|---|---|---|
| `TypeCorrect` | | `TypeOK` always |
| `FilesAreThere` | | every file the coordinator has in mind (waiting units, the pass's input and outputs, what is to be promoted) is there, none twice, and none of them is about to be deleted |
| `UnitOrder` | joins read whole tables | `UnitKeepsOrder` always |
| `ErasesNothing` | the same, always `NamesFresh` and `AgesOrdered` | `NothingErased` always |
| `FirstErasesNothing` | joins read whole tables, at most one compaction | `NothingErased` always |
| `LevelsInOrder` | always `NamesFresh` and `Fits` | `UpperLevelNewerEntries` always |
| `FittingErasesNothing` | the same, joins read whole tables | `NothingErased` always |
| `ViewStays` | always `NamesFresh` and `Fits`, no fault, no key of one byte | `ViewKept` always |
| `FirstViewStays` | no fault, no key of one byte, at most one compaction and as many flushes as a unit takes | `ViewKept` always |

The assumptions are those `Compaction` names: one-byte keys are keys, units are of at least
two tables, there is a level, "no entry" is not an entry. "Joins read whole tables" is
`"part_read" \notin Faults`. `NamesFresh` and `AgesOrdered` are conditions on states, which
the code relies on and does not establish: no output and no rename meets a file that has
the name already, and where a compaction may begin the tables of the level that were created
later have the newer entries. The run `NameClash` shows what happens when the first fails;
with units that leave a table (`OldestLeft`) the second does. `FirstErasesNothing` has
neither: for the first compaction after a start with an empty directory both are proved,
from an invariant about which names exist (`FirstInv`), crashes and errors included.
`Fits` says that a compaction that is due finds no more tables in its level than one unit
takes: it then leaves none out and has one output. That is how the program runs as long
as a level gets no more tables than that from one compaction of it to the next; without it
the order of the levels is lost, as `OldestLeft` shows. `FittingErasesNothing` needs no
`AgesOrdered`, which follows. `NamesFresh` stays: names repeat after any compaction.

The argument. `TypeInv` is the inductive invariant of the first two: besides types it says
that creation times differ, that units are disjoint and in the order of creation, that
outputs are numbered by pass and pair so that no two files of a unit have one name, and
that what is consumed is in none of the other lists. The lemmas under it are about the
operators of `Compaction`: what `Create`, `Rename`, `Without` and `DrainOne` leave of a
directory; that `Listing` is sorted and has no table twice (the number of newer tables is
a bijection to 0..n-1); that `Partition` cuts it into disjoint runs of at least two; and
how `Overlay` behaves on a concatenation, so that an output that stands for a pair at the
same place of the queue changes nothing, which is `UnitOrder`. `UnitKeepsOrder` needs a
stronger invariant only at the drain, where the queue is the one of the next step.

`NothingErased` is not inductive: a sweep deletes files, and that they are no longer needed
is because of what the joins before did. `ErasureInv` says that an entry of an output is in
one of the files it was made from (`Backed`), as long as these are not deleted; that no
file of the unit has a newer entry than its input (`Dominated`), so that, by
`UnitKeepsOrder`, the one output left at the end has every newest entry that a deleted file
has; and that no file has an entry newer than `store` (`StoreTop`).

`UpperLevelNewerEntries` is about tables that are there, and a promotion brings a table
whose entries were elsewhere for the length of a compaction. `LayerInv` follows them. It
orders all tables, by level and within a level by creation (`Layered`), and says of every
file that stands for a part of the compaction at work, input, intermediate or output, that
its entries belong between the tables left in the level and the levels below (`InPlace`),
and that an output is created last (`Latest`). It holds when the unit begins because the
unit has all tables that were listed, and what is flushed meanwhile is newer
(`ListedAll`); it stays through the joins because a join has no other entries than its two
sides; and it is the order of the tables again when the output is promoted. For this it
does not matter which of the files are whole: it holds with every fault there is.

`ViewKept` speaks of the moments between compactions only, and a compaction has no table
with the newest entry while its tables are drained. `ViewInv` says where the entry is
then: always in a whole file that is a table or stands for tables of the compaction
(`StoreStands`; `PairJoined` says that the last output has what its two sides have).
When a pair is drained, the entry is in what is left of the unit, since by `Dominated`
and `StoreTop` it is the unit's input for its key, and by `UnitKeepsOrder` the queue
still has that; a sweep leaves the output, which has its header and index by then
(`Framed`). No table is unreadable but the one a flush is writing (`TablesReadable`),
and a unit that took this one along fails at its first join with nothing drained,
because it is the newest of its level (`GrowingLatest`, `GrowingLeads`). Between
compactions only the tables stand, and by `Layered` a reader meets no older entry of the
key before it. Keys of one byte are excepted since a join drops their tombstones and
brings back what they deleted, faults since they leave tables unreadable or under names
that no reader looks for; both are in the list of failing properties above.
`FirstViewStays` shows the conditions are met, by `FirstInv` and because before its
compaction a level has at most the tables of the flushes.

### ReadPath

`ReadPath_proofs` proves, for any number of levels, keys, flushes and compactions:

| theorem | hypotheses | result |
|---|---|---|
| `StoreIsCompaction` | | every behaviour of `ReadPath` is one of `Compaction`: what is proved there holds here |
| `StoreTypeCorrect` | | `StoreTypeOK` always |
| `GetAtomic` | always `ReloadLosesNothing` | `GetIsAtomic` always |
| `ReloadsLoseNothing` | always `NamesFresh` and `Fits`, one file a second, no fault, no key of one byte | `ReloadLosesNothing` always |
| `GetsAreAtomic` | the same | `GetIsAtomic` always |
| `FirstReadsHold` | one file a second, no fault, no key of one byte, at most one compaction and as many flushes as a unit takes | both always |

The assumptions are those of `Compaction` and `ReadPathAssumption` (there is a key, at least
one file a second and one pending reload). `GetAtomic` separates the concerns: if reloads
lose nothing, which is a matter of the directory, then a Get that began with an up-to-date
reader is atomic, whatever is written, flushed and reloaded between its look at the memory
and its look at the tables. `GetInv` is the inductive invariant. An entry's age is the flush
that wrote it. No file and no open table has an entry newer than the store's or the one
being written (`TopOK`), the loads of the reader follow one another in age (`AsOfOK`), and
for a Get at work there is an age such that its key has had, since the Get began, the value
of every entry of that age or later that is anywhere, and that a fresh snapshot was at least
as old as (`GetOK`). What a Get finds in the snapshot is then at least of that age if the
snapshot was fresh, and in `current`. The first three theorems hold for any number of files
a second.

That reloads lose nothing is proved from what `CompactionView_proofs` has of the
directory. A reload goes down the levels, and so does a compaction, with its table between
two levels and under a name that no reader looks for while the reload passes. `ReloadInv`
says, of every key flushed before the reload began: either the tables loaded so far have it
and a reader meets no older entry first (`Leads`), or none of them has the key and it is
still ahead (`Ahead`). Ahead is the level to list next, or a lower one; and between the
listing and the opening of a level, a listed table, or a lower level, or what came of a
listed table that is gone, in which case the reload fails and the old snapshot stays. It
remains ahead because what stands for an entry moves only forward (`NextOnward`): it stays
in its level, as an output once the table it was in is gone, or goes down, so
that it passes the reload in one direction only. A table that is gone stays away
(`StaysAway`), as names do not repeat. When a level is listed, the entry is in a table,
since `calm` says that none is in transit (`StandsInTable`); when it is opened, one file a
second means that the map by second, index and largest key drops none of the tables
(`AllMapped`), and by `Layered` and `InPlace` what was loaded from the level above or from
the same level later is newer (`UpperNewer`, `LevelLoaded`). `FirstReadsHold` shows that the
conditions are met, as `FirstViewStays` does.

### Model-checked only

`OverLimitDrains` and `FlushedBecomesReadable`: they are liveness. Every other property of the
runs that end without a violation is stated by a theorem.

## Not modelled

- Range (`service.rs` 382-461): it reads the memtable only, in one step under its lock, and
  changes nothing; it never looks at tables.
- `validate` of configurations: pure checks of single numbers and paths. What the modules
  assume of a configuration is less than it demands.
- Metrics: counters for display and a thread that writes them out; nothing reads them back.
- Logging, the gRPC layer, the start of the server: output and generated code.
- The level summary: written after a compaction and never read. What depends on it is only
  that its failure skips the reload.
- Crashes and failing reads in `ReadPath`, as said there.

The tests, the container and the CI files carry no behaviour of the program.

## Plan

`ReadPath` with crashes: the snapshot after a start is a reload that nobody else's steps
interleave with.
