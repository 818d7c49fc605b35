------------------------------ MODULE Memtable ------------------------------
(***************************************************************************)
(* The write path of swift-merge: the gRPC write handlers (service.rs),    *)
(* the memtable they update and the write-ahead log and SSTable files it   *)
(* leaves on disk (memtable/mem.rs), through errors, crashes and restarts. *)
(*                                                                         *)
(* A write handler holds the memtable's lock from its first log append to  *)
(* its last flush, so there is one writer; its steps are separate actions  *)
(* because the process can end, or the file system refuse, between any two *)
(* of them.  pc says which step the holder of the lock takes next:         *)
(*                                                                         *)
(*   idle ---> log ---> apply ---> create ---> write ---> clear ---> idle  *)
(*              ^---------+ (no flush due, more of the batch to do)        *)
(*                                                                         *)
(* "poisoned" is a process whose lock holder panicked: it runs, and every  *)
(* handler fails.  "down" is no process.  Disk is wal and tables; all the  *)
(* other variables are memory.                                             *)
(***************************************************************************)
EXTENDS Integers, Sequences, FiniteSets

CONSTANTS
  Keys, Values,     \* what clients write
  Tombstone,        \* the entry a delete leaves (None in the code)
  Absent,           \* the memtable has no entry for the key
  KeyLen,           \* KeyLen[k]: bytes of the key
  ValLen,           \* ValLen[v]: bytes of the value and its metadata
  StartupConfigs,   \* what the file named on the command line may say
  ReloadConfigs,    \* what a ReloadConfig request may say
  U32,              \* one more than the largest current_size_bytes
  Faults,           \* which of the faults below the environment may cause
  MaxBatch,         \* bound: writes in one BatchWrite
  MaxWal,           \* bound: records in the log
  MaxTables         \* bound: SSTable files in level 1

\* io_error: a file operation of the writer fails; short_write: the log's
\* write(2) stores part of the record and says so; power_loss: the machine
\* stops, and what was never fsynced may be gone.
FaultKinds == {"io_error", "short_write", "power_loss"}

Entries == Values \cup {Tombstone}
Op == [key : Keys, entry : Entries]
Config == [walEnabled : BOOLEAN, ramMaxSize : Nat \ {0}, localDisk : BOOLEAN]

\* How much of an SSTable file is there: all of it; so little that opening it
\* fails; or a part that opens, but whose footer gives a key range that
\* hides every key.
TableStates == {"whole", "short", "cut"}

ASSUME EntriesAssumption == Tombstone \notin Values /\ Absent \notin Entries
ASSUME SizesAssumption ==
  /\ KeyLen \in [Keys -> Nat]
  /\ ValLen \in [Values -> Nat]
  /\ U32 \in Nat \ {0}
ASSUME ConfigsAssumption ==
  /\ StartupConfigs \subseteq Config
  /\ ReloadConfigs \subseteq Config
ASSUME FaultsAssumption == Faults \subseteq FaultKinds
ASSUME BoundsAssumption ==
  /\ MaxBatch \in Nat
  /\ MaxWal \in Nat
  /\ MaxTables \in Nat

VARIABLES
  wal,      \* Wal.tmp: a sequence of records; end is the file's length after it
  tables,   \* data/l1, oldest file first: the entries flushed, and the file's state
  mem,      \* in_memory_repr
  size,     \* current_size_bytes
  config,   \* the configuration in force
  expired,  \* Instant::now() > flush_by
  pc,       \* the next step of the lock's holder
  todo,     \* what the holder still has to write
  exiting   \* graceful_shutdown has answered, exit(0) is pending

disk == <<wal, tables>>
vars == <<wal, tables, mem, size, config, expired, pc, todo, exiting>>

-----------------------------------------------------------------------------
(* Bytes and files                                                         *)

\* key-len | key | value-len | value, where a value is val-len | val | flag
\* and a tombstone is one byte.
EntrySize(k, e) ==
  8 + KeyLen[k] + IF e = Tombstone THEN 1 ELSE 5 + ValLen[e]

ExistingSize(k) == IF mem[k] = Absent THEN 0 ELSE EntrySize(k, mem[k])

FileLen(log) == IF log = <<>> THEN 0 ELSE log[Len(log)].end

NoEntries == [k \in Keys |-> Absent]

\* The place of the last record of k in a log: no element or one.
LastRecord(log, k) ==
  {i \in DOMAIN log : log[i].key = k /\ \A j \in DOMAIN log : j > i => log[j].key # k}

\* The memtable the log rebuilds: each record overwrites the earlier ones.
Replay(log) ==
  [k \in Keys |-> IF LastRecord(log, k) = {} THEN Absent
                  ELSE log[CHOOSE i \in LastRecord(log, k) : TRUE].entry]

\* A record the parser takes: complete, and its key is not empty.
Parses(log) == \A i \in DOMAIN log : log[i].whole /\ KeyLen[log[i].key] > 0

\* The place of the newest readable table that holds k: no element or one.
NewestTable(tbls, k) ==
  LET Holds(i) == tbls[i].state = "whole" /\ tbls[i].data[k] # Absent
  IN  {i \in DOMAIN tbls : Holds(i) /\ \A j \in DOMAIN tbls : j > i => ~Holds(j)}

DiskEntry(tbls, k) ==
  IF NewestTable(tbls, k) = {} THEN Absent
  ELSE tbls[CHOOSE i \in NewestTable(tbls, k) : TRUE].data[k]

\* LsmTreeReader::new fails on a table too short to be read.
Opens(tbls) == \A i \in DOMAIN tbls : tbls[i].state # "short"

WithState(s) == [tables EXCEPT ![Len(tables)].state = s]

-----------------------------------------------------------------------------
Init ==
  /\ wal = <<>>
  /\ tables = <<>>
  /\ mem = NoEntries
  /\ size = 0
  /\ config \in StartupConfigs
  /\ expired = FALSE
  /\ pc = "idle"
  /\ todo = <<>>
  /\ exiting = FALSE

-----------------------------------------------------------------------------
(* Requests: a handler takes the lock                                      *)

WithinBounds(n) == Len(wal) + n <= MaxWal /\ Len(tables) + n <= MaxTables

Begin(ops) ==
  /\ pc = "idle"
  /\ WithinBounds(Len(ops))
  /\ todo' = ops
  /\ pc' = "log"
  /\ UNCHANGED <<wal, tables, mem, size, config, expired, exiting>>

\* validate_put_request: neither the key nor the value may be empty.
Put(k, v) ==
  /\ KeyLen[k] > 0
  /\ ValLen[v] > 0
  /\ Begin(<<[key |-> k, entry |-> v]>>)

\* Nothing validates the key of a delete.
Delete(k) == Begin(<<[key |-> k, entry |-> Tombstone]>>)

\* The puts in order, then, in the order of a hash set, each deleted key that
\* was not put: every order that can come out of that.
IsBatch(ops) ==
  \E puts \in 0..Len(ops) :
    /\ \A i \in 1..puts : ops[i].entry \in Values
    /\ \A i \in (puts + 1)..Len(ops) :
         ops[i].entry = Tombstone /\ \A j \in 1..(i - 1) : ops[j].key # ops[i].key

Batches == {ops \in UNION {[1..n -> Op] : n \in 1..MaxBatch} : IsBatch(ops)}

BatchWrite(ops) == ops \in Batches /\ Begin(ops)

-----------------------------------------------------------------------------
(* put and delete, one write of todo at a time                             *)

\* Mutant: the loop over a batch runs once too often.
NextWriteAgain(rest) == "log"

NextWrite(rest) == IF rest = <<>> THEN "idle" ELSE "log"

\* The handler returns an error; the writes not reached are dropped.
Abort == pc' = "idle" /\ todo' = <<>>

Record(whole, bytes) ==
  [key |-> Head(todo).key, entry |-> Head(todo).entry,
   whole |-> whole, end |-> FileLen(wal) + bytes]

HeadSize == EntrySize(Head(todo).key, Head(todo).entry)

LogAppend ==
  /\ pc = "log"
  /\ config.walEnabled
  /\ wal' = Append(wal, Record(TRUE, HeadSize))
  /\ pc' = "apply"
  /\ UNCHANGED <<tables, mem, size, config, expired, todo, exiting>>

LogSkip ==
  /\ pc = "log"
  /\ ~config.walEnabled
  /\ pc' = "apply"
  /\ UNCHANGED <<wal, tables, mem, size, config, expired, todo, exiting>>

\* write_entry takes any count write(2) returns for success.  How much is
\* missing changes nothing: a log with such a record is never replayed.
LogShort ==
  /\ "short_write" \in Faults
  /\ pc = "log"
  /\ config.walEnabled
  /\ wal' = Append(wal, Record(FALSE, HeadSize - 1))
  /\ pc' = "apply"
  /\ UNCHANGED <<tables, mem, size, config, expired, todo, exiting>>

LogError ==
  /\ "io_error" \in Faults
  /\ pc = "log"
  /\ config.walEnabled
  /\ Abort
  /\ UNCHANGED <<wal, tables, mem, size, config, expired, exiting>>

\* Mutant: the limit itself is allowed.
FlushDueAbove(n) == n > config.ramMaxSize \/ expired

\* should_flush, once the write has brought the size to n.
FlushDue(n) == n >= config.ramMaxSize \/ expired

\* Mutant: an overwrite leaves the size alone.
ApplyIgnoresGrowth ==
  /\ pc = "apply"
  /\ mem' = [mem EXCEPT ![Head(todo).key] = Head(todo).entry]
  /\ size' = IF ExistingSize(Head(todo).key) = 0 THEN (size + HeadSize) % U32 ELSE size
  /\ todo' = Tail(todo)
  /\ pc' = IF FlushDue(size') THEN "create" ELSE NextWrite(todo')
  /\ UNCHANGED <<wal, tables, config, expired, exiting>>

\* The size moves by the difference of the sizes of the new and the old
\* entry, in wrapping u32 arithmetic; manage_flush follows.
Apply ==
  /\ pc = "apply"
  /\ mem' = [mem EXCEPT ![Head(todo).key] = Head(todo).entry]
  /\ size' = (size + HeadSize - ExistingSize(Head(todo).key)) % U32
  /\ todo' = Tail(todo)
  /\ pc' = IF FlushDue(size') THEN "create" ELSE NextWrite(todo')
  /\ UNCHANGED <<wal, tables, config, expired, exiting>>

-----------------------------------------------------------------------------
(* flush                                                                   *)

\* page_size / size panics on 0, a remote disk is unimplemented!(): the
\* guard is dropped in a panic and the lock poisoned.
FlushPanics ==
  /\ pc = "create"
  /\ size = 0 \/ ~config.localDisk
  /\ pc' = "poisoned"
  /\ todo' = <<>>
  /\ UNCHANGED <<wal, tables, mem, size, config, expired, exiting>>

\* Mutant: the log is truncated before the table is written.
FlushCreateClearsLog ==
  /\ pc = "create"
  /\ size # 0 /\ config.localDisk
  /\ mem # NoEntries
  /\ tables' = Append(tables, [data |-> mem, state |-> "short"])
  /\ wal' = <<>>
  /\ pc' = "write"
  /\ UNCHANGED <<mem, size, config, expired, todo, exiting>>

\* Mutant: tombstones are not written to the table.
FlushCreateNoTombstones ==
  /\ pc = "create"
  /\ size # 0 /\ config.localDisk
  /\ mem # NoEntries
  /\ tables' = Append(tables,
       [data |-> [k \in Keys |-> IF mem[k] = Tombstone THEN Absent ELSE mem[k]],
        state |-> "short"])
  /\ pc' = "write"
  /\ UNCHANGED <<wal, mem, size, config, expired, todo, exiting>>

\* File::create under a fresh name; an empty memtable is refused.
FlushCreate ==
  /\ pc = "create"
  /\ size # 0 /\ config.localDisk
  /\ mem # NoEntries
  /\ tables' = Append(tables, [data |-> mem, state |-> "short"])
  /\ pc' = "write"
  /\ UNCHANGED <<wal, mem, size, config, expired, todo, exiting>>

\* write_all and sync_all.
FlushWrite ==
  /\ pc = "write"
  /\ tables' = WithState("whole")
  /\ pc' = "clear"
  /\ UNCHANGED <<wal, mem, size, config, expired, todo, exiting>>

\* Mutant: "dont forget to truncate the WAL".
FlushKeepsLog ==
  /\ pc = "clear"
  /\ mem' = NoEntries
  /\ size' = 0
  /\ expired' = FALSE
  /\ pc' = NextWrite(todo)
  /\ UNCHANGED <<wal, tables, config, todo, exiting>>

\* Mutant: the log is truncated only if it is on.
FlushClearsLogInUse ==
  /\ pc = "clear"
  /\ wal' = IF config.walEnabled THEN <<>> ELSE wal
  /\ mem' = NoEntries
  /\ size' = 0
  /\ expired' = FALSE
  /\ pc' = NextWrite(todo)
  /\ UNCHANGED <<tables, config, todo, exiting>>

\* The log is truncated, then the memory state reset.
FlushFinish ==
  /\ pc = "clear"
  /\ wal' = <<>>
  /\ mem' = NoEntries
  /\ size' = 0
  /\ expired' = FALSE
  /\ pc' = NextWrite(todo)
  /\ UNCHANGED <<tables, config, todo, exiting>>

\* Mutant: the memory state is reset although the flush failed.
FlushErrorResets ==
  /\ "io_error" \in Faults
  /\ pc = "write" /\ \E s \in TableStates : tables' = WithState(s)
  /\ mem' = NoEntries
  /\ size' = 0
  /\ Abort
  /\ UNCHANGED <<wal, config, expired, exiting>>

\* Any file operation of flush fails: the write that triggered it, already
\* logged and applied, is answered with an error.  The file stays as it is.
FlushError ==
  /\ "io_error" \in Faults
  /\ \/ pc \in {"create", "clear"} /\ UNCHANGED tables
     \/ pc = "write" /\ \E s \in TableStates : tables' = WithState(s)
  /\ Abort
  /\ UNCHANGED <<wal, mem, size, config, expired, exiting>>

-----------------------------------------------------------------------------
(* The timer, configuration, and the life of the process                   *)

TimerExpires ==
  /\ pc # "down"
  /\ ~expired
  /\ expired' = TRUE
  /\ UNCHANGED <<wal, tables, mem, size, config, pc, todo, exiting>>

\* update_config also restarts the flush timer.
ReloadConfig(c) ==
  /\ pc = "idle"
  /\ config' = c
  /\ expired' = FALSE
  /\ UNCHANGED <<wal, tables, mem, size, pc, todo, exiting>>

\* shutdown only logs the metrics; the process exits 100 ms later.
GracefulShutdown ==
  /\ pc = "idle"
  /\ ~exiting
  /\ exiting' = TRUE
  /\ UNCHANGED <<wal, tables, mem, size, config, expired, pc, todo>>

\* What the process leaves of a table it was writing.
TablesLeft ==
  IF pc = "write" THEN {WithState(s) : s \in TableStates} ELSE {tables}

\* A power loss takes some of the log's end, which is never fsynced.
LogsLeft ==
  LET Cut(n) == SubSeq(wal, 1, n)
      Torn(n) == [Cut(n) EXCEPT ![n].whole = FALSE, ![n].end = @ - 1]
  IN  {Cut(n) : n \in 0..Len(wal)} \cup {Torn(n) : n \in {i \in DOMAIN wal : wal[i].whole}}

ProcessEnds ==
  /\ pc # "down"
  /\ tables' \in TablesLeft
  /\ mem' = NoEntries
  /\ size' = 0
  /\ expired' = FALSE
  /\ pc' = "down"
  /\ todo' = <<>>
  /\ exiting' = FALSE
  /\ UNCHANGED config

Crash == ProcessEnds /\ UNCHANGED wal

PowerLoss == "power_loss" \in Faults /\ ProcessEnds /\ wal' \in LogsLeft

\* exit(0), whatever another request is in the middle of.
Exit == exiting /\ ProcessEnds /\ UNCHANGED wal

\* Mutant: rebuild_memtable leaves current_size_bytes at 0.
RestartForgetsSize(c) ==
  /\ pc = "down"
  /\ c.walEnabled => Parses(wal)
  /\ Opens(tables)
  /\ mem' = IF c.walEnabled THEN Replay(wal) ELSE NoEntries
  /\ size' = 0
  /\ config' = c
  /\ expired' = FALSE
  /\ pc' = "idle"
  /\ UNCHANGED <<wal, tables, todo, exiting>>

\* Memtable::new, then LsmTreeReader::new: either may refuse, and then the
\* program ends without having changed anything.  The log is kept.
Restart(c) ==
  /\ pc = "down"
  /\ c.walEnabled => Parses(wal)
  /\ Opens(tables)
  /\ mem' = IF c.walEnabled THEN Replay(wal) ELSE NoEntries
  /\ size' = IF c.walEnabled THEN FileLen(wal) % U32 ELSE 0
  /\ config' = c
  /\ expired' = FALSE
  /\ pc' = "idle"
  /\ UNCHANGED <<wal, tables, todo, exiting>>

-----------------------------------------------------------------------------
\* The steps of the thread that holds the lock.
WriterStep ==
  \/ LogAppend \/ LogSkip \/ LogShort \/ LogError
  \/ Apply
  \/ FlushPanics \/ FlushCreate \/ FlushWrite \/ FlushFinish \/ FlushError

Request ==
  \/ \E k \in Keys : Delete(k) \/ \E v \in Values : Put(k, v)
  \/ \E ops \in Batches : BatchWrite(ops)
  \/ \E c \in ReloadConfigs : ReloadConfig(c)
  \/ GracefulShutdown

Next ==
  \/ Request
  \/ WriterStep
  \/ TimerExpires
  \/ Crash \/ PowerLoss \/ Exit
  \/ \E c \in StartupConfigs : Restart(c)

Spec == Init /\ [][Next]_vars

\* The operating system schedules the thread that holds the lock and the
\* clock runs; no client owes the server a request, and nobody a restart.
FairSpec == Spec /\ WF_vars(WriterStep) /\ WF_vars(TimerExpires)

-----------------------------------------------------------------------------
(* What the state means                                                    *)

\* The memtable with the write that is logged and about to be applied.
Applied ==
  IF pc = "apply" THEN [mem EXCEPT ![Head(todo).key] = Head(todo).entry] ELSE mem

Lookup(m, tbls) ==
  [k \in Keys |-> IF m[k] # Absent THEN m[k] ELSE DiskEntry(tbls, k)]

\* What the running store holds, and what its files alone hold.
View == Lookup(Applied, tables)
Durable == Lookup(Replay(wal), tables)

\* The keys with an entry in the memtable; none while there is no process.
Buffered == {k \in Keys : pc # "down" /\ Applied[k] # Absent}

\* The bytes of the entries, each by its key and its place in the record, and how
\* many of them a flush would write.
Held(m) == UNION {{k} \X (1..EntrySize(k, m[k])) : k \in {k \in Keys : m[k] # Absent}}
Bytes == Cardinality(Held(mem))

-----------------------------------------------------------------------------
(* Properties                                                              *)

LogRecord == [key : Keys, entry : Entries, whole : BOOLEAN, end : Nat]
Table == [data : [Keys -> Entries \cup {Absent}], state : TableStates]

\* Every variable keeps its type; todo is never empty while a write is
\* under way (put, delete and batch_write work through it).
TypeOK ==
  /\ wal \in Seq(LogRecord)
  /\ tables \in Seq(Table)
  /\ mem \in [Keys -> Entries \cup {Absent}]
  /\ size \in 0..(U32 - 1)
  /\ config \in Config
  /\ expired \in BOOLEAN
  /\ pc \in {"idle", "log", "apply", "create", "write", "clear", "poisoned", "down"}
  /\ todo \in Seq(Op)
  /\ exiting \in BOOLEAN
  /\ pc \in {"log", "apply"} => todo # <<>>
  /\ \A i \in DOMAIN wal : wal[i].whole => wal[i].end > 0

\* current_size_bytes never falls below the bytes of the entries in memory,
\* however writes, overwrites, restarts from a log with overwritten records
\* and flushes alternate: the subtraction in put and delete cannot wrap and a
\* size-triggered flush is never late.
SizeCoversEntries == Bytes <= size

\* No sequence of requests makes flush panic and poison the lock for every
\* later request (the division by the size, the missing remote disk).
FlushNeverPanics == pc # "poisoned"

\* Why the next property holds: the file being written has the memtable's
\* entries and is not yet readable; once it is written, every entry of the
\* memtable is the newest one on disk.
FlushInv ==
  /\ pc = "write" =>
       /\ tables # <<>>
       /\ tables[Len(tables)] = [data |-> mem, state |-> "short"]
  /\ pc = "clear" =>
       \A k \in Keys : mem[k] # Absent => DiskEntry(tables, k) = mem[k]

\* A flush, complete or stopped by an error at any of its steps, changes no
\* value a client could read: the entries leave the memtable only once a
\* readable table newer than every other one has them.
FlushKeepsView ==
  [][(pc \in {"create", "write", "clear"}) /\ pc' # "down" => View' = View]_vars

\* Every configuration the server can get has the log on.
LogsEverything ==
  \A c \in StartupConfigs \cup ReloadConfigs : c.walEnabled

\* Under LogsEverything, why the next property holds: at every step of a
\* write, a flush, and its errors, replaying the log gives the memtable.
LogIsMemtable == pc # "down" => Replay(wal) = Applied

\* Ending the process at any step loses no write that was logged, and brings
\* back none that was overwritten: log and tables hold what the store held.
CrashKeepsWrites == [][pc # "down" /\ pc' = "down" => Durable' = View]_vars

\* Whatever happened before the process ended, rebuild_memtable can parse the
\* log it left.
LogReplays == pc = "down" => Parses(wal)

\* Whatever happened before the process ended, LsmTreeReader::new can open
\* every table it left.
TablesOpen == pc = "down" => Opens(tables)

\* A write that leaves or finds the memtable at its limit is followed, under
\* the lock, by a flush that empties it.
OverLimitDrains ==
  pc \in {"log", "apply", "create", "write", "clear"} /\ size >= config.ramMaxSize
    ~> size < config.ramMaxSize \/ pc \in {"poisoned", "down"}

\* ramMaxTime is the longest that data stays in memory: once the time is up,
\* what the memtable holds is flushed (unless the process ends, or a new
\* configuration restarts the timer).
RamMaxTimeBounds ==
  expired /\ mem # NoEntries ~> ~expired \/ mem = NoEntries

\* Every startup has the log on; a reload may turn it off, and on again.
StartupLogs == \A c \in StartupConfigs : c.walEnabled

\* Under StartupLogs, why the store below is implemented: a key with a record in
\* the log has an entry in memory, so that the log never brings back a key that
\* only the tables should answer for.
LogInMemory ==
  pc # "down" => \A k \in Keys : Replay(wal)[k] # Absent => Applied[k] # Absent

\* Under StartupLogs, the write path implements the abstract store, with every
\* configuration a reload can bring, errors in any file operation and crashes
\* at any step: a write takes effect once, at its log step, and from its log
\* record or else from the next flush on nothing takes it back.
KV == INSTANCE KVStore WITH
  db <- IF pc = "down" THEN Durable ELSE View,
  safe <- Durable,
  buffered <- Buffered,
  logging <- config.walEnabled,
  up <- pc # "down"

ImplementsKVStore == KV!Spec
=============================================================================
