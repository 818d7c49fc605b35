--------------------------- MODULE Memtable_proofs ---------------------------
(***************************************************************************)
(* What holds of the write path for every set of keys and values, every    *)
(* size, every configuration and every bound: types, the steps of a flush, *)
(* the log and what a crash leaves of it, and that the write path is the   *)
(* abstract store's; then that current_size_bytes covers the entries in    *)
(* memory, however writes, overwrites, flushes, crashes and restarts       *)
(* follow one another, as long as no size reaches the modulus; and that    *)
(* flush then never panics.                                                *)
(***************************************************************************)
EXTENDS Memtable, FiniteSetTheorems, TLAPS

USE EntriesAssumption, SizesAssumption, ConfigsAssumption

Memory == [Keys -> Entries \cup {Absent}]

-----------------------------------------------------------------------------
(* Types                                                                   *)

\* An entry has at least its two length prefixes.
LEMMA EntrySizeType ==
  ASSUME NEW k \in Keys, NEW e \in Entries
  PROVE  EntrySize(k, e) \in Nat /\ EntrySize(k, e) > 0
BY DEF EntrySize, Entries

LEMMA NoEntriesType == NoEntries \in Memory
BY DEF NoEntries, Memory

\* Two places can not both be the last record of a key.
LEMMA ReplayLast ==
  ASSUME NEW log \in Seq(LogRecord), NEW k \in Keys, NEW i \in LastRecord(log, k)
  PROVE  Replay(log)[k] = log[i].entry
<1>1. ASSUME NEW j \in LastRecord(log, k)
      PROVE  j = i
  BY DEF LastRecord
<1>2. (CHOOSE j \in LastRecord(log, k) : TRUE) = i
  BY <1>1
<1> QED
  BY <1>2 DEF Replay

LEMMA ReplayNone ==
  ASSUME NEW log, NEW k \in Keys, LastRecord(log, k) = {}
  PROVE  Replay(log)[k] = Absent
BY DEF Replay

LEMMA ReplayType ==
  ASSUME NEW log \in Seq(LogRecord)
  PROVE  Replay(log) \in Memory
<1>1. ASSUME NEW k \in Keys
      PROVE  Replay(log)[k] \in Entries \cup {Absent}
  <2>1. CASE LastRecord(log, k) = {}
    BY <2>1, ReplayNone
  <2>2. ASSUME NEW i \in LastRecord(log, k)
        PROVE  Replay(log)[k] \in Entries
    <3>1. log[i] \in LogRecord
      BY DEF LastRecord
    <3> QED
      BY <3>1, ReplayLast DEF LogRecord
  <2> QED
    BY <2>1, <2>2
<1> QED
  BY <1>1 DEF Replay, Memory

LEMMA BatchesType == Batches \subseteq Seq(Op)
BY BoundsAssumption DEF Batches

LEMMA WithStateType ==
  ASSUME tables \in Seq(Table), NEW s \in TableStates
  PROVE  WithState(s) \in Seq(Table)
<1> DEFINE Left(i) == IF i = Len(tables) THEN [tables[i] EXCEPT !.state = s]
                                           ELSE tables[i]
<1>1. WithState(s) = [i \in 1..Len(tables) |-> Left(i)]
  <2>1. DOMAIN tables = 1..Len(tables)
    OBVIOUS
  <2> QED
    BY <2>1, Zenon DEF WithState
<1>2. ASSUME NEW i \in 1..Len(tables)
      PROVE  Left(i) \in Table
  <2>1. tables[i] \in Table
    OBVIOUS
  <2> QED
    BY <2>1 DEF Table
<1> QED
  BY <1>1, <1>2

LEMMA TornRecordType ==
  ASSUME NEW r \in LogRecord, r.end > 0
  PROVE  [r EXCEPT !.whole = FALSE, !.end = @ - 1] \in LogRecord
<1>1. r.end - 1 \in Nat
  BY DEF LogRecord
<1>2. [r EXCEPT !.whole = FALSE, !.end = @ - 1] =
        [r EXCEPT !.whole = FALSE, !.end = r.end - 1]
  BY DEF LogRecord
<1> QED
  BY <1>1, <1>2 DEF LogRecord

LEMMA LogsLeftType ==
  ASSUME wal \in Seq(LogRecord), NEW log \in LogsLeft,
         \A i \in DOMAIN wal : wal[i].whole => wal[i].end > 0
  PROVE  /\ log \in Seq(LogRecord)
         /\ \A i \in DOMAIN log : log[i].whole => log[i].end > 0
<1> DEFINE Cut(n) == SubSeq(wal, 1, n)
<1>1. ASSUME NEW n \in 0..Len(wal)
      PROVE  /\ Cut(n) \in Seq(LogRecord)
             /\ DOMAIN Cut(n) = 1..n
             /\ \A i \in DOMAIN Cut(n) : Cut(n)[i] = wal[i]
  OBVIOUS
<1>2. ASSUME NEW n \in 0..Len(wal), log = Cut(n)
      PROVE  /\ log \in Seq(LogRecord)
             /\ \A i \in DOMAIN log : log[i].whole => log[i].end > 0
  BY <1>1, <1>2
<1>3. ASSUME NEW n \in DOMAIN wal, wal[n].whole,
             log = [Cut(n) EXCEPT ![n].whole = FALSE, ![n].end = @ - 1]
      PROVE  /\ log \in Seq(LogRecord)
             /\ \A i \in DOMAIN log : log[i].whole => log[i].end > 0
  <2> n \in 0..Len(wal) /\ n \in DOMAIN Cut(n) /\ Cut(n)[n] = wal[n]
    BY <1>1
  <2>1. [wal[n] EXCEPT !.whole = FALSE, !.end = @ - 1] \in LogRecord
    <3>1. wal[n] \in LogRecord /\ wal[n].end > 0
      BY <1>3
    <3> QED
      BY <3>1, TornRecordType
  <2>2. log = [Cut(n) EXCEPT ![n] = [wal[n] EXCEPT !.whole = FALSE, !.end = @ - 1]]
    BY <1>3
  <2>3. log[n].whole = FALSE
    BY <2>1, <2>2, Zenon DEF LogRecord
  <2> HIDE DEF Cut
  <2>4. DOMAIN log = 1..n /\ \A i \in (1..n) \ {n} : log[i] = wal[i]
    BY <1>1, <2>2
  <2>5. log[n] \in LogRecord
    BY <1>1, <2>1, <2>2
  <2>6. \A i \in 1..n : log[i] \in LogRecord
    BY <2>4, <2>5
  <2>7. log \in Seq(LogRecord)
    BY <2>2, <2>4, <2>6, <1>1
  <2>8. ASSUME NEW i \in DOMAIN log, log[i].whole
        PROVE  log[i].end > 0
    <3>1. i \in (1..n) \ {n}
      BY <2>3, <2>4, <2>8
    <3> QED
      BY <2>4, <2>8, <3>1
  <2> QED
    BY <2>7, <2>8
<1> QED
  BY <1>2, <1>3 DEF LogsLeft

-----------------------------------------------------------------------------
(* The type invariant                                                      *)

\* One write of a request: what log and apply leave to do.
LEMMA HeadType ==
  ASSUME TypeOK, todo # <<>>
  PROVE  /\ Head(todo).key \in Keys
         /\ Head(todo).entry \in Entries
         /\ HeadSize \in Nat /\ HeadSize > 0
         /\ Tail(todo) \in Seq(Op)
<1>1. Head(todo) \in Op /\ Tail(todo) \in Seq(Op)
  BY DEF TypeOK
<1> QED
  BY <1>1, EntrySizeType DEF HeadSize, Op

LEMMA FileLenType ==
  ASSUME NEW log \in Seq(LogRecord)
  PROVE  FileLen(log) \in Nat
<1>1. CASE log = <<>>
  BY <1>1 DEF FileLen
<1>2. CASE log # <<>>
  <2>1. log[Len(log)] \in LogRecord
    BY <1>2
  <2> QED
    BY <1>2, <2>1 DEF FileLen, LogRecord
<1> QED
  BY <1>1, <1>2

LEMMA EmptyType ==
  /\ <<>> \in Seq(LogRecord) /\ <<>> \in Seq(Table) /\ <<>> \in Seq(Op)
  /\ DOMAIN <<>> = {}
  /\ 0 \in 0..(U32 - 1)
OBVIOUS

LEMMA TypeInit == Init => TypeOK
<1> SUFFICES ASSUME Init
             PROVE  TypeOK
  OBVIOUS
<1>1. mem \in [Keys -> Entries \cup {Absent}]
  BY NoEntriesType DEF Init, Memory
<1>2. \A i \in DOMAIN wal : wal[i].whole => wal[i].end > 0
  BY EmptyType DEF Init
<1> QED
  BY <1>1, <1>2, EmptyType DEF Init, TypeOK

LEMMA TypeStep == TypeOK /\ [Next]_vars => TypeOK'
<1> SUFFICES ASSUME TypeOK, [Next]_vars
             PROVE  TypeOK'
  OBVIOUS
<1>a. mem \in Memory /\ NoEntries \in Memory
  BY NoEntriesType DEF TypeOK, Memory
<1>b. ASSUME NEW ops \in Seq(Op), ops # <<>>, Begin(ops)
      PROVE  TypeOK'
  BY <1>b DEF TypeOK, Begin
<1>1. ASSUME NEW k \in Keys, NEW v \in Values, Put(k, v)
      PROVE  TypeOK'
  <2>1. <<[key |-> k, entry |-> v]>> \in Seq(Op)
    BY DEF Op, Entries
  <2> QED
    BY <1>1, <2>1, <1>b DEF Put
<1>2. ASSUME NEW k \in Keys, Delete(k)
      PROVE  TypeOK'
  <2>1. <<[key |-> k, entry |-> Tombstone]>> \in Seq(Op)
    BY DEF Op, Entries
  <2> QED
    BY <1>2, <2>1, <1>b DEF Delete
<1>3. ASSUME NEW ops \in Batches, BatchWrite(ops)
      PROVE  TypeOK'
  <2>1. ops \in Seq(Op) /\ ops # <<>>
    BY BatchesType, BoundsAssumption DEF Batches
  <2> QED
    BY <1>3, <2>1, <1>b DEF BatchWrite
<1>4. ASSUME NEW c \in ReloadConfigs, ReloadConfig(c)
      PROVE  TypeOK'
  BY <1>4 DEF TypeOK, ReloadConfig
<1>5. CASE GracefulShutdown
  BY <1>5 DEF TypeOK, GracefulShutdown
<1>6. ASSUME pc = "log", NEW whole \in BOOLEAN, NEW bytes \in Nat, whole => bytes > 0,
             wal' = Append(wal, Record(whole, bytes)),
             pc' = "apply",
             UNCHANGED <<tables, mem, size, config, expired, todo, exiting>>
      PROVE  TypeOK'
  <2>1. Record(whole, bytes) \in LogRecord /\ (whole => Record(whole, bytes).end > 0)
    <3>1. todo # <<>> /\ FileLen(wal) \in Nat
      BY <1>6, FileLenType DEF TypeOK
    <3> QED
      BY <1>6, <3>1, HeadType DEF Record, LogRecord
  <2>2. /\ wal' \in Seq(LogRecord)
        /\ \A i \in DOMAIN wal' : wal'[i].whole => wal'[i].end > 0
    <3>1. /\ wal' \in Seq(LogRecord)
          /\ DOMAIN wal' = 1..(Len(wal) + 1)
          /\ wal'[Len(wal) + 1] = Record(whole, bytes)
          /\ \A i \in 1..Len(wal) : i \in DOMAIN wal /\ wal'[i] = wal[i]
      BY <1>6, <2>1 DEF TypeOK
    <3>2. \A i \in DOMAIN wal' : i = Len(wal) + 1 \/ i \in 1..Len(wal)
      BY <3>1 DEF TypeOK
    <3>3. \A i \in 1..Len(wal) : wal'[i].whole => wal'[i].end > 0
      BY <3>1 DEF TypeOK
    <3>4. wal'[Len(wal) + 1].whole => wal'[Len(wal) + 1].end > 0
      BY <2>1, <3>1 DEF Record
    <3> QED
      BY <3>1, <3>2, <3>3, <3>4
  <2> QED
    BY <1>6, <2>2 DEF TypeOK
<1>7. CASE LogAppend \/ LogShort
  <2> pc = "log" /\ todo # <<>>
    BY <1>7 DEF TypeOK, LogAppend, LogShort
  <2> HeadSize \in Nat /\ HeadSize > 0
    BY HeadType
  <2>1. CASE LogAppend
    BY <2>1, <1>6 DEF LogAppend
  <2>2. CASE LogShort
    <3>1. HeadSize - 1 \in Nat /\ FALSE \in BOOLEAN
      OBVIOUS
    <3> QED
      BY <2>2, <3>1, <1>6 DEF LogShort
  <2> QED
    BY <1>7, <2>1, <2>2
<1>8. CASE LogSkip
  BY <1>8 DEF TypeOK, LogSkip
<1>9. CASE LogError
  BY <1>9 DEF TypeOK, LogError, Abort
<1>10. CASE Apply
  <2> pc = "apply" /\ todo # <<>>
    BY <1>10 DEF TypeOK, Apply
  <2>1. mem' \in Memory
    BY <1>10, <1>a, HeadType DEF Apply, Memory
  <2>2. ExistingSize(Head(todo).key) \in Int
    BY HeadType, EntrySizeType, <1>a DEF ExistingSize, Memory
  <2>3. size' \in 0..(U32 - 1)
    <3>1. size + HeadSize - ExistingSize(Head(todo).key) \in Int
      BY <2>2, HeadType DEF TypeOK
    <3> QED
      BY <1>10, <3>1 DEF Apply
  <2>4. todo' \in Seq(Op) /\ pc' \in {"create", "idle", "log"}
        /\ (pc' = "log" => todo' # <<>>)
    BY <1>10, HeadType DEF Apply, NextWrite
  <2> QED
    BY <1>10, <2>1, <2>3, <2>4 DEF TypeOK, Apply, Memory
<1>11. CASE FlushPanics
  BY <1>11 DEF TypeOK, FlushPanics
<1>12. CASE FlushCreate
  <2>1. [data |-> mem, state |-> "short"] \in Table
    BY DEF TypeOK, Table, TableStates
  <2> QED
    BY <1>12, <2>1 DEF TypeOK, FlushCreate
<1>13. CASE FlushWrite
  BY <1>13, WithStateType DEF TypeOK, FlushWrite, TableStates
<1>14. CASE FlushFinish
  <2>1. \A i \in DOMAIN wal' : wal'[i].whole => wal'[i].end > 0
    BY <1>14, EmptyType DEF FlushFinish
  <2>2. mem' \in [Keys -> Entries \cup {Absent}]
    BY <1>14, <1>a DEF FlushFinish, Memory
  <2>3. pc' \in {"idle", "log"} /\ (pc' = "log" => todo' # <<>>)
    BY <1>14 DEF FlushFinish, NextWrite
  <2> QED
    BY <1>14, <2>1, <2>2, <2>3, EmptyType DEF TypeOK, FlushFinish
<1>15. CASE FlushError
  BY <1>15, WithStateType DEF TypeOK, FlushError, Abort
<1>16. CASE TimerExpires
  BY <1>16 DEF TypeOK, TimerExpires
<1>17. ASSUME ProcessEnds, wal' \in Seq(LogRecord),
              \A i \in DOMAIN wal' : wal'[i].whole => wal'[i].end > 0
       PROVE  TypeOK'
  <2>1. tables' \in Seq(Table)
    BY <1>17, WithStateType DEF TypeOK, ProcessEnds, TablesLeft
  <2>2. mem' \in [Keys -> Entries \cup {Absent}]
    BY <1>17, <1>a DEF ProcessEnds, Memory
  <2> QED
    BY <1>17, <2>1, <2>2, EmptyType DEF TypeOK, ProcessEnds
<1>18. CASE Crash \/ Exit
  BY <1>18, <1>17 DEF TypeOK, Crash, Exit
<1>19. CASE PowerLoss
  BY <1>19, <1>17, LogsLeftType DEF TypeOK, PowerLoss
<1>20. ASSUME NEW c \in StartupConfigs, Restart(c)
       PROVE  TypeOK'
  <2>1. mem' \in Memory
    BY <1>20, <1>a, ReplayType DEF TypeOK, Restart
  <2>2. size' \in 0..(U32 - 1)
    <3>1. FileLen(wal) \in Nat
      BY FileLenType DEF TypeOK
    <3> QED
      BY <1>20, <3>1 DEF Restart
  <2> QED
    BY <1>20, <2>1, <2>2 DEF TypeOK, Restart, Memory
<1>21. CASE UNCHANGED vars
  BY <1>21 DEF TypeOK, vars
<1> QED
  BY <1>1, <1>2, <1>3, <1>4, <1>5, <1>7, <1>8, <1>9, <1>10, <1>11, <1>12, <1>13,
     <1>14, <1>15, <1>16, <1>18, <1>19, <1>20, <1>21
     DEF Next, Request, WriterStep

\* Every variable of the write path keeps its type, and no write is ever under
\* way with nothing to write.
THEOREM TypeCorrect == Spec => []TypeOK
<1> QED
  BY TypeInit, TypeStep, PTL DEF Spec

-----------------------------------------------------------------------------
(* What the tables on disk hold                                            *)

LEMMA DiskNewest ==
  ASSUME NEW tbls \in Seq(Table), NEW k \in Keys, NEW i \in NewestTable(tbls, k)
  PROVE  DiskEntry(tbls, k) = tbls[i].data[k]
<1>1. ASSUME NEW j \in NewestTable(tbls, k)
      PROVE  j = i
  BY DEF NewestTable
<1>2. (CHOOSE j \in NewestTable(tbls, k) : TRUE) = i
  BY <1>1
<1> QED
  BY <1>2 DEF DiskEntry

\* What a table adds that is last: its entry if it is whole and has one.
LEMMA DiskLast ==
  ASSUME NEW old \in Seq(Table), NEW new \in Seq(Table), NEW k \in Keys, new # <<>>,
         \A i \in 1..(Len(new) - 1) : i \in DOMAIN old /\ old[i] = new[i],
         \A i \in DOMAIN old : i >= Len(new) => old[i].state # "whole"
  PROVE  DiskEntry(new, k) =
           IF new[Len(new)].state = "whole" /\ new[Len(new)].data[k] # Absent
           THEN new[Len(new)].data[k] ELSE DiskEntry(old, k)
<1> DEFINE n == Len(new)
           Holds(t, i) == t[i].state = "whole" /\ t[i].data[k] # Absent
<1>0. n \in Nat /\ n > 0 /\ DOMAIN new = 1..n
  OBVIOUS
<1>1. CASE Holds(new, n)
  <2>1. n \in NewestTable(new, k)
    BY <1>0, <1>1 DEF NewestTable
  <2> QED
    BY <1>1, <2>1, DiskNewest
<1>2. CASE ~Holds(new, n)
  <2>1. \A i \in DOMAIN new : Holds(new, i) => i \in 1..(n - 1)
    BY <1>0, <1>2
  <2>2. \A i \in DOMAIN old : Holds(old, i) => i \in 1..(n - 1)
    BY <1>0
  <2>3. \A i \in 1..(n - 1) : /\ i \in DOMAIN new /\ i \in DOMAIN old
                              /\ Holds(new, i) <=> Holds(old, i)
    BY <1>0
  <2>4. ASSUME NEW i
        PROVE  i \in NewestTable(new, k) <=> i \in NewestTable(old, k)
    <3> HIDE DEF n
    <3>1. i \in NewestTable(new, k) <=>
            i \in DOMAIN new /\ Holds(new, i) /\ \A j \in DOMAIN new : j > i => ~Holds(new, j)
      BY DEF NewestTable
    <3>2. i \in NewestTable(old, k) <=>
            i \in DOMAIN old /\ Holds(old, i) /\ \A j \in DOMAIN old : j > i => ~Holds(old, j)
      BY DEF NewestTable
    <3> HIDE DEF Holds
    <3> QED
      BY <2>1, <2>2, <2>3, <3>1, <3>2
  <2>5. CASE NewestTable(old, k) = {}
    BY <1>2, <2>4, <2>5 DEF DiskEntry
  <2>6. ASSUME NEW i \in NewestTable(old, k)
        PROVE  DiskEntry(new, k) = DiskEntry(old, k)
    <3>1. i \in 1..(n - 1)
      BY <2>2, <2>6 DEF NewestTable
    <3>2. DiskEntry(new, k) = new[i].data[k] /\ DiskEntry(old, k) = old[i].data[k]
      BY <2>4, DiskNewest
    <3> QED
      BY <3>1, <3>2
  <2> QED
    BY <1>2, <2>5, <2>6
<1> QED
  BY <1>1, <1>2

\* The table a flush is writing, in any state it can be left in.
LEMMA TableLeft ==
  ASSUME TypeOK, FlushInv, pc = "write", NEW s \in TableStates, NEW k \in Keys
  PROVE  DiskEntry(WithState(s), k) =
           IF s = "whole" /\ mem[k] # Absent THEN mem[k] ELSE DiskEntry(tables, k)
<1>1. /\ tables # <<>> /\ tables \in Seq(Table)
      /\ tables[Len(tables)] = [data |-> mem, state |-> "short"]
  BY DEF TypeOK, FlushInv
<1> DEFINE new == WithState(s)
<1>2. new \in Seq(Table)
  BY <1>1, WithStateType
<1>3. /\ Len(new) = Len(tables) /\ new # <<>>
      /\ \A i \in 1..(Len(new) - 1) : i \in DOMAIN tables /\ tables[i] = new[i]
      /\ new[Len(new)] = [data |-> mem, state |-> s]
  BY <1>1, <1>2 DEF WithState
<1>4. \A i \in DOMAIN tables : i >= Len(new) => tables[i].state # "whole"
  BY <1>1, <1>3
<1> HIDE DEF new
<1>5. DiskEntry(new, k) =
        IF new[Len(new)].state = "whole" /\ new[Len(new)].data[k] # Absent
        THEN new[Len(new)].data[k] ELSE DiskEntry(tables, k)
  BY <1>1, <1>2, <1>3, <1>4, DiskLast
<1> QED
  BY <1>3, <1>5 DEF new

\* A file just created is not read.
LEMMA TableCreated ==
  ASSUME TypeOK, FlushCreate, NEW k \in Keys
  PROVE  DiskEntry(tables', k) = DiskEntry(tables, k)
<1>1. tables \in Seq(Table) /\ tables' \in Seq(Table)
  BY DEF TypeOK, FlushCreate, Table, TableStates
<1>2. /\ Len(tables') = Len(tables) + 1 /\ tables' # <<>>
      /\ \A i \in 1..(Len(tables') - 1) : i \in DOMAIN tables /\ tables[i] = tables'[i]
      /\ tables'[Len(tables')].state = "short"
  BY <1>1 DEF FlushCreate
<1>3. \A i \in DOMAIN tables : i >= Len(tables') => tables[i].state # "whole"
  BY <1>1, <1>2
<1> QED
  BY <1>1, <1>2, <1>3, DiskLast

-----------------------------------------------------------------------------
(* Flushing                                                                *)

LEMMA FlushInvStep ==
  ASSUME TypeOK, FlushInv, [Next]_vars
  PROVE  FlushInv'
<1>1. CASE FlushCreate
  <2>1. /\ tables' # <<>> /\ tables'[Len(tables')] = [data |-> mem, state |-> "short"]
    <3> DEFINE t == [data |-> mem, state |-> "short"]
    <3>1. tables \in Seq(Table) /\ t \in Table
      BY DEF TypeOK, Table, TableStates
    <3>2. tables' = Append(tables, t)
      BY <1>1 DEF FlushCreate
    <3> HIDE DEF t
    <3>3. tables' # <<>> /\ tables'[Len(tables')] = t
      <4>1. Append(tables, t) # <<>> /\ Append(tables, t)[Len(Append(tables, t))] = t
        BY <3>1
      <4> QED
        BY <3>2, <4>1
    <3> QED
      BY <3>3 DEF t
  <2> QED
    BY <1>1, <2>1 DEF FlushInv, FlushCreate
<1>2. CASE FlushWrite
  <2>1. ASSUME NEW k \in Keys, mem[k] # Absent
        PROVE  DiskEntry(WithState("whole"), k) = mem[k]
    BY <1>2, <2>1, TableLeft DEF FlushWrite, TableStates
  <2> QED
    BY <1>2, <2>1 DEF FlushInv, FlushWrite
<1>3. CASE UNCHANGED <<tables, mem, pc>>
  BY <1>3 DEF FlushInv
<1>4. CASE pc' \notin {"write", "clear"}
  BY <1>4 DEF FlushInv
<1>5. UNCHANGED <<tables, mem, pc>> \/ pc' \notin {"write", "clear"}
        \/ FlushCreate \/ FlushWrite
  BY DEF Next, Request, WriterStep, vars, Put, Delete, BatchWrite, Begin, ReloadConfig,
         GracefulShutdown, LogAppend, LogSkip, LogShort, LogError, Apply, NextWrite,
         FlushPanics, FlushFinish, FlushError, Abort, TimerExpires, Crash, PowerLoss,
         Exit, ProcessEnds, Restart
<1> QED
  BY <1>1, <1>2, <1>3, <1>4, <1>5

\* While a table is being written the memtable hides what becomes of it.
LEMMA TableLeftView ==
  ASSUME TypeOK, FlushInv, pc = "write", NEW s \in TableStates
  PROVE  Lookup(mem, WithState(s)) = Lookup(mem, tables)
BY TableLeft DEF Lookup

LEMMA FlushStep ==
  ASSUME TypeOK, FlushInv, [Next]_vars
  PROVE  (pc \in {"create", "write", "clear"}) /\ pc' # "down" => View' = View
<1> SUFFICES ASSUME pc \in {"create", "write", "clear"}, pc' # "down"
             PROVE  View' = View
  OBVIOUS
<1>1. FlushPanics \/ FlushCreate \/ FlushWrite \/ FlushFinish \/ FlushError
        \/ UNCHANGED <<tables, mem, pc>>
  BY DEF Next, Request, WriterStep, vars, Put, Delete, BatchWrite, Begin, ReloadConfig,
         GracefulShutdown, LogAppend, LogSkip, LogShort, LogError, Apply,
         TimerExpires, Crash, PowerLoss, Exit, ProcessEnds, Restart
<1>2. View = Lookup(mem, tables)
  BY DEF View, Applied
<1>3. pc' # "apply"
  BY <1>1 DEF FlushPanics, FlushCreate, FlushWrite, FlushFinish, NextWrite,
              FlushError, Abort
<1>4. View' = Lookup(mem', tables')
  BY <1>3 DEF View, Applied
<1>5. CASE UNCHANGED <<tables, mem>>
  BY <1>2, <1>4, <1>5
<1>6. CASE FlushCreate
  <2>1. mem' = mem /\ \A k \in Keys : DiskEntry(tables', k) = DiskEntry(tables, k)
    BY <1>6, TableCreated DEF FlushCreate
  <2> QED
    BY <1>2, <1>4, <2>1 DEF Lookup
<1>7. ASSUME pc = "write", mem' = mem, NEW s \in TableStates, tables' = WithState(s)
      PROVE  View' = View
  BY <1>2, <1>4, <1>7, TableLeftView
<1>8. CASE FlushFinish
  <2>1. /\ mem' = NoEntries /\ tables' = tables
        /\ \A k \in Keys : mem[k] # Absent => DiskEntry(tables, k) = mem[k]
    BY <1>8 DEF FlushFinish, FlushInv
  <2> QED
    BY <1>2, <1>4, <2>1 DEF Lookup, NoEntries
<1>9. CASE FlushWrite
  BY <1>7, <1>9 DEF FlushWrite, TableStates
<1>10. CASE FlushError
  BY <1>5, <1>7, <1>10 DEF FlushError
<1> QED
  BY <1>1, <1>5, <1>6, <1>8, <1>9, <1>10 DEF FlushPanics

\* At every step of a flush the file it writes, or the newest table, has what
\* the memtable has.
THEOREM FlushCorrect == Spec => []FlushInv
<1>1. Init => FlushInv
  BY DEF Init, FlushInv
<1>2. TypeOK /\ FlushInv /\ [Next]_vars => FlushInv'
  BY FlushInvStep
<1> QED
  BY <1>1, <1>2, TypeCorrect, PTL DEF Spec

\* No flush, complete or broken off by an error, changes what clients read:
\* whatever the configurations, the faults and the sizes.
THEOREM FlushSafe == Spec => FlushKeepsView
<1>1. TypeOK /\ FlushInv /\ [Next]_vars
        => ((pc \in {"create", "write", "clear"}) /\ pc' # "down" => View' = View)
  BY FlushStep
<1>2. TypeOK /\ FlushInv /\ [Next]_vars
        => [(pc \in {"create", "write", "clear"}) /\ pc' # "down" => View' = View]_vars
  BY <1>1
<1> QED
  BY <1>2, TypeCorrect, FlushCorrect, PTL DEF Spec, FlushKeepsView

-----------------------------------------------------------------------------
(* The log                                                                 *)

LEMMA ReplayEmpty == Replay(<<>>) = NoEntries
BY EmptyType DEF Replay, LastRecord, NoEntries

\* A record at the end of the log overwrites what the log had for its key.
LEMMA ReplayAppend ==
  ASSUME NEW log \in Seq(LogRecord), NEW r \in LogRecord
  PROVE  Replay(Append(log, r)) = [Replay(log) EXCEPT ![r.key] = r.entry]
<1> DEFINE new == Append(log, r)
           n == Len(log) + 1
<1>1. /\ new \in Seq(LogRecord) /\ DOMAIN new = 1..n /\ DOMAIN log = 1..(n - 1)
      /\ new[n] = r /\ \A i \in 1..(n - 1) : new[i] = log[i]
      /\ n \in Nat /\ n > 0
  OBVIOUS
<1> HIDE DEF new, n
<1>2. Replay(new)[r.key] = r.entry
  <2>1. r.key \in Keys
    BY DEF LogRecord
  <2>2. n \in DOMAIN new /\ \A j \in DOMAIN new : ~(j > n)
    BY <1>1
  <2>3. n \in LastRecord(new, r.key)
    BY <1>1, <2>2 DEF LastRecord
  <2> QED
    BY <1>1, <2>1, <2>3, ReplayLast
<1>3. ASSUME NEW k \in Keys, k # r.key
      PROVE  Replay(new)[k] = Replay(log)[k]
  <2>1. LastRecord(new, k) = LastRecord(log, k)
    <3>0. /\ \A i \in DOMAIN new : i = n \/ (i \in DOMAIN log /\ new[i] = log[i])
          /\ \A i \in DOMAIN log : i \in DOMAIN new /\ new[i] = log[i]
          /\ new[n].key # k
      BY <1>1, <1>3
    <3>1. \A i : i \in LastRecord(new, k) =>
                   i \in DOMAIN log /\ log[i].key = k
                     /\ \A j \in DOMAIN log : j > i => log[j].key # k
      BY <3>0 DEF LastRecord
    <3>2. \A i : i \in LastRecord(log, k) =>
                   i \in DOMAIN new /\ new[i].key = k
                     /\ \A j \in DOMAIN new : j > i => new[j].key # k
      BY <3>0 DEF LastRecord
    <3> QED
      BY <3>1, <3>2 DEF LastRecord
  <2>2. CASE LastRecord(log, k) = {}
    BY <2>1, <2>2, ReplayNone
  <2>3. ASSUME NEW i \in LastRecord(log, k)
        PROVE  Replay(new)[k] = Replay(log)[k]
    <3>1. i \in 1..(n - 1)
      BY <1>1 DEF LastRecord
    <3> QED
      BY <1>1, <2>1, <3>1, ReplayLast
  <2> QED
    BY <2>2, <2>3
<1>4. Replay(new) \in Memory /\ Replay(log) \in Memory
  BY <1>1, ReplayType
<1> QED
  BY <1>2, <1>3, <1>4 DEF new, Memory

\* A complete record is logged: the log takes effect as the write will.
LEMMA LogAppendStep ==
  ASSUME TypeOK, LogAppend
  PROVE  /\ Replay(wal') = [Replay(wal) EXCEPT ![Head(todo).key] = Head(todo).entry]
         /\ Applied' = [mem EXCEPT ![Head(todo).key] = Head(todo).entry]
         /\ Applied = mem
<1>1. todo # <<>> /\ pc = "log" /\ wal \in Seq(LogRecord)
  BY DEF TypeOK, LogAppend
<1>2. Record(TRUE, HeadSize) \in LogRecord
  <2>1. FileLen(wal) + HeadSize \in Nat
    BY <1>1, HeadType, FileLenType
  <2>2. Head(todo).key \in Keys /\ Head(todo).entry \in Entries
    BY <1>1, HeadType
  <2> QED
    BY <2>1, <2>2 DEF Record, LogRecord
<1>3. Record(TRUE, HeadSize).key = Head(todo).key
        /\ Record(TRUE, HeadSize).entry = Head(todo).entry
  BY DEF Record
<1>4. Replay(wal') = [Replay(wal) EXCEPT ![Head(todo).key] = Head(todo).entry]
  <2> DEFINE r == Record(TRUE, HeadSize)
  <2>1. wal' = Append(wal, r)
    BY DEF LogAppend
  <2> HIDE DEF r
  <2>2. Replay(wal') = [Replay(wal) EXCEPT ![r.key] = r.entry]
    BY <1>1, <1>2, <2>1, ReplayAppend DEF r
  <2> QED
    BY <1>3, <2>2 DEF r
<1> QED
  BY <1>4 DEF LogAppend, Applied

\* Nothing but a log step, an append or not, and the end of a flush changes
\* what the memtable is about to be, or the log, while the process runs.
LEMMA AppliedUnchanged ==
  ASSUME TypeOK, [Next]_vars, ~LogAppend, ~LogSkip, ~LogShort, ~FlushFinish,
         pc # "down", pc' # "down"
  PROVE  Applied' = Applied /\ wal' = wal
<1>1. CASE Apply
  BY <1>1 DEF Apply, Applied, NextWrite
<1>2. CASE UNCHANGED <<wal, mem, pc, todo>>
  BY <1>2 DEF Applied
<1>3. CASE UNCHANGED <<wal, mem>> /\ pc # "apply" /\ pc' # "apply"
  BY <1>3 DEF Applied
<1> QED
  BY <1>1, <1>2, <1>3
     DEF Next, Request, WriterStep, vars, Put, Delete, BatchWrite, Begin, ReloadConfig,
         GracefulShutdown, LogError, FlushPanics, FlushCreate, FlushWrite, FlushError,
         Abort, TimerExpires, Crash, PowerLoss, Exit, ProcessEnds, Restart

\* Where the log is always on, the log is the memtable.
LEMMA LogIsMemtableStep ==
  ASSUME LogsEverything, "short_write" \notin Faults, TypeOK, [Next]_vars,
         config \in StartupConfigs \cup ReloadConfigs, LogIsMemtable
  PROVE  config' \in StartupConfigs \cup ReloadConfigs /\ LogIsMemtable'
<1>1. config' \in StartupConfigs \cup ReloadConfigs
  BY DEF Next, Request, WriterStep, vars, Put, Delete, BatchWrite, Begin, ReloadConfig,
         GracefulShutdown, LogAppend, LogSkip, LogShort, LogError, Apply, FlushPanics,
         FlushCreate, FlushWrite, FlushFinish, FlushError, TimerExpires, Crash,
         PowerLoss, Exit, ProcessEnds, Restart
<1>2. CASE pc' = "down"
  BY <1>1, <1>2 DEF LogIsMemtable
<1>3. CASE LogAppend
  <2>1. Replay(wal) = mem
    BY <1>3, LogAppendStep DEF LogIsMemtable, LogAppend
  <2> QED
    BY <1>1, <1>3, <2>1, LogAppendStep DEF LogIsMemtable
<1>4. CASE LogSkip
  BY <1>4 DEF LogSkip, LogsEverything
<1>5. CASE LogShort
  BY <1>5 DEF LogShort
<1>6. CASE FlushFinish
  BY <1>6, ReplayEmpty DEF FlushFinish, LogIsMemtable, Applied, NextWrite
<1>7. CASE pc = "down" /\ pc' # "down"
  <2>1. PICK c \in StartupConfigs : Restart(c)
    BY <1>7 DEF Next, Request, WriterStep, vars, Put, Delete, BatchWrite, Begin,
         ReloadConfig, GracefulShutdown, LogAppend, LogSkip, LogShort, LogError, Apply,
         FlushPanics, FlushCreate, FlushWrite, FlushFinish, FlushError, TimerExpires,
         Crash, PowerLoss, Exit, ProcessEnds
  <2> QED
    BY <2>1 DEF Restart, LogsEverything, LogIsMemtable, Applied
<1>8. CASE pc # "down" /\ pc' # "down" /\ ~LogAppend /\ ~LogSkip /\ ~LogShort /\ ~FlushFinish
  BY <1>1, <1>8, AppliedUnchanged DEF LogIsMemtable
<1> QED
  BY <1>1, <1>2, <1>3, <1>4, <1>5, <1>6, <1>7, <1>8

\* With the log always on and every append complete, replaying the log gives
\* the memtable at every step of a write, a flush and their errors.
THEOREM LogCorrect ==
  ASSUME LogsEverything, "short_write" \notin Faults
  PROVE  Spec => []LogIsMemtable
<1> DEFINE Inv == config \in StartupConfigs \cup ReloadConfigs /\ LogIsMemtable
<1>1. Init => Inv
  BY ReplayEmpty DEF Init, LogIsMemtable, Applied
<1>2. TypeOK /\ Inv /\ [Next]_vars => Inv'
  BY LogIsMemtableStep
<1> QED
  BY <1>1, <1>2, TypeCorrect, PTL DEF Spec

\* The process ends, and the log stays what it is.
LEMMA EndsStep ==
  ASSUME TypeOK, "power_loss" \notin Faults, [Next]_vars, pc # "down", pc' = "down"
  PROVE  ProcessEnds /\ wal' = wal
BY DEF TypeOK, Next, Request, WriterStep, vars, Put, Delete, BatchWrite, Begin, ReloadConfig,
       GracefulShutdown, LogAppend, LogSkip, LogShort, LogError, Apply, NextWrite,
       FlushPanics, FlushCreate, FlushWrite, FlushFinish, FlushError, Abort,
       TimerExpires, Crash, PowerLoss, Exit, Restart

\* With the log always on, no end of the process, at whatever step of whatever
\* write or flush, loses a write or brings back an overwritten one.
THEOREM CrashSafe ==
  ASSUME LogsEverything, "short_write" \notin Faults, "power_loss" \notin Faults
  PROVE  Spec => CrashKeepsWrites
<1>1. ASSUME TypeOK, FlushInv, LogIsMemtable, [Next]_vars, pc # "down", pc' = "down"
      PROVE  Durable' = View
  <2>1. ProcessEnds /\ wal' = wal
    BY <1>1, EndsStep
  <2>2. View = Lookup(Replay(wal), tables) /\ Durable' = Lookup(Replay(wal), tables')
    BY <1>1, <2>1 DEF View, Durable, LogIsMemtable
  <2>3. CASE pc # "write"
    BY <2>1, <2>2, <2>3 DEF ProcessEnds, TablesLeft
  <2>4. CASE pc = "write"
    <3>1. PICK s \in TableStates : tables' = WithState(s)
      BY <2>1, <2>4 DEF ProcessEnds, TablesLeft
    <3>2. Replay(wal) = mem
      BY <1>1, <2>4 DEF LogIsMemtable, Applied
    <3> QED
      BY <1>1, <2>2, <2>4, <3>1, <3>2, TableLeftView
  <2> QED
    BY <2>3, <2>4
<1>2. TypeOK /\ FlushInv /\ LogIsMemtable /\ [Next]_vars
        => [pc # "down" /\ pc' = "down" => Durable' = View]_vars
  BY <1>1
<1> QED
  BY <1>2, TypeCorrect, FlushCorrect, LogCorrect, PTL DEF Spec, CrashKeepsWrites

-----------------------------------------------------------------------------
(* Refinement                                                              *)

LEMMA LogInMemoryStep ==
  ASSUME StartupLogs, "short_write" \notin Faults, TypeOK, LogInMemory, [Next]_vars
  PROVE  LogInMemory'
<1>1. CASE pc' = "down"
  BY <1>1 DEF LogInMemory
<1>2. CASE LogAppend
  <2>1. \A k \in Keys : Replay(wal)[k] # Absent => mem[k] # Absent
    BY <1>2, LogAppendStep DEF LogInMemory, LogAppend
  <2>2. Head(todo).key \in Keys /\ Head(todo).entry # Absent
    BY <1>2, HeadType DEF LogAppend, TypeOK
  <2>3. Replay(wal) \in Memory /\ mem \in Memory
    BY ReplayType DEF TypeOK, Memory
  <2> QED
    BY <1>2, <2>1, <2>2, <2>3, LogAppendStep DEF LogInMemory, Memory
<1>3. CASE LogSkip
  <2>1. \A k \in Keys : Replay(wal)[k] # Absent => mem[k] # Absent
    BY <1>3 DEF LogInMemory, LogSkip, Applied
  <2>2. Head(todo).key \in Keys /\ Head(todo).entry # Absent
    BY <1>3, HeadType DEF LogSkip, TypeOK
  <2>3. mem \in Memory
    BY DEF TypeOK, Memory
  <2>4. wal' = wal /\ Applied' = [mem EXCEPT ![Head(todo).key] = Head(todo).entry]
    BY <1>3 DEF LogSkip, Applied
  <2> QED
    BY <2>1, <2>2, <2>3, <2>4 DEF LogInMemory, Memory
<1>4. CASE LogShort
  BY <1>4 DEF LogShort
<1>5. CASE FlushFinish
  <2>1. \A k \in Keys : Replay(wal')[k] = Absent
    BY <1>5, ReplayEmpty DEF FlushFinish, NoEntries
  <2> QED
    BY <2>1 DEF LogInMemory
<1>6. CASE pc = "down" /\ pc' # "down"
  <2>1. PICK c \in StartupConfigs : Restart(c)
    BY <1>6 DEF Next, Request, WriterStep, vars, Put, Delete, BatchWrite, Begin,
         ReloadConfig, GracefulShutdown, LogAppend, LogSkip, LogShort, LogError, Apply,
         FlushPanics, FlushCreate, FlushWrite, FlushFinish, FlushError, TimerExpires,
         Crash, PowerLoss, Exit, ProcessEnds
  <2>2. wal' = wal /\ Applied' = Replay(wal)
    BY <2>1 DEF Restart, StartupLogs, Applied
  <2> QED
    BY <2>2 DEF LogInMemory
<1>7. CASE pc # "down" /\ pc' # "down" /\ ~LogAppend /\ ~LogSkip /\ ~LogShort /\ ~FlushFinish
  BY <1>7, AppliedUnchanged DEF LogInMemory
<1> QED
  BY <1>1, <1>2, <1>3, <1>4, <1>5, <1>6, <1>7

THEOREM LogInMemoryCorrect ==
  ASSUME StartupLogs, "short_write" \notin Faults
  PROVE  Spec => []LogInMemory
<1>1. Init => LogInMemory
  BY ReplayEmpty DEF Init, LogInMemory, NoEntries
<1>2. TypeOK /\ LogInMemory /\ [Next]_vars => LogInMemory'
  BY LogInMemoryStep
<1> QED
  BY <1>1, <1>2, TypeCorrect, PTL DEF Spec

\* A write on top of a memtable is a write to what is looked up.
LEMMA LookupWrite ==
  ASSUME NEW m \in Memory, NEW tbls, NEW k \in Keys, NEW e \in Entries
  PROVE  Lookup([m EXCEPT ![k] = e], tbls) = [Lookup(m, tbls) EXCEPT ![k] = e]
BY DEF Lookup, Memory

\* What becomes safe when the table being written is left in state s: if it is
\* whole, the keys the log has no record of.
LEMMA TableLeftSaves ==
  ASSUME TypeOK, FlushInv, pc = "write", NEW s \in TableStates, wal' = wal,
         tables' = WithState(s)
  PROVE  \E S \in SUBSET Keys :
           Durable' = [k \in Keys |-> IF k \in S THEN View[k] ELSE Durable[k]]
<1> DEFINE S == IF s = "whole"
                THEN {k \in Keys : mem[k] # Absent /\ Replay(wal)[k] = Absent} ELSE {}
<1>1. View = Lookup(mem, tables)
  BY DEF View, Applied
<1>2. ASSUME NEW k \in Keys
      PROVE  Durable'[k] = IF k \in S THEN View[k] ELSE Durable[k]
  BY <1>1, TableLeft DEF Durable, Lookup
<1>3. Durable' = [k \in Keys |-> Durable'[k]]
  BY DEF Durable, Lookup
<1>4. S \in SUBSET Keys
  OBVIOUS
<1>5. Durable' = [k \in Keys |-> IF k \in S THEN View[k] ELSE Durable[k]]
  <2> HIDE DEF S
  <2> QED
    BY <1>2, <1>3
<1> QED
  BY <1>4, <1>5

LEMMA NothingSaved ==
  Durable = [k \in Keys |-> IF k \in {} THEN View[k] ELSE Durable[k]]
BY DEF Durable, Lookup

\* Once the log is cleared everything is safe: the keys it had records of and
\* the other keys of the memtable alike have their entries in the newest table.
LEMMA FinishSaves ==
  ASSUME TypeOK, FlushInv, LogInMemory, FlushFinish
  PROVE  Durable' = View
<1>1. View = Lookup(mem, tables)
  BY DEF View, Applied, FlushFinish
<1>2. Durable' = Lookup(NoEntries, tables)
  BY ReplayEmpty DEF Durable, FlushFinish
<1>3. ASSUME NEW k \in Keys
      PROVE  mem[k] # Absent => DiskEntry(tables, k) = mem[k]
  BY DEF FlushInv, FlushFinish
<1> QED
  BY <1>1, <1>2, <1>3 DEF Lookup, NoEntries

\* A write puts its key into the buffer.
LEMMA BufferedWrite ==
  ASSUME NEW m \in Memory, NEW key \in Keys, NEW entry \in Entries,
         pc # "down", pc' # "down", Applied = m, Applied' = [m EXCEPT ![key] = entry]
  PROVE  Buffered' = Buffered \cup {key}
<1>1. entry # Absent
  BY EntriesAssumption
<1>2. ASSUME NEW k \in Keys
      PROVE  Applied'[k] # Absent <=> Applied[k] # Absent \/ k = key
  BY <1>1 DEF Memory
<1> QED
  BY <1>2 DEF Buffered

\* The abstract store's variables, as a tuple of state functions here.
LEMMA RefinementStep ==
  ASSUME StartupLogs, Faults \cap {"short_write", "power_loss"} = {},
         TypeOK, TypeOK', FlushInv, LogInMemory, [Next]_vars
  PROVE  [KV!Next]_(KV!vars)
<1> USE DEF KV!vars
<1>a. "short_write" \notin Faults /\ "power_loss" \notin Faults
  OBVIOUS
<1>b. ASSUME pc # "down", pc' # "down", View' = View, Durable' = Durable,
             Buffered' = Buffered, config'.walEnabled = config.walEnabled
      PROVE  UNCHANGED KV!vars
  BY <1>b
<1>c. ASSUME pc # "down", pc' # "down", View' = View, config' = config,
             Buffered' = Buffered, NEW S \in SUBSET Keys,
             Durable' = [k \in Keys |-> IF k \in S THEN View[k] ELSE Durable[k]]
      PROVE  KV!Next
  <2>1. KV!Persist(S)
    BY <1>c DEF KV!Persist, KV!Saving
  <2> QED
    BY <2>1 DEF KV!Next
<1>1. CASE LogAppend
  <2> DEFINE key == Head(todo).key
             entry == Head(todo).entry
  <2>1. pc = "log" /\ pc' = "apply" /\ tables' = tables /\ config' = config
          /\ config.walEnabled
    BY <1>1 DEF LogAppend
  <2>2. key \in Keys /\ entry \in Entries
    BY <2>1, HeadType DEF TypeOK
  <2>3. Replay(wal) \in Memory /\ mem \in Memory
    BY ReplayType DEF TypeOK, Memory
  <2>4. Replay(wal') = [Replay(wal) EXCEPT ![key] = entry]
          /\ Applied' = [mem EXCEPT ![key] = entry] /\ Applied = mem
    BY <1>1, LogAppendStep
  <2> HIDE DEF key, entry
  <2>5. View' = [View EXCEPT ![key] = entry]
    <3>1. View' = Lookup([mem EXCEPT ![key] = entry], tables)
      BY <2>1, <2>4 DEF View
    <3>2. View = Lookup(mem, tables)
      BY <2>4 DEF View
    <3> QED
      BY <2>2, <2>3, <3>1, <3>2, LookupWrite
  <2>6. Durable' = [Durable EXCEPT ![key] = entry]
    <3>1. Durable' = Lookup([Replay(wal) EXCEPT ![key] = entry], tables)
      BY <2>1, <2>4 DEF Durable
    <3>2. Durable = Lookup(Replay(wal), tables)
      BY DEF Durable
    <3> QED
      BY <2>2, <2>3, <3>1, <3>2, LookupWrite
  <2>7. Buffered' = Buffered \cup {key}
    BY <2>1, <2>2, <2>3, <2>4, BufferedWrite
  <2>8. KV!Write(key, entry)
    BY <2>1, <2>5, <2>6, <2>7 DEF KV!Write
  <2> QED
    BY <2>2, <2>8 DEF KV!Next
<1>2. CASE LogSkip
  <2> DEFINE key == Head(todo).key
             entry == Head(todo).entry
  <2>1. pc = "log" /\ pc' = "apply" /\ tables' = tables /\ config' = config
          /\ ~config.walEnabled /\ wal' = wal
    BY <1>2 DEF LogSkip
  <2>2. key \in Keys /\ entry \in Entries
    BY <2>1, HeadType DEF TypeOK
  <2>3. mem \in Memory
    BY DEF TypeOK, Memory
  <2>4. Applied' = [mem EXCEPT ![key] = entry] /\ Applied = mem
    BY <1>2 DEF LogSkip, Applied
  <2> HIDE DEF key, entry
  <2>5. View' = [View EXCEPT ![key] = entry]
    <3>1. View' = Lookup([mem EXCEPT ![key] = entry], tables)
      BY <2>1, <2>4 DEF View
    <3>2. View = Lookup(mem, tables)
      BY <2>4 DEF View
    <3> QED
      BY <2>2, <2>3, <3>1, <3>2, LookupWrite
  <2>6. Durable' = Durable
    BY <2>1 DEF Durable
  <2>7. Buffered' = Buffered \cup {key}
    BY <2>1, <2>2, <2>3, <2>4, BufferedWrite
  <2>8. KV!Write(key, entry)
    BY <2>1, <2>5, <2>6, <2>7 DEF KV!Write
  <2> QED
    BY <2>2, <2>8 DEF KV!Next
<1>3. CASE LogShort
  BY <1>3, <1>a DEF LogShort
<1>4. CASE FlushFinish
  <2>1. View' = View
    BY <1>4, FlushStep DEF FlushFinish, NextWrite
  <2>2. Durable' = View
    BY <1>4, FinishSaves
  <2>3. pc # "down" /\ pc' # "down" /\ config' = config
    BY <1>4 DEF FlushFinish, NextWrite
  <2>4. Applied' = NoEntries
    BY <1>4 DEF FlushFinish, NextWrite, Applied
  <2>5. Buffered' = {}
    BY <2>4 DEF Buffered, NoEntries
  <2>6. KV!Flush
    BY <2>1, <2>2, <2>3, <2>5 DEF KV!Flush
  <2> QED
    BY <2>6 DEF KV!Next
<1>5. CASE FlushCreate
  <2>1. \A k \in Keys : DiskEntry(tables', k) = DiskEntry(tables, k)
    BY <1>5, TableCreated
  <2>2. Durable' = Durable
    BY <1>5, <2>1 DEF FlushCreate, Durable, Lookup
  <2>3. View' = View
    BY <1>5, FlushStep DEF FlushCreate
  <2>4. Buffered' = Buffered
    BY <1>5 DEF FlushCreate, Buffered, Applied
  <2> QED
    BY <1>5, <1>b, <2>2, <2>3, <2>4 DEF FlushCreate
<1>6. CASE FlushWrite \/ (FlushError /\ pc = "write")
  <2>1. PICK s \in TableStates : tables' = WithState(s)
    BY <1>6 DEF FlushWrite, FlushError, TableStates
  <2>2. pc = "write" /\ pc' # "down" /\ wal' = wal /\ config' = config
    BY <1>6 DEF FlushWrite, FlushError, Abort
  <2>3. View' = View
    BY <2>2, FlushStep
  <2>4. PICK S \in SUBSET Keys :
          Durable' = [k \in Keys |-> IF k \in S THEN View[k] ELSE Durable[k]]
    BY <2>1, <2>2, TableLeftSaves
  <2>5. Buffered' = Buffered
    BY <1>6 DEF FlushWrite, FlushError, Abort, Buffered, Applied
  <2> QED
    BY <2>2, <2>3, <2>4, <2>5, <1>c
<1>7. ASSUME NEW c \in ReloadConfigs, ReloadConfig(c)
      PROVE  KV!Next
  <2>1. pc = "idle" /\ pc' = "idle" /\ View' = View /\ Durable' = Durable /\ config' = c
    BY <1>7 DEF ReloadConfig, View, Durable, Applied
  <2>2. c.walEnabled \in BOOLEAN
    BY DEF Config
  <2>3. Buffered' = Buffered
    BY <1>7 DEF ReloadConfig, Buffered, Applied
  <2>4. KV!SetLogging(c.walEnabled)
    BY <2>1, <2>3 DEF KV!SetLogging
  <2> QED
    BY <2>2, <2>4 DEF KV!Next
<1>8. CASE pc # "down" /\ pc' = "down"
  <2>1. ProcessEnds /\ wal' = wal
    BY <1>8, <1>a, EndsStep
  <2>2. PICK S \in SUBSET Keys :
          Durable' = [k \in Keys |-> IF k \in S THEN View[k] ELSE Durable[k]]
    <3>1. CASE pc # "write"
      <4>1. Durable' = Durable
        BY <2>1, <3>1 DEF ProcessEnds, TablesLeft, Durable
      <4> QED
        BY <4>1, NothingSaved
    <3>2. CASE pc = "write"
      <4>1. PICK s \in TableStates : tables' = WithState(s)
        BY <2>1, <3>2 DEF ProcessEnds, TablesLeft
      <4> QED
        BY <2>1, <3>2, <4>1, TableLeftSaves
    <3> QED
      BY <3>1, <3>2
  <2>3. Buffered' = {}
    BY <1>8 DEF Buffered
  <2>4. KV!Crash(S)
    BY <1>8, <2>1, <2>2, <2>3 DEF KV!Crash, KV!Saving, ProcessEnds
  <2> QED
    BY <2>4 DEF KV!Next
<1>9. ASSUME NEW c \in StartupConfigs, Restart(c)
      PROVE  KV!Next
  <2>1. pc = "down" /\ pc' = "idle" /\ wal' = wal /\ tables' = tables /\ config' = c
          /\ mem' = Replay(wal)
    BY <1>9 DEF Restart, StartupLogs
  <2>2. View' = Durable /\ Durable' = Durable
    BY <2>1 DEF View, Durable, Applied
  <2>3. c.walEnabled \in BOOLEAN
    BY DEF Config
  <2>4. Buffered' \in SUBSET Keys
    BY DEF Buffered
  <2>5. KV!Recover(c.walEnabled, Buffered')
    BY <2>1, <2>2 DEF KV!Recover
  <2> QED
    BY <2>3, <2>4, <2>5 DEF KV!Next
<1>10. CASE /\ ~LogAppend /\ ~LogSkip /\ ~LogShort /\ ~FlushFinish
            /\ pc # "down" /\ pc' # "down" /\ tables' = tables /\ config' = config
  <2>1. Applied' = Applied /\ wal' = wal
    BY <1>10, AppliedUnchanged
  <2> QED
    BY <1>10, <1>b, <2>1 DEF View, Durable, Buffered
<1>11. CASE UNCHANGED vars
  BY <1>11 DEF vars, View, Durable, Buffered, Applied
<1> QED
  BY <1>1, <1>2, <1>3, <1>4, <1>5, <1>6, <1>7, <1>8, <1>9, <1>10, <1>11
     DEF Next, Request, WriterStep, Put, Delete, BatchWrite, Begin, GracefulShutdown,
         LogError, Apply, NextWrite, FlushPanics, FlushError, Abort, TimerExpires,
         Crash, PowerLoss, Exit, ProcessEnds

\* With the log on at every startup, appends complete, and what was written
\* never lost by the machine, the write path implements the abstract store:
\* any reloads, any errors of file operations, a crash at any step.
THEOREM Refinement ==
  ASSUME StartupLogs, Faults \cap {"short_write", "power_loss"} = {}
  PROVE  Spec => ImplementsKVStore
<1>1. Init => KV!Init
  <2> SUFFICES ASSUME Init PROVE KV!Init
    OBVIOUS
  <2>1. \A k \in Keys : DiskEntry(<<>>, k) = Absent
    BY EmptyType DEF DiskEntry, NewestTable
  <2>2. View = [k \in Keys |-> Absent] /\ Durable = [k \in Keys |-> Absent]
    BY <2>1, ReplayEmpty DEF Init, View, Durable, Applied, Lookup, NoEntries
  <2>3. config.walEnabled \in BOOLEAN
    BY DEF Init, Config
  <2>4. Buffered = {}
    BY DEF Init, Buffered, Applied, NoEntries
  <2> QED
    BY <2>2, <2>3, <2>4 DEF Init, KV!Init
<1>2. TypeOK /\ TypeOK' /\ FlushInv /\ LogInMemory /\ [Next]_vars => [KV!Next]_(KV!vars)
  BY RefinementStep
<1>3. Spec => []LogInMemory
  BY LogInMemoryCorrect
<1> QED
  BY <1>1, <1>2, <1>3, TypeCorrect, FlushCorrect, PTL
     DEF Spec, KV!Spec, ImplementsKVStore

-----------------------------------------------------------------------------
(* The memtable's size                                                     *)

\* No length and no size reaches the modulus.
SizesFit ==
  /\ FileLen(wal) < U32
  /\ pc = "apply" => size + HeadSize - ExistingSize(Head(todo).key) < U32

BytesOf(m, k) == IF m[k] = Absent THEN 0 ELSE EntrySize(k, m[k])

\* Of every part of the log that a restart may find and parse, the length covers
\* the entries that the part gives.
Covers(m, bytes) == IsFiniteSet(Held(m)) /\ Cardinality(Held(m)) <= bytes

LogCovers(log) ==
  \A n \in DOMAIN log :
    (\A i \in 1..n : log[i].whole) => Covers(Replay(SubSeq(log, 1, n)), log[n].end)

SizeInv == Covers(mem, size) /\ LogCovers(wal)

\* A flush has something to write, and a disk that it can write to.
FlushReady ==
  /\ config \in StartupConfigs \cup ReloadConfigs
  /\ pc \in {"create", "write", "clear"} => mem # NoEntries
  /\ pc # "poisoned"

-----------------------------------------------------------------------------
(* The bytes of the entries                                                *)

LEMMA HeldBytes ==
  ASSUME NEW m, NEW b
  PROVE  b \in Held(m) <=> \E k \in Keys : m[k] # Absent /\ b \in {k} \X (1..EntrySize(k, m[k]))
BY DEF Held

LEMMA BytesOfEntry ==
  ASSUME NEW k, NEW n \in Nat
  PROVE  IsFiniteSet({k} \X (1..n)) /\ Cardinality({k} \X (1..n)) = n
<1>1. IsFiniteSet({k}) /\ Cardinality({k}) = 1
  BY FS_Singleton
<1>2. IsFiniteSet(1..n) /\ Cardinality(1..n) = n
  BY FS_Interval
<1>3. IsFiniteSet({k} \X (1..n)) /\ Cardinality({k} \X (1..n)) = Cardinality({k}) * Cardinality(1..n)
  BY <1>1, <1>2, FS_Product, Zenon
<1> QED
  BY <1>1, <1>2, <1>3

LEMMA HeldNothing == Covers(NoEntries, 0)
<1>1. Held(NoEntries) = {}
  BY DEF Held, NoEntries
<1> QED
  BY <1>1, FS_EmptySet DEF Covers

\* A key that has an entry accounts for as many of the bytes.
LEMMA HeldEntry ==
  ASSUME NEW m \in Memory, NEW k \in Keys, m[k] # Absent, IsFiniteSet(Held(m))
  PROVE  EntrySize(k, m[k]) <= Cardinality(Held(m))
<1>1. EntrySize(k, m[k]) \in Nat
  BY EntrySizeType DEF Memory
<1>2. {k} \X (1..EntrySize(k, m[k])) \subseteq Held(m)
  BY HeldBytes
<1>3. Cardinality({k} \X (1..EntrySize(k, m[k]))) <= Cardinality(Held(m))
  BY <1>2, FS_Subset, Zenon
<1> QED
  BY <1>1, <1>3, BytesOfEntry, Zenon

\* An entry takes the place of the one there was: the bytes change by the difference.
LEMMA HeldWrite ==
  ASSUME NEW m \in Memory, NEW k \in Keys, NEW e \in Entries, IsFiniteSet(Held(m))
  PROVE  LET new == [m EXCEPT ![k] = e] IN
         /\ IsFiniteSet(Held(new))
         /\ Cardinality(Held(new)) = Cardinality(Held(m)) - BytesOf(m, k) + EntrySize(k, e)
         /\ BytesOf(m, k) \in Nat /\ BytesOf(m, k) <= Cardinality(Held(m))
<1> DEFINE new == [m EXCEPT ![k] = e]
           old == BytesOf(m, k)
           Gone == {k} \X (1..old)
           Come == {k} \X (1..EntrySize(k, e))
           Rest == Held(m) \ Gone
<1>1. old \in Nat /\ EntrySize(k, e) \in Nat
  BY EntrySizeType DEF Memory, BytesOf
<1>2. new[k] = e /\ e # Absent /\ \A j \in Keys : j # k => new[j] = m[j]
  BY EntriesAssumption DEF Memory
<1>3. Gone \subseteq Held(m)
  <2>1. CASE m[k] = Absent
    BY <2>1 DEF BytesOf
  <2>2. CASE m[k] # Absent
    BY <2>2, HeldBytes DEF BytesOf
  <2> QED
    BY <2>1, <2>2
<1>4. \A b : b \in Rest <=>
        \E j \in Keys : j # k /\ m[j] # Absent /\ b \in {j} \X (1..EntrySize(j, m[j]))
  <2>1. ASSUME NEW b \in Rest
        PROVE  \E j \in Keys : j # k /\ m[j] # Absent /\ b \in {j} \X (1..EntrySize(j, m[j]))
    <3>1. PICK j \in Keys : m[j] # Absent /\ b \in {j} \X (1..EntrySize(j, m[j]))
      BY HeldBytes
    <3>2. j # k
      BY <3>1 DEF BytesOf
    <3> QED
      BY <3>1, <3>2
  <2>2. ASSUME NEW b, NEW j \in Keys, j # k, m[j] # Absent, b \in {j} \X (1..EntrySize(j, m[j]))
        PROVE  b \in Rest
    <3>1. b \in Held(m)
      BY <2>2, HeldBytes
    <3>2. b \notin Gone
      BY <2>2
    <3> QED
      BY <3>1, <3>2
  <2> QED
    BY <2>1, <2>2
<1>5. Held(new) = Rest \cup Come
  <2>1. ASSUME NEW b \in Held(new)
        PROVE  b \in Rest \cup Come
    <3>1. PICK j \in Keys : new[j] # Absent /\ b \in {j} \X (1..EntrySize(j, new[j]))
      BY HeldBytes
    <3>2. CASE j = k
      BY <1>2, <3>1, <3>2
    <3>3. CASE j # k
      BY <1>2, <1>4, <3>1, <3>3
    <3> QED
      BY <3>2, <3>3
  <2>2. ASSUME NEW b \in Rest
        PROVE  b \in Held(new)
    <3>1. PICK j \in Keys : j # k /\ m[j] # Absent /\ b \in {j} \X (1..EntrySize(j, m[j]))
      BY <1>4
    <3>2. new[j] # Absent /\ b \in {j} \X (1..EntrySize(j, new[j]))
      BY <1>2, <3>1
    <3> QED
      BY <3>2, HeldBytes
  <2>3. Come \subseteq Held(new)
    BY <1>2, HeldBytes
  <2> QED
    BY <2>1, <2>2, <2>3
<1>6. Rest \cap Come = {}
  BY <1>4
<1> HIDE DEF new, old
<1>7. IsFiniteSet(Gone) /\ Cardinality(Gone) = old
      /\ IsFiniteSet(Come) /\ Cardinality(Come) = EntrySize(k, e)
  BY <1>1, BytesOfEntry
<1>8. Cardinality(Held(m)) \in Nat /\ old <= Cardinality(Held(m))
  BY <1>3, <1>7, FS_Subset, FS_CardinalityType
<1> HIDE DEF Gone, Come
<1>9. IsFiniteSet(Rest) /\ Cardinality(Rest) = Cardinality(Held(m)) - old
  <2>1. Held(m) \cap Gone = Gone
    BY <1>3
  <2>2. /\ IsFiniteSet(Rest)
        /\ Cardinality(Rest) = Cardinality(Held(m)) - Cardinality(Held(m) \cap Gone)
    BY FS_Difference, Zenon
  <2> QED
    BY <1>7, <2>1, <2>2
<1> HIDE DEF Rest
<1>10. IsFiniteSet(Held(new)) /\ Cardinality(Held(new)) = Cardinality(Rest) + Cardinality(Come)
  <2>1. Cardinality(Rest) \in Nat /\ Cardinality(Come) \in Nat /\ Cardinality({}) = 0
    BY <1>7, <1>9, FS_CardinalityType, FS_EmptySet
  <2>2. /\ IsFiniteSet(Rest \cup Come)
        /\ Cardinality(Rest \cup Come)
             = Cardinality(Rest) + Cardinality(Come) - Cardinality(Rest \cap Come)
    BY <1>7, <1>9, FS_Union, Zenon
  <2>3. Cardinality(Rest \cap Come) = 0
    BY <1>6, <2>1
  <2> QED
    BY <1>5, <2>1, <2>2, <2>3
<1> QED
  BY <1>1, <1>7, <1>8, <1>9, <1>10 DEF new, old

\* What a write to a memtable changes of its bytes.
Exchanges(m, k, e, after) ==
  /\ IsFiniteSet(Held(after))
  /\ Cardinality(Held(after)) = Cardinality(Held(m)) - BytesOf(m, k) + EntrySize(k, e)
  /\ BytesOf(m, k) \in Nat /\ BytesOf(m, k) <= Cardinality(Held(m))

LEMMA HeldWritten ==
  ASSUME NEW m \in Memory, NEW k \in Keys, NEW e \in Entries, IsFiniteSet(Held(m)),
         NEW after, after = [m EXCEPT ![k] = e]
  PROVE  Exchanges(m, k, e, after)
BY HeldWrite, Zenon DEF Exchanges

-----------------------------------------------------------------------------
(* The log                                                                 *)

\* The first records of a longer log.
LEMMA FirstRecords ==
  ASSUME NEW log \in Seq(LogRecord), NEW r \in LogRecord, NEW n \in DOMAIN log
  PROVE  /\ SubSeq(Append(log, r), 1, n) = SubSeq(log, 1, n)
         /\ \A i \in 1..n : Append(log, r)[i] = log[i]
         /\ n \in DOMAIN Append(log, r)
OBVIOUS

LEMMA AllRecords ==
  ASSUME NEW log \in Seq(LogRecord)
  PROVE  SubSeq(log, 1, Len(log)) = log
OBVIOUS

\* A whole log covers what it gives.
LEMMA WholeLogCovers ==
  ASSUME NEW log \in Seq(LogRecord), LogCovers(log), \A i \in DOMAIN log : log[i].whole
  PROVE  Covers(Replay(log), FileLen(log))
<1>1. CASE log = <<>>
  BY <1>1, ReplayEmpty, HeldNothing DEF FileLen
<1>2. CASE log # <<>>
  <2>1. Len(log) \in DOMAIN log /\ DOMAIN log = 1..Len(log)
    BY <1>2
  <2>2. Covers(Replay(SubSeq(log, 1, Len(log))), log[Len(log)].end)
    BY <2>1 DEF LogCovers
  <2> QED
    BY <1>2, <2>2, AllRecords DEF FileLen
<1> QED
  BY <1>1, <1>2

\* An append of a whole record, or of less.
LEMMA AppendCovers ==
  ASSUME NEW log \in Seq(LogRecord), NEW r \in LogRecord, LogCovers(log),
         r.whole => r.end = FileLen(log) + EntrySize(r.key, r.entry)
  PROVE  LogCovers(Append(log, r))
<1> DEFINE new == Append(log, r)
           l == Len(log)
<1>1. /\ new \in Seq(LogRecord) /\ DOMAIN new = 1..(l + 1) /\ DOMAIN log = 1..l
      /\ new[l + 1] = r /\ SubSeq(new, 1, l + 1) = new /\ l \in Nat
      /\ \A i \in 1..l : new[i] = log[i]
  OBVIOUS
<1> SUFFICES ASSUME NEW n \in DOMAIN new, \A i \in 1..n : new[i].whole
             PROVE  Covers(Replay(SubSeq(new, 1, n)), new[n].end)
  BY DEF LogCovers
<1>2. CASE n \in DOMAIN log
  <2>1. /\ SubSeq(new, 1, n) = SubSeq(log, 1, n)
        /\ \A i \in 1..n : new[i] = log[i]
        /\ n \in 1..n
    BY <1>1, <1>2, FirstRecords
  <2> HIDE DEF new
  <2>2. \A i \in 1..n : log[i].whole
    BY <2>1
  <2> QED
    BY <1>2, <2>1, <2>2 DEF LogCovers
<1>3. CASE n = l + 1
  <2>1. r.whole /\ \A i \in DOMAIN log : log[i].whole
    BY <1>1, <1>3
  <2>2. Covers(Replay(log), FileLen(log)) /\ FileLen(log) \in Nat
    BY <2>1, WholeLogCovers, FileLenType
  <2>3. r.key \in Keys /\ r.entry \in Entries /\ Replay(log) \in Memory
    BY ReplayType DEF LogRecord
  <2>4. Replay(new) = [Replay(log) EXCEPT ![r.key] = r.entry]
    BY ReplayAppend
  <2> DEFINE m == Replay(log)
             old == BytesOf(m, r.key)
  <2> HIDE DEF m, new
  <2>5. /\ IsFiniteSet(Held(Replay(new)))
        /\ Cardinality(Held(Replay(new))) = Cardinality(Held(m)) - old + EntrySize(r.key, r.entry)
        /\ old \in Nat
    <3>1. m \in Memory /\ IsFiniteSet(Held(m)) /\ Replay(new) = [m EXCEPT ![r.key] = r.entry]
      BY <2>2, <2>3, <2>4 DEF m, Covers
    <3> DEFINE after == Replay(new)
    <3> HIDE DEF after
    <3>2. after = [m EXCEPT ![r.key] = r.entry]
      BY <3>1 DEF after
    <3>3. /\ IsFiniteSet(Held(after))
          /\ Cardinality(Held(after)) = Cardinality(Held(m)) - old + EntrySize(r.key, r.entry)
          /\ old \in Nat
      <4>1. Exchanges(m, r.key, r.entry, after)
        BY <2>3, <3>1, <3>2, HeldWritten
      <4> QED
        BY <4>1 DEF Exchanges, old
    <3> QED
      BY <3>3 DEF after
  <2>6. EntrySize(r.key, r.entry) \in Nat /\ Cardinality(Held(m)) \in Nat
    BY <2>2, <2>3, EntrySizeType, FS_CardinalityType DEF m, Covers
  <2>7. Cardinality(Held(Replay(new))) <= r.end
    BY <2>1, <2>2, <2>5, <2>6 DEF m, Covers
  <2> QED
    BY <1>1, <1>3, <2>5, <2>7 DEF Covers
<1> QED
  BY <1>1, <1>2, <1>3

LEMMA EmptyCovers == LogCovers(<<>>)
BY EmptyType DEF LogCovers

\* What a power loss leaves: its whole records are those of the log.
LEMMA LeftCovers ==
  ASSUME TypeOK, LogCovers(wal), NEW log \in LogsLeft
  PROVE  LogCovers(log)
<1> DEFINE Cut(n) == SubSeq(wal, 1, n)
<1>0. wal \in Seq(LogRecord)
  BY DEF TypeOK
<1>1. ASSUME NEW n \in 0..Len(wal)
      PROVE  /\ DOMAIN Cut(n) = 1..n /\ Cut(n) \in Seq(LogRecord) /\ Len(Cut(n)) = n
             /\ \A i \in 1..n : Cut(n)[i] = wal[i] /\ i \in DOMAIN wal
             /\ \A i \in 1..n : SubSeq(Cut(n), 1, i) = SubSeq(wal, 1, i)
  BY <1>0
<1>2. ASSUME NEW n \in 0..Len(wal), log = Cut(n)
      PROVE  LogCovers(log)
  <2>1. ASSUME NEW i \in 1..n, \A j \in 1..i : log[j].whole
        PROVE  Covers(Replay(SubSeq(log, 1, i)), log[i].end)
    <3>1. SubSeq(log, 1, i) = SubSeq(wal, 1, i) /\ log[i] = wal[i] /\ i \in DOMAIN wal
      BY <1>1, <1>2
    <3>2. \A j \in 1..i : j \in 1..n
      OBVIOUS
    <3>3. \A j \in 1..i : wal[j].whole
      BY <1>1, <1>2, <2>1, <3>2
    <3> QED
      BY <3>1, <3>3 DEF LogCovers
  <2> QED
    BY <1>1, <1>2, <2>1 DEF LogCovers
<1>3. ASSUME NEW n \in DOMAIN wal, wal[n].whole,
             log = [Cut(n) EXCEPT ![n].whole = FALSE, ![n].end = @ - 1]
      PROVE  LogCovers(log)
  <2>0. n \in 0..Len(wal) /\ n \in Nat /\ n \in 1..n
    BY <1>0
  <2>1. log \in Seq(LogRecord) /\ DOMAIN log = 1..n
        /\ ~log[n].whole /\ \A i \in (1..n) \ {n} : log[i] = wal[i]
    <3>1. DOMAIN Cut(n) = 1..n /\ \A i \in 1..n : Cut(n)[i] = wal[i]
      BY <1>1, <2>0
    <3>2. \A i \in DOMAIN wal : wal[i].whole => wal[i].end > 0
      BY DEF TypeOK
    <3>3. log \in Seq(LogRecord)
      BY <3>2, LogsLeftType DEF TypeOK
    <3>4. [wal[n] EXCEPT !.whole = FALSE, !.end = @ - 1] \in LogRecord
      <4>1. wal[n] \in LogRecord /\ wal[n].end > 0
        BY <1>0, <1>3, <3>2
      <4> QED
        BY <4>1, TornRecordType
    <3> HIDE DEF Cut
    <3>5. log = [Cut(n) EXCEPT ![n] = [wal[n] EXCEPT !.whole = FALSE, !.end = @ - 1]]
      BY <1>3, <2>0, <3>1
    <3>6. DOMAIN log = 1..n /\ \A i \in (1..n) \ {n} : log[i] = wal[i]
      BY <3>1, <3>5
    <3>7. log[n] = [wal[n] EXCEPT !.whole = FALSE, !.end = @ - 1]
      BY <2>0, <3>1, <3>5
    <3>8. log[n].whole = FALSE
      BY <3>4, <3>7, Zenon DEF LogRecord
    <3> QED
      BY <3>3, <3>6, <3>8
  <2>2. ASSUME NEW i \in DOMAIN log, \A j \in 1..i : log[j].whole
        PROVE  Covers(Replay(SubSeq(log, 1, i)), log[i].end)
    <3>1. i \in 1..(n - 1)
      BY <2>0, <2>1, <2>2
    <3>2. SubSeq(log, 1, i) = SubSeq(wal, 1, i)
      BY <1>1, <2>0, <2>1, <3>1
    <3>3. i \in DOMAIN wal /\ log[i] = wal[i] /\ \A j \in 1..i : log[j] = wal[j]
      BY <1>1, <2>0, <2>1, <3>1
    <3> QED
      BY <2>2, <3>2, <3>3 DEF LogCovers
  <2> QED
    BY <2>2 DEF LogCovers
<1> QED
  BY <1>2, <1>3 DEF LogsLeft

-----------------------------------------------------------------------------
(* The size                                                                *)

LEMMA SizeAppends ==
  ASSUME TypeOK, SizeInv, LogAppend \/ LogShort
  PROVE  SizeInv'
<1>1. todo # <<>> /\ wal \in Seq(LogRecord) /\ FileLen(wal) \in Nat
  BY FileLenType DEF TypeOK, LogAppend, LogShort
<1>2. PICK whole \in BOOLEAN, bytes \in Nat :
        /\ wal' = Append(wal, Record(whole, bytes))
        /\ whole => bytes = HeadSize
  <2>1. CASE LogAppend
    BY <1>1, <2>1, HeadType DEF LogAppend
  <2>2. CASE LogShort
    <3>1. HeadSize - 1 \in Nat
      BY <1>1, HeadType
    <3> QED
      BY <2>2, <3>1 DEF LogShort
  <2> QED
    BY <2>1, <2>2
<1> DEFINE r == Record(whole, bytes)
<1>3. /\ r \in LogRecord
      /\ r.whole = whole /\ r.end = FileLen(wal) + bytes
      /\ HeadSize = EntrySize(r.key, r.entry)
  BY <1>1, HeadType DEF Record, LogRecord, HeadSize
<1>4. LogCovers(Append(wal, r))
  <2> HIDE DEF r
  <2> QED
    BY <1>1, <1>2, <1>3, AppendCovers DEF SizeInv
<1>5. UNCHANGED <<mem, size>>
  BY DEF LogAppend, LogShort
<1> QED
  BY <1>2, <1>4, <1>5 DEF SizeInv, LogCovers, Covers

LEMMA SizeApplies ==
  ASSUME TypeOK, SizesFit, SizeInv, Apply
  PROVE  SizeInv'
<1> DEFINE k == Head(todo).key
           e == Head(todo).entry
<1>1. /\ k \in Keys /\ e \in Entries /\ HeadSize = EntrySize(k, e) /\ HeadSize \in Nat
      /\ mem \in Memory /\ size \in Nat /\ U32 \in Nat \ {0}
  <2>1. todo # <<>>
    BY DEF TypeOK, Apply
  <2>2. mem \in Memory /\ size \in 0..(U32 - 1) /\ U32 \in Nat \ {0}
    BY SizesAssumption DEF TypeOK, Memory
  <2> QED
    BY <2>1, <2>2, HeadType DEF HeadSize
<1>2. ExistingSize(k) = BytesOf(mem, k)
  BY DEF ExistingSize, BytesOf
<1>3. mem' = [mem EXCEPT ![k] = e] /\ size' = (size + HeadSize - ExistingSize(k)) % U32
  BY DEF Apply
<1>4. size + HeadSize - ExistingSize(k) < U32
  BY DEF SizesFit, Apply
<1> HIDE DEF k, e
<1>5. IsFiniteSet(Held(mem)) /\ Cardinality(Held(mem)) <= size /\ Cardinality(Held(mem)) \in Nat
  BY FS_CardinalityType DEF SizeInv, Covers
<1>6. /\ IsFiniteSet(Held(mem'))
      /\ Cardinality(Held(mem')) = Cardinality(Held(mem)) - BytesOf(mem, k) + EntrySize(k, e)
      /\ BytesOf(mem, k) \in Nat /\ BytesOf(mem, k) <= Cardinality(Held(mem))
  <2>1. mem' = [mem EXCEPT ![k] = e] /\ IsFiniteSet(Held(mem))
    BY <1>3, <1>5
  <2>2. Exchanges(mem, k, e, mem')
    BY <1>1, <2>1, HeldWritten
  <2> QED
    BY <2>2 DEF Exchanges
<1>7. size' = size + HeadSize - ExistingSize(k)
  <2>1. size + HeadSize - ExistingSize(k) \in 0..(U32 - 1)
    BY <1>1, <1>2, <1>4, <1>5, <1>6
  <2> QED
    BY <1>1, <1>3, <2>1
<1>8. Cardinality(Held(mem')) <= size'
  BY <1>1, <1>2, <1>5, <1>6, <1>7
<1>9. wal' = wal
  BY DEF Apply
<1> QED
  BY <1>6, <1>8, <1>9 DEF SizeInv, Covers, LogCovers

LEMMA SizeEnds ==
  ASSUME TypeOK, SizeInv, Crash \/ PowerLoss \/ Exit
  PROVE  SizeInv'
<1>1. mem' = NoEntries /\ size' = 0 /\ (wal' = wal \/ wal' \in LogsLeft)
  BY DEF Crash, PowerLoss, Exit, ProcessEnds
<1>2. LogCovers(wal')
  BY <1>1, LeftCovers DEF SizeInv
<1> QED
  BY <1>1, <1>2, HeldNothing DEF SizeInv, Covers, LogCovers

LEMMA SizeRestarts ==
  ASSUME TypeOK, SizesFit, SizeInv, NEW c \in StartupConfigs, Restart(c)
  PROVE  SizeInv'
<1>1. wal' = wal /\ wal \in Seq(LogRecord) /\ FileLen(wal) % U32 = FileLen(wal)
  <2>1. FileLen(wal) \in Nat /\ U32 \in Nat \ {0} /\ FileLen(wal) < U32
    BY SizesAssumption, FileLenType DEF TypeOK, SizesFit
  <2>2. FileLen(wal) % U32 = FileLen(wal)
    BY <2>1
  <2> QED
    BY <2>2 DEF Restart, TypeOK
<1>2. CASE c.walEnabled
  <2>1. \A i \in DOMAIN wal : wal[i].whole
    BY <1>2 DEF Restart, Parses
  <2>2. Covers(Replay(wal), FileLen(wal))
    BY <1>1, <2>1, WholeLogCovers DEF SizeInv
  <2>3. mem' = Replay(wal) /\ size' = FileLen(wal)
    BY <1>1, <1>2 DEF Restart
  <2> QED
    BY <1>1, <2>2, <2>3 DEF SizeInv, Covers, LogCovers
<1>3. CASE ~c.walEnabled
  <2>1. mem' = NoEntries /\ size' = 0
    BY <1>3 DEF Restart
  <2> QED
    BY <1>1, <2>1, HeldNothing DEF SizeInv, Covers, LogCovers
<1> QED
  BY <1>2, <1>3

LEMMA SizeStep == TypeOK /\ SizesFit /\ SizeInv /\ [Next]_vars => SizeInv'
<1> SUFFICES ASSUME TypeOK, SizesFit, SizeInv, [Next]_vars
             PROVE  SizeInv'
  OBVIOUS
<1>1. CASE LogAppend \/ LogShort
  BY <1>1, SizeAppends
<1>2. CASE Apply
  BY <1>2, SizeApplies
<1>3. CASE FlushFinish
  <2>1. mem' = NoEntries /\ size' = 0 /\ wal' = <<>>
    BY <1>3 DEF FlushFinish
  <2> QED
    BY <2>1, HeldNothing, EmptyCovers DEF SizeInv, Covers, LogCovers
<1>4. CASE Crash \/ PowerLoss \/ Exit
  BY <1>4, SizeEnds
<1>5. ASSUME NEW c \in StartupConfigs, Restart(c)
      PROVE  SizeInv'
  BY <1>5, SizeRestarts
<1>6. CASE UNCHANGED <<wal, mem, size>>
  BY <1>6 DEF SizeInv, Covers, LogCovers
<1>7. \/ LogAppend \/ LogShort \/ Apply \/ FlushFinish \/ Crash \/ PowerLoss \/ Exit
      \/ \E c \in StartupConfigs : Restart(c)
      \/ UNCHANGED <<wal, mem, size>>
  BY DEF Next, Request, WriterStep, vars, Delete, Put, BatchWrite, Begin, ReloadConfig,
         GracefulShutdown, LogSkip, LogError, FlushPanics, FlushCreate, FlushWrite,
         FlushError, TimerExpires
<1> QED
  BY <1>1, <1>2, <1>3, <1>4, <1>5, <1>6, <1>7

LEMMA AlwaysCovered == Spec /\ []SizesFit => []SizeInv
<1>1. Init => SizeInv
  BY HeldNothing, EmptyCovers DEF Init, SizeInv
<1> QED
  BY <1>1, SizeStep, TypeCorrect, PTL DEF Spec

\* As long as no length and no size reaches the modulus, current_size_bytes covers
\* the entries in memory, through every fault, crash and restart: no subtraction of
\* put and delete wraps, and no flush the size should trigger is late.
THEOREM SizeCorrect == Spec /\ []SizesFit => []SizeCoversEntries
<1>1. SizeInv => SizeCoversEntries
  BY DEF SizeInv, Covers, SizeCoversEntries, Bytes
<1> QED
  BY <1>1, AlwaysCovered, PTL

-----------------------------------------------------------------------------
(* The flush                                                               *)

\* A memtable with an entry has bytes to flush.
LEMMA SomethingToFlush ==
  ASSUME TypeOK, SizeInv, mem # NoEntries
  PROVE  size # 0
<1>1. mem \in Memory /\ size \in Nat
  BY DEF TypeOK, Memory
<1>2. PICK k \in Keys : mem[k] # Absent
  BY <1>1 DEF NoEntries, Memory
<1>3. EntrySize(k, mem[k]) \in Nat /\ EntrySize(k, mem[k]) > 0
  BY <1>1, <1>2, EntrySizeType DEF Memory
<1>4. IsFiniteSet(Held(mem)) /\ Cardinality(Held(mem)) <= size
  BY DEF SizeInv, Covers
<1>5. EntrySize(k, mem[k]) <= Cardinality(Held(mem)) /\ Cardinality(Held(mem)) \in Nat
  BY <1>1, <1>2, <1>4, HeldEntry, FS_CardinalityType
<1> QED
  BY <1>1, <1>3, <1>4, <1>5

LEMMA FlushReadyStep ==
  ASSUME \A c \in StartupConfigs \cup ReloadConfigs : c.localDisk,
         TypeOK, SizeInv, FlushReady, [Next]_vars
  PROVE  FlushReady'
<1>1. CASE Apply
  <2>1. /\ Head(todo).key \in Keys /\ Head(todo).entry \in Entries /\ mem \in Memory
        /\ mem' = [mem EXCEPT ![Head(todo).key] = Head(todo).entry]
    BY <1>1, HeadType DEF Apply, TypeOK, Memory
  <2>2. mem'[Head(todo).key] # NoEntries[Head(todo).key]
    BY <2>1, EntriesAssumption DEF NoEntries, Memory
  <2>3. mem' # NoEntries
    BY <2>2
  <2> QED
    BY <1>1, <2>3 DEF FlushReady, Apply, NextWrite
<1>2. ~FlushPanics
  <2> SUFFICES ASSUME FlushPanics
               PROVE  FALSE
    OBVIOUS
  <2>1. config.localDisk /\ size = 0 /\ mem # NoEntries
    BY DEF FlushPanics, FlushReady
  <2> QED
    BY <2>1, SomethingToFlush
<1>4. CASE Request
  BY <1>4 DEF Request, Delete, Put, BatchWrite, Begin, ReloadConfig, GracefulShutdown, FlushReady
<1>5. CASE LogAppend \/ LogSkip \/ LogShort \/ LogError
  BY <1>5 DEF LogAppend, LogSkip, LogShort, LogError, Abort, FlushReady
<1>6. CASE FlushCreate \/ FlushWrite \/ FlushFinish \/ FlushError
  BY <1>6 DEF FlushCreate, FlushWrite, FlushFinish, FlushError, Abort, NextWrite, FlushReady
<1>7. CASE TimerExpires \/ UNCHANGED vars
  BY <1>7 DEF TimerExpires, vars, FlushReady
<1>8. CASE Crash \/ PowerLoss \/ Exit
  BY <1>8 DEF Crash, PowerLoss, Exit, ProcessEnds, FlushReady
<1>9. ASSUME NEW c \in StartupConfigs, Restart(c)
      PROVE  FlushReady'
  BY <1>9 DEF Restart, FlushReady
<1> QED
  BY <1>1, <1>2, <1>4, <1>5, <1>6, <1>7, <1>8, <1>9 DEF Next, WriterStep

\* If moreover every configuration has a local disk, flush never divides by a size
\* of zero and the lock is never poisoned, whatever fails.
THEOREM FlushAlwaysWorks ==
  ASSUME \A c \in StartupConfigs \cup ReloadConfigs : c.localDisk
  PROVE  Spec /\ []SizesFit => []FlushNeverPanics
<1>1. Init => FlushReady
  BY DEF Init, FlushReady
<1>2. TypeOK /\ SizeInv /\ FlushReady /\ [Next]_vars => FlushReady'
  BY FlushReadyStep
<1>3. FlushReady => FlushNeverPanics
  BY DEF FlushReady, FlushNeverPanics
<1> QED
  BY <1>1, <1>2, <1>3, AlwaysCovered, TypeCorrect, PTL DEF Spec
=============================================================================
