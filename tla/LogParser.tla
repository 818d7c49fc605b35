----------------------------- MODULE LogParser ------------------------------
(***************************************************************************)
(* The write-ahead log byte by byte (memtable/mem.rs): how a record and an *)
(* entry are written, and rebuild_memtable, which parses the log when the  *)
(* process starts, one record a step.  The log has no checksums and no     *)
(* record marks; a process that ended within an append leaves a log that   *)
(* ends anywhere, and write_entry takes a write(2) that stored a part of a *)
(* record for a success.  Memtable takes the whole parse as one step:      *)
(* Replay of a log whose records are complete, a refusal of any other.     *)
(*                                                                         *)
(* Bytes are numbers from 0 to 255, indexes count from 0 as in the code.   *)
(***************************************************************************)
EXTENDS Integers, Sequences, FiniteSets, FiniteSetsExt

CONSTANTS
  LogKeys,     \* keys, as sequences of bytes
  LogEntries,  \* what clients store: [value, meta] records, or Tombstone
  Tombstone,   \* None in the code
  NoMeta,      \* an entry without metadata; None in the code
  LenSize,     \* bytes of a length field (4 in the code)
  ShortWrites, \* whether an append may store a part of its record and be followed
  MaxRecords   \* bound: appends

Byte == 0..255

\* Metadata: a map from names to bytes and their type.
IsMeta(meta) ==
  /\ IsFiniteSet(DOMAIN meta) /\ DOMAIN meta \subseteq Seq(Byte)
  /\ meta \in [DOMAIN meta -> [raw : Seq(Byte), type : 0..9]]

IsEntry(e) ==
  /\ e \in [value : Seq(Byte), meta : {e.meta}]
  /\ e.meta = NoMeta \/ IsMeta(e.meta)

ASSUME LogKeysAssumption == \A k \in LogKeys : k \in Seq(Byte) /\ k # <<>>
ASSUME LogEntriesAssumption == \A e \in LogEntries : e = Tombstone \/ IsEntry(e)
ASSUME LenSizeAssumption == LenSize \in Nat \ {0}
ASSUME MaxRecordsAssumption == MaxRecords \in Nat

VARIABLES
  written,  \* history: the operations appended, the last one perhaps in part
  log,      \* wal_content, what there is of them
  idx,      \* curr_idx
  mem,      \* in_memory_repr: the keys parsed, and their entries
  size,     \* current_size_bytes
  pc        \* "parse", or how it ended: "done", "error" or "panic"

logVars == <<written, log, idx, mem, size, pc>>

-----------------------------------------------------------------------------
(* Encoding                                                                *)

\* to_le_bytes, in LenSize bytes: what is left of the number after some of them.
LE(n) ==
  LET left[i \in 0..LenSize] == IF i = 0 THEN n ELSE left[i - 1] \div 256
  IN  [i \in 1..LenSize |-> left[i - 1] % 256]

\* from_le_bytes at an index: the number in the last some of LenSize bytes.
LEAt(bytes, at) ==
  LET high[i \in 0..LenSize] ==
        IF i = 0 THEN 0 ELSE high[i - 1] * 256 + bytes[at + LenSize + 1 - i]
  IN  high[LenSize]

Slice(bytes, i, n) == SubSeq(bytes, i + 1, i + n)

TombstoneByte == 255
MetaExists == 1
MetaMissing == 0

\* len | bytes
Prefixed(bytes) == LE(Len(bytes)) \o bytes

\* The order of a BTreeMap's keys: at the first place where the two are not the
\* same, the one has ended or has the smaller byte.
Before(s, t) ==
  \E i \in 1..Len(t) :
    /\ i <= Len(s) + 1
    /\ \A j \in 1..(i - 1) : s[j] = t[j]
    /\ i <= Len(s) => s[i] < t[i]

InOrder(names, order) ==
  /\ {order[i] : i \in DOMAIN order} = names
  /\ \A i, j \in DOMAIN order : i < j => Before(order[i], order[j])

Names(meta) ==
  CHOOSE order \in [1..Cardinality(DOMAIN meta) -> DOMAIN meta] : InOrder(DOMAIN meta, order)

\* str-len | str | raw-len | raw | type
SerializeInfo(name, info) == Prefixed(name) \o Prefixed(info.raw) \o <<info.type>>

\* That for every name in turn: of the last some names.
SerializeMeta(meta) ==
  LET names == Names(meta)
      last[i \in 0..Len(names)] ==
        IF i = 0 THEN <<>>
        ELSE LET name == names[Len(names) + 1 - i]
             IN  SerializeInfo(name, meta[name]) \o last[i - 1]
  IN  last[Len(names)]

\* val-len | val | flag | metadata
Serialize(e) ==
  Prefixed(e.value) \o
  (IF e.meta = NoMeta THEN <<MetaMissing>> ELSE <<MetaExists>> \o SerializeMeta(e.meta))

\* to_wal_entry: key-len | key | value-len | value.
Encode(op) ==
  Prefixed(op.key) \o
  Prefixed(IF op.entry = Tombstone THEN <<TombstoneByte>> ELSE Serialize(op.entry))

EncodeAll(ops) ==
  LET first[i \in 0..Len(ops)] == IF i = 0 THEN <<>> ELSE first[i - 1] \o Encode(ops[i])
  IN  first[Len(ops)]

-----------------------------------------------------------------------------
(* Decoding an entry                                                       *)

Insert(map, k, v) == [x \in DOMAIN map \cup {k} |-> IF x = k THEN v ELSE map[x]]

\* One turn of the loop over the names: where it is, and the map so far; no element
\* if the bytes are malformed, or one.  Of a name that comes twice the later one
\* counts; a type byte that is none of 1..9 is Unspecified.
NextName(bytes, state) ==
  LET n == Len(bytes)
      nameLen == LEAt(bytes, state.idx)
      rawAt == state.idx + LenSize + nameLen
      rawLen == LEAt(bytes, rawAt)
      typeAt == rawAt + LenSize + rawLen
      type == IF bytes[typeAt + 1] \in 1..9 THEN bytes[typeAt + 1] ELSE 0
      name == Slice(bytes, state.idx + LenSize, nameLen)
      info == [raw |-> Slice(bytes, rawAt + LenSize, rawLen), type |-> type]
  IN  IF state.idx >= n THEN state
      ELSE IF state.idx + LenSize > n \/ rawAt + LenSize > n \/ typeAt + 1 > n
      THEN [idx |-> n, maps |-> {}]
      ELSE [idx |-> typeAt + 1, maps |-> {Insert(map, name, info) : map \in state.maps}]

\* The metadata from an index on; every turn takes some byte.
DeserializeMeta(bytes, from) ==
  LET loop[i \in 0..Len(bytes)] ==
        IF i = 0 THEN [idx |-> from, maps |-> {<<>>}] ELSE NextName(bytes, loop[i - 1])
  IN  loop[Len(bytes)].maps

\* Deserialize an entry: no element if it is malformed, or one.
Deserialize(bytes) ==
  LET valLen == LEAt(bytes, 0)
      flagAt == LenSize + valLen
      value == Slice(bytes, LenSize, valLen)
  IN  IF Len(bytes) <= LenSize \/ flagAt + 1 > Len(bytes) THEN {}
      ELSE {[value |-> value, meta |-> m] :
              m \in IF bytes[flagAt + 1] = MetaMissing THEN {NoMeta}
                    ELSE DeserializeMeta(bytes, flagAt + 1)}

-----------------------------------------------------------------------------
(* The parser                                                              *)

Ops == [key : LogKeys, entry : LogEntries]

\* What the appends may leave of an operation: some first bytes.
Appended(op) == {SubSeq(Encode(op), 1, n) : n \in 1..Len(Encode(op))}

\* At most one append stored a part: the last one, as the process ended within
\* it, or with short writes any.
Init ==
  /\ written \in UNION {[1..n -> Ops] : n \in 0..MaxRecords}
  /\ IF written = <<>> THEN log = <<>>
     ELSE \E i \in IF ShortWrites THEN DOMAIN written ELSE {Len(written)} :
          \E part \in Appended(written[i]) :
            log = EncodeAll(SubSeq(written, 1, i - 1)) \o part
                  \o EncodeAll(SubSeq(written, i + 1, Len(written)))
  /\ idx = 0
  /\ mem = <<>>
  /\ size = 0
  /\ pc = "parse"

\* Where the parts of the record at idx are, if it is all there.
KeyAt == idx + LenSize
ValLenAt == KeyAt + LEAt(log, idx)
ValAt == ValLenAt + LenSize
NextAt == ValAt + LEAt(log, ValLenAt)

Key == Slice(log, KeyAt, LEAt(log, idx))
RawValue == Slice(log, ValAt, LEAt(log, ValLenAt))

\* The index is at the end; an empty log is one too.
Finish ==
  /\ pc = "parse"
  /\ idx >= Len(log)
  /\ size' = Len(log)
  /\ pc' = "done"
  /\ UNCHANGED <<written, log, idx, mem>>

\* Less than a length field is left.  Only at the start is that an error: later
\* the slice is out of bounds.
StopsShort ==
  /\ pc = "parse"
  /\ idx < Len(log)
  /\ KeyAt > Len(log)
  /\ pc' = IF idx = 0 THEN "error" ELSE "panic"
  /\ UNCHANGED <<written, log, idx, mem, size>>

\* Mutant: the value's end is checked as the key's is.
InBoundsStrict ==
  /\ LEAt(log, idx) # 0
  /\ ValLenAt < Len(log)
  /\ ValAt < Len(log)
  /\ NextAt < Len(log)

\* The bounds checks, in their order.
InBounds ==
  /\ LEAt(log, idx) # 0
  /\ ValLenAt < Len(log)
  /\ ValAt < Len(log)
  /\ NextAt <= Len(log)

\* The entry of the record at idx: no element if the record is refused, or one.
EntryAtIdx ==
  IF ~InBounds THEN {}
  ELSE IF RawValue = <<TombstoneByte>> THEN {Tombstone}
  ELSE Deserialize(RawValue)

Rejects ==
  /\ pc = "parse"
  /\ idx < Len(log) /\ KeyAt <= Len(log)
  /\ EntryAtIdx = {}
  /\ pc' = "error"
  /\ UNCHANGED <<written, log, idx, mem, size>>

\* Mutant: a byte between two records is skipped.
InsertsAndSkips ==
  /\ pc = "parse"
  /\ idx < Len(log) /\ KeyAt <= Len(log)
  /\ \E entry \in EntryAtIdx : mem' = Insert(mem, Key, entry)
  /\ idx' = NextAt + 1
  /\ UNCHANGED <<written, log, size, pc>>

\* Mutant: the first record of a key stays.
InsertsIfNew ==
  /\ pc = "parse"
  /\ idx < Len(log) /\ KeyAt <= Len(log)
  /\ \E entry \in EntryAtIdx :
       mem' = IF Key \in DOMAIN mem THEN mem ELSE Insert(mem, Key, entry)
  /\ idx' = NextAt
  /\ UNCHANGED <<written, log, size, pc>>

\* The entry overwrites what an earlier record left for the key.
Inserts ==
  /\ pc = "parse"
  /\ idx < Len(log) /\ KeyAt <= Len(log)
  /\ \E entry \in EntryAtIdx : mem' = Insert(mem, Key, entry)
  /\ idx' = NextAt
  /\ UNCHANGED <<written, log, size, pc>>

Ended ==
  /\ pc # "parse"
  /\ UNCHANGED logVars

Next == Finish \/ StopsShort \/ Rejects \/ Inserts \/ Ended

Spec == Init /\ [][Next]_logVars

-----------------------------------------------------------------------------
(* Properties                                                              *)

\* Every variable keeps its type.
TypeOK ==
  /\ log \in Seq(Byte)
  /\ idx \in 0..Len(log)
  /\ \A k \in DOMAIN mem : k \in Seq(Byte) /\ (mem[k] = Tombstone \/ IsEntry(mem[k]))
  /\ size \in Nat
  /\ pc \in {"parse", "done", "error", "panic"}

\* What some operations leave: of every key, the entry written last.
Replay(ops) ==
  [k \in {ops[i].key : i \in DOMAIN ops} |->
     ops[Max({i \in DOMAIN ops : ops[i].key = k})].entry]

\* Wherever an append was cut short, the parser stays in step with the records:
\* what is behind its index is whole records, and the memtable is exactly their
\* replay, entries and metadata bit by bit.
ParserInStep ==
  \E n \in 0..Len(written) :
    /\ idx = Len(EncodeAll(SubSeq(written, 1, n)))
    /\ mem = Replay(SubSeq(written, 1, n))

\* A log whose last append is complete is always taken, with its length for the
\* memtable's size; one that was cut short never is, however the cut falls.
TakesWholeLogsOnly ==
  /\ pc = "done" => log = EncodeAll(written) /\ mem = Replay(written) /\ size = Len(log)
  /\ pc \in {"error", "panic"} => log # EncodeAll(written)

\* Running out of bytes is an error, never a panic.
NeverPanics == pc # "panic"
=============================================================================
