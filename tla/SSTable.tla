------------------------------ MODULE SSTable -------------------------------
(***************************************************************************)
(* The table format, as three pieces of code that never call each other    *)
(* have it: a flush writes a table out of the memtable (memtable/mem.rs),  *)
(* a compaction frames a joined data section as one (compaction.rs), and   *)
(* the reader searches either (disk.rs).  The records are sorted by key; a *)
(* sparse index says at which byte some of them start; a Bloom filter and  *)
(* the largest key, in the footer at the end of the file, spare the reader *)
(* tables that cannot have a key.                                          *)
(*                                                                         *)
(* A key is a number, in the order of the byte strings; 0 is the empty     *)
(* one.  Of a value only its size is left, and where it came from.         *)
(***************************************************************************)
EXTENDS Integers, Sequences, FiniteSets, FiniteSetsExt, SequencesExt, Functions

CONSTANTS
  Keys,
  KeySize,       \* [Keys -> Nat \ {0}], the length of a key in bytes
  ValueSize,     \* the length of a serialized value
  Sources,       \* tells records of different tables apart
  BlockSize,     \* target_block_size of a flush, in bytes
  BlockStride,   \* block_stride of a framed table, in bytes
  FooterLimit,   \* the largest footer the reader takes for one (10000)
  Hash,          \* [Keys -> Nat \X Nat], hash_key under the seeds 0 and 1
  HashRange,     \* hashes wrap around at this number (2^64)
  BloomBits      \* BLOOM_M_BITS

EmptyKey == 0

ASSUME KeyAssumption == Keys \subseteq Nat \ {EmptyKey} /\ IsFiniteSet(Keys)
ASSUME SizeAssumption == KeySize \in [Keys -> Nat \ {0}] /\ ValueSize \in Nat \ {0}
ASSUME BlockAssumption == BlockSize \in Nat \ {0} /\ BlockStride \in Nat \ {0}
ASSUME FooterAssumption == FooterLimit \in Nat
ASSUME BloomAssumption ==
  Hash \in [Keys -> Nat \X Nat] /\ HashRange \in Nat \ {0} /\ BloomBits \in Nat \ {0}

Record == [key : Keys, dead : BOOLEAN, from : Sources]

LenSize == 4

\* key-len | key | value-len | value, where a tombstone's value is one byte.
Bytes(r) == LenSize + KeySize[r.key] + LenSize + (IF r.dead THEN 1 ELSE ValueSize)

KeysOf(data) == {data[i].key : i \in DOMAIN data}

\* Reading fails.
Broken == [answer |-> "error"]

Ascending(data) == \A i, j \in DOMAIN data : i < j => data[i].key < data[j].key

-----------------------------------------------------------------------------
(* The sparse index                                                        *)

\* Where each record starts, in bytes; the one after the last is the footer.
Offsets(data) ==
  LET offset[i \in 1..(Len(data) + 1)] ==
        IF i = 1 THEN 0 ELSE offset[i - 1] + Bytes(data[i - 1])
  IN  offset

\* The index, the marks by the place of their records, when a record is marked if
\* Starts(bytes since the last mark, bytes of the record).
IndexBy(data, Starts(_, _)) ==
  LET since[i \in 0..Len(data)] ==
        IF i = 0 THEN 0
        ELSE IF Starts(since[i - 1], Bytes(data[i])) THEN Bytes(data[i])
        ELSE since[i - 1] + Bytes(data[i])
      marked == {i \in DOMAIN data : Starts(since[i - 1], Bytes(data[i]))}
  IN  [i \in marked |-> [offset |-> Offsets(data)[i], key |-> data[i].key]]

\* Mutant: a block starts with the record after the one that overflows.
FlushIndexLate(data) ==
  LET index == IndexBy(data, LAMBDA since, size : since = 0 \/ since + size > BlockSize)
  IN  [i \in DOMAIN index |-> [index[i] EXCEPT !.offset = Offsets(data)[i + 1]]]

\* A flush starts a block at the first record and where the next would overflow.
FlushIndex(data) ==
  IndexBy(data, LAMBDA since, size : since = 0 \/ since + size > BlockSize)

\* A framed table has a mark at the first record and once a stride is passed.
FrameIndex(data) ==
  IndexBy(data, LAMBDA since, size : since = 0 \/ since >= BlockStride)

-----------------------------------------------------------------------------
(* The Bloom filter                                                        *)

\* At the false positive rate 0.01; other rates scale it.  ln 2 = 693/1000.
OptimalK(n) ==
  LET ideal == (BloomBits * 693 + 500 * n) \div (1000 * n)
  IN  IF ideal < 2 THEN 2 ELSE IF ideal > 16 THEN 16 ELSE ideal

\* h2 is made odd; the sum wraps around before the remainder is taken.
Probes(k, key) ==
  LET h1 == Hash[key][1]
      h2 == IF Hash[key][2] % 2 = 1 THEN Hash[key][2] ELSE Hash[key][2] + 1
  IN  {((h1 + i * h2) % HashRange) % BloomBits : i \in 0..(k - 1)}

Filter(keys) ==
  LET k == OptimalK(IF keys = {} THEN 1 ELSE Cardinality(keys))
  IN  [k |-> k, bits |-> UNION {Probes(k, key) : key \in keys}]

\* A number of probes out of bounds is taken for no filter at all.
ProbablyExist(filter, key) ==
  filter.k \in 2..30 => Probes(filter.k, key) \subseteq filter.bits

-----------------------------------------------------------------------------
(* Tables                                                                  *)

Footer(data) == IF data = <<>> THEN EmptyKey ELSE Last(data).key

Table(data, index) ==
  [filter |-> Filter(KeysOf(data)), index |-> index, data |-> data, footer |-> Footer(data)]

FlushTable(data) == Table(data, FlushIndex(data))
FrameTable(data) == Table(data, FrameIndex(data))

\* A footer is a length and the largest key; over the limit it counts as none.
FooterFits(footer) == footer = EmptyKey \/ LenSize + KeySize[footer] <= FooterLimit

FirstKey(table) ==
  IF DOMAIN table.index = {} THEN EmptyKey ELSE table.index[Min(DOMAIN table.index)].key
MaxKey(table) == IF FooterFits(table.footer) THEN table.footer ELSE EmptyKey

-----------------------------------------------------------------------------
(* The file, as the compaction reads it                                    *)

\* CRC, footer size, Bloom filter and the sparse index's length.
HeaderSize == 64 + 8 + 1000 + 4
FooterSize(table) == LenSize + (IF table.footer = EmptyKey THEN 0 ELSE KeySize[table.footer])
DataOffset(table) ==
  HeaderSize + FoldFunction(LAMBDA m, sum : LenSize + KeySize[m.key] + 8 + sum, 0, table.index)
DataLen(table) == Offsets(table.data)[Len(table.data) + 1]
FileLen(table) == DataOffset(table) + DataLen(table) + FooterSize(table)

\* Mutant: the footer is left in.
SectionLenWithFooter(table, len) == len - DataOffset(table)

\* The length of the data section in a file that is len bytes long: all but the
\* header, the index and as many bytes as the footer has.
SectionLen(table, len) == len - DataOffset(table) - FooterSize(table)

\* The records a compaction reads from the first len bytes of a table's file:
\* those that start within the section, or an error where one does not end
\* within the file, or the footer is read as one.
ReadSection(table, len) ==
  LET starts == Offsets(table.data)
      begun == {i \in DOMAIN starts : starts[i] < SectionLen(table, len)}
      records == SubSeq(table.data, 1, Cardinality(begun))
  IN  IF \/ len < DataOffset(table) + FooterSize(table)
         \/ Cardinality(begun) > Len(table.data)
         \/ DataOffset(table) + starts[Cardinality(begun) + 1] > len
      THEN Broken
      ELSE [answer |-> "records", records |-> records]

-----------------------------------------------------------------------------
(* The reader                                                              *)

Missing == [answer |-> "missing"]
Found(r) == [answer |-> "found", record |-> r]

\* The records from one on, up to the key's or a greater one; after the last the
\* footer is taken for a record, which ends within its value's length.
ScanFrom(table, start, key) ==
  LET reached == {i \in start..Len(table.data) : table.data[i].key >= key}
  IN  IF reached = {} THEN Broken
      ELSE IF table.data[Min(reached)].key = key THEN Found(table.data[Min(reached)])
      ELSE Missing

\* search: the scan starts where the last mark not above the key says.
Search(table, key) ==
  LET marks == {n \in DOMAIN table.index : table.index[n].key <= key}
      start == CHOOSE i \in 1..(Len(table.data) + 1) :
                 Offsets(table.data)[i] = table.index[Max(marks)].offset
  IN  IF marks = {} THEN Missing ELSE ScanFrom(table, start, key)

\* What read does with one table: its range, then its filter, then the search.
Lookup(table, key) ==
  IF /\ FirstKey(table) <= key
     /\ key <= MaxKey(table)
     /\ ProbablyExist(table.filter, key)
  THEN Search(table, key)
  ELSE Missing

\* A table answers every key as its records do: with the record if there is one,
\* and never by running into the footer.
AnswersAsData(table) ==
  \A key \in Keys :
    Lookup(table, key) =
      IF key \in KeysOf(table.data)
      THEN Found(table.data[CHOOSE i \in DOMAIN table.data : table.data[i].key = key])
      ELSE Missing
=============================================================================
