----------------------------- MODULE TableMerge -----------------------------
(***************************************************************************)
(* join_tables (lsm_tree/compaction.rs), one record read or written at a   *)
(* step, and build_from_data_section, which frames the result as a table.  *)
(* Both inputs are read forward once, the left one from a newer table;     *)
(* reading skips what is_tombstone says.  Compaction takes the whole loop  *)
(* as one step with the result JoinedRecords.                              *)
(***************************************************************************)
EXTENDS SSTable

ASSUME SourcesAssumption == {"left", "right"} \subseteq Sources

VARIABLES
  left, right,   \* the input data sections
  lp, rp,        \* the record last read of each; one past the last at the end
  out,           \* the records written to the output
  table          \* the output, framed, or NoTable

mergeVars == <<left, right, lp, rp, out, table>>

NoTable == <<>>

\* A tombstone, as is_tombstone has it: only under a key of one byte.
IsTombstone(r) == KeySize[r.key] = 1 /\ r.dead

\* The data sections that hold some keys' records, from one source.
Sections(source) ==
  {data \in UNION {[1..n -> [key : Keys, dead : BOOLEAN, from : {source}]] :
                     n \in 0..Cardinality(Keys)} :
     Ascending(data)}

Init ==
  /\ left \in Sections("left")
  /\ right \in Sections("right")
  /\ lp = 1
  /\ rp = 1
  /\ out = <<>>
  /\ table = NoTable

HasLeft == lp <= Len(left)
HasRight == rp <= Len(right)

\* left_entry and right_entry are a record each, or None.
LeftRead == HasLeft => ~IsTombstone(left[lp])
RightRead == HasRight => ~IsTombstone(right[rp])

-----------------------------------------------------------------------------
\* Mutant: the record after a tombstone is not looked at.
SkipLeftAndNext ==
  /\ ~LeftRead
  /\ lp' = lp + 2
  /\ UNCHANGED <<left, right, rp, out, table>>

\* read_next_non_tombstone_entry goes on, on the left side first.
SkipLeft ==
  /\ ~LeftRead
  /\ lp' = lp + 1
  /\ UNCHANGED <<left, right, rp, out, table>>

SkipRight ==
  /\ LeftRead /\ ~RightRead
  /\ rp' = rp + 1
  /\ UNCHANGED <<left, right, lp, out, table>>

\* The left side's record goes to the output, and its next one is read.
WriteLeft ==
  /\ LeftRead /\ RightRead
  /\ out' = Append(out, left[lp])
  /\ lp' = lp + 1
  /\ UNCHANGED <<left, right, table>>

WriteRight ==
  /\ LeftRead /\ RightRead
  /\ out' = Append(out, right[rp])
  /\ rp' = rp + 1
  /\ UNCHANGED <<left, right, table>>

TakeLeft ==
  /\ HasLeft /\ HasRight
  /\ left[lp].key < right[rp].key
  /\ WriteLeft
  /\ UNCHANGED rp

TakeRight ==
  /\ HasLeft /\ HasRight
  /\ left[lp].key > right[rp].key
  /\ WriteRight
  /\ UNCHANGED lp

\* Mutant: the older record stays, to be written next.
TakeBothKeepsRight ==
  /\ HasLeft /\ HasRight
  /\ left[lp].key = right[rp].key
  /\ WriteLeft
  /\ UNCHANGED rp

\* Equal keys: the newer record is written, both sides go on.
TakeBoth ==
  /\ HasLeft /\ HasRight
  /\ left[lp].key = right[rp].key
  /\ WriteLeft
  /\ rp' = rp + 1

DrainLeft ==
  /\ HasLeft /\ ~HasRight
  /\ WriteLeft
  /\ UNCHANGED rp

DrainRight ==
  /\ ~HasLeft /\ HasRight
  /\ WriteRight
  /\ UNCHANGED lp

BuildTable ==
  /\ ~HasLeft /\ ~HasRight
  /\ table = NoTable
  /\ table' = FrameTable(out)
  /\ UNCHANGED <<left, right, lp, rp, out>>

Ended ==
  /\ table # NoTable
  /\ UNCHANGED mergeVars

Next ==
  \/ SkipLeft \/ SkipRight
  \/ TakeLeft \/ TakeRight \/ TakeBoth \/ DrainLeft \/ DrainRight
  \/ BuildTable \/ Ended

Spec == Init /\ [][Next]_mergeVars

-----------------------------------------------------------------------------
(* Properties                                                              *)

\* Every variable keeps its type.
TypeOK ==
  /\ left \in Seq(Record) /\ right \in Seq(Record) /\ out \in Seq(Record)
  /\ lp \in 1..(Len(left) + 1) /\ rp \in 1..(Len(right) + 1)

RecordsOf(data) == {data[i] : i \in DOMAIN data}

\* The records of a section that reading does not skip.
Alive(data) == {r \in RecordsOf(data) : ~IsTombstone(r)}

\* What the join of two sections holds: of every key the newer of the records
\* that count.
JoinedRecords ==
  Alive(left) \cup {r \in Alive(right) : \A s \in Alive(left) : s.key # r.key}

\* A key is behind the merge when neither side has it, or a smaller one, to come.
Behind(k) == (HasLeft => k < left[lp].key) /\ (HasRight => k < right[rp].key)

\* At every step the output is sorted and holds, of the keys the two inputs have
\* behind them, exactly what the join should: nothing twice, nothing lost, no
\* older record where there is a newer one; in the end, all of the join.
MergedSoFar ==
  /\ Ascending(out)
  /\ RecordsOf(out) = {r \in JoinedRecords : Behind(r.key)}

\* When all is done: the inputs as a flush writes them (never an empty one), and
\* the output.
AllTables == {FlushTable(data) : data \in {left, right} \ {<<>>}} \cup {table}

\* The reader finds in every table, flushed or framed, exactly the table's
\* records, though writers and reader share no code; but a table whose largest
\* key makes the footer too long is as good as empty.
TablesAnswer ==
  table # NoTable => \A t \in AllTables :
    IF FooterFits(t.footer) THEN AnswersAsData(t)
    ELSE \A key \in Keys : Lookup(t, key) = Missing

\* A compaction reads back from a whole table exactly its records.  Of a file
\* that ends early, as a flush cut short leaves it, it reads the first records or
\* fails: it may take a part for the whole, but never anything else.
TablesReadBack ==
  table # NoTable => \A t \in AllTables :
    /\ ReadSection(t, FileLen(t)) = [answer |-> "records", records |-> t.data]
    /\ \A len \in DataOffset(t)..FileLen(t) :
         LET read == ReadSection(t, len)
         IN  read # Broken => IsPrefix(read.records, t.data)
=============================================================================
