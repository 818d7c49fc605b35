------------------------------ MODULE KVStore ------------------------------
(***************************************************************************)
(* What swift-merge promises a client that writes to it, with no memtable, *)
(* log, table or buffer in sight: one dictionary, db, and beside it what   *)
(* the disk would give back if the process ended now, safe.  A write made  *)
(* while logging is on is safe at once.  Without the log it is at risk     *)
(* until the next flush, which makes every write before it safe; buffered  *)
(* says which keys were written since.  A crash takes the store down with  *)
(* the safe values and, of the unsafe writes, an arbitrary part; coming    *)
(* back up changes nothing.                                                *)
(*                                                                         *)
(* Memtable implements this specification: see ImplementsKVStore there.    *)
(***************************************************************************)
CONSTANTS
  Keys,        \* the keys clients use
  Entries,     \* what a write stores: a value, or the tombstone of a delete
  Absent       \* the key was never written

VARIABLES
  db,          \* [Keys -> Entries \cup {Absent}], what the store holds
  safe,        \* [Keys -> Entries \cup {Absent}], what a crash cannot take
  buffered,    \* SUBSET Keys, the keys written since the last flush
  logging,     \* BOOLEAN, whether a write is logged before it is applied
  up           \* BOOLEAN, whether the process runs

vars == <<db, safe, buffered, logging, up>>

TypeOK ==
  /\ db \in [Keys -> Entries \cup {Absent}]
  /\ safe \in [Keys -> Entries \cup {Absent}]
  /\ buffered \in SUBSET Keys
  /\ logging \in BOOLEAN
  /\ up \in BOOLEAN

Init ==
  /\ db = [k \in Keys |-> Absent]
  /\ safe = db
  /\ buffered = {}
  /\ logging \in BOOLEAN
  /\ up = TRUE

-----------------------------------------------------------------------------
\* The safe values once the current values of the keys of S are safe as well.
Saving(S) == [k \in Keys |-> IF k \in S THEN db[k] ELSE safe[k]]

Write(k, e) ==
  /\ up
  /\ db' = [db EXCEPT ![k] = e]
  /\ safe' = IF logging THEN [safe EXCEPT ![k] = e] ELSE safe
  /\ buffered' = buffered \cup {k}
  /\ UNCHANGED <<logging, up>>

Persist(S) ==
  /\ up
  /\ safe' = Saving(S)
  /\ UNCHANGED <<db, buffered, logging, up>>

Flush ==
  /\ up
  /\ safe' = db
  /\ buffered' = {}
  /\ UNCHANGED <<db, logging, up>>

SetLogging(b) ==
  /\ up
  /\ logging' = b
  /\ UNCHANGED <<db, safe, buffered, up>>

Crash(S) ==
  /\ up
  /\ safe' = Saving(S)
  /\ db' = safe'
  /\ buffered' = {}
  /\ up' = FALSE
  /\ UNCHANGED logging

\* Writes that were logged come back to the buffer.
Recover(b, S) ==
  /\ ~up
  /\ up' = TRUE
  /\ logging' = b
  /\ buffered' = S
  /\ UNCHANGED <<db, safe>>

Next ==
  \/ \E k \in Keys, e \in Entries : Write(k, e)
  \/ \E S \in SUBSET Keys : Persist(S) \/ Crash(S)
  \/ Flush
  \/ \E b \in BOOLEAN : SetLogging(b) \/ \E S \in SUBSET Keys : Recover(b, S)

Spec == Init /\ [][Next]_vars
=============================================================================
