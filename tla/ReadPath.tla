------------------------------ MODULE ReadPath ------------------------------
(***************************************************************************)
(* What a Get returns: the memtable (memtable/mem.rs), the reader of the   *)
(* tables on disk (lsm_tree/disk.rs) and the handler that asks the one and *)
(* then the other (service.rs), composed with the flushes and the          *)
(* coordinator of Compaction.  Three things are out of step by design:     *)
(*                                                                         *)
(*  - the reader answers from a snapshot, the tables it opened at its last *)
(*    reload; only the end of a compaction makes it reload, in a task of   *)
(*    its own, while the coordinator goes on (main.rs);                    *)
(*  - a Get looks into the memtable under the memtable's lock and into the *)
(*    snapshot later, without it;                                          *)
(*  - a flush empties the memtable and tells the reader nothing.           *)
(*                                                                         *)
(* An open file outlives its name, so that the snapshot keeps what it has  *)
(* opened whatever the coordinator renames, rewrites or deletes.  A writer *)
(* holds the memtable's lock through the flush it starts: while a table is *)
(* being written nothing else reaches the memtable.  Neither failures nor  *)
(* crashes are part of this composition.                                   *)
(***************************************************************************)
EXTENDS Compaction

CONSTANTS
  FilesPerSecond,  \* how many files are created within a second, at most
  DeletesIn,       \* bound: before which flushes, by their number, keys may be deleted
  MaxReloads       \* bound: reload tasks spawned and not yet over

ASSUME ReadPathAssumption ==
  Keys # {} /\ FilesPerSecond \in Nat \ {0} /\ MaxReloads \in Nat \ {0}

VARIABLES
  mem,        \* in_memory_repr: [Keys -> Entry \cup {Absent}]
  snapshot,   \* level_array: what the reader opened, see Snapshot
  reloading,  \* the reload that holds the reader's lock, see Reloading
  waiting,    \* how many reload tasks wait for that lock
  get         \* the Get between its two halves, see Gets

readVars == <<mem, snapshot, reloading, waiting, get>>
storeVars == <<vars, readVars>>

NumLevels == 1..(Levels + 1)

\* A table as the reader has opened it.
Table == [data : Content, created : Nat]

\* asOf, calm: history.  asOf is what the completed flushes held when the load
\* began; calm says that no level was listed while tables of it were on their way
\* to the next one, and that no table under construction was opened.
Snapshot == [levels : [NumLevels -> SUBSET Table], asOf : Content, calm : BOOLEAN]

\* next: the level to list, or whose listed files are to be opened.
Reloading == [phase : {"none", "list", "open"}, next : NumLevels, listed : SUBSET DOMAIN files,
              load : Snapshot]

\* phase "disk": the memtable did not have the key, the reader is yet to be
\* asked.  current, fresh: history.  current is every value the key had since the
\* Get began; fresh, whether the reader was up to date at that moment.
Gets == [phase : {"none", "disk"}, key : Keys, current : SUBSET (Entry \cup {Absent}),
         fresh : BOOLEAN]

NoTables == [levels |-> [l \in NumLevels |-> {}], asOf |-> NoContent, calm |-> TRUE]
NoGet == [phase |-> "none", key |-> CHOOSE k \in Keys : TRUE, current |-> {}, fresh |-> FALSE]
NoReload == [phase |-> "none", next |-> 1, listed |-> {}, load |-> NoTables]

StoreInit ==
  /\ Init
  /\ mem = NoContent
  /\ snapshot = NoTables
  /\ reloading = NoReload
  /\ waiting = 0
  /\ get = NoGet

\* What a client sees of an entry: a tombstone is no value, like no entry.
Value(e) == IF Dead(e) THEN Absent ELSE e

-----------------------------------------------------------------------------
(* Writes and flushes                                                      *)

\* put and delete, under the memtable's lock.
Write(k, dead) ==
  /\ writing = NoContent
  /\ flushed < MaxFlushes
  /\ dead => flushed + 1 \in DeletesIn
  /\ mem' = [mem EXCEPT ![k] = [by |-> flushed + 1, dead |-> dead]]
  /\ get' = IF get.phase = "disk" /\ get.key = k
            THEN [get EXCEPT !.current = @ \cup {Value(mem'[k])}]
            ELSE get
  /\ UNCHANGED <<vars, snapshot, reloading, waiting>>

\* A writer finds that it is time to flush, and keeps the lock.
FlushStarts ==
  /\ mem # NoContent
  /\ FlushBegin
  /\ writing' = mem
  /\ UNCHANGED readVars

\* The table is written; the memtable starts empty.
FlushDone ==
  /\ FlushEnd
  /\ mem' = NoContent
  /\ UNCHANGED <<snapshot, reloading, waiting, get>>

-----------------------------------------------------------------------------
(* The reader's snapshot                                                   *)

\* Creation times count in seconds.
Second(t) == t.created \div FilesPerSecond

\* What read may answer from some levels: the first level with a hit decides,
\* and there the newest table, or any of those of the newest second.
Answers(levels, k) ==
  LET hits(l) == {t \in levels[l] : t.data[k] # Absent}
      hitting == {l \in NumLevels : hits(l) # {}}
      first == hits(CHOOSE l \in hitting : \A m \in hitting : l <= m)
  IN  IF hitting = {} THEN {Absent}
      ELSE {t.data[k] : t \in {t \in first : \A u \in first : Second(u) <= Second(t)}}

\* The level that is being compacted lacks the tables that are on their way to
\* the next one: drained, joined or framed, and not yet promoted.
InTransit(l) == l = level /\ (unit.consumed # <<>> \/ outputs # <<>>)

\* Mutant: a compaction that found nothing to do spawns no reload.
SpawnReloadIfCompacted ==
  /\ Finish
  /\ waiting + (IF reloading.phase = "none" THEN 0 ELSE 1) < MaxReloads
  /\ waiting' = waiting + IF unit.id = 0 THEN 0 ELSE 1
  /\ UNCHANGED <<mem, snapshot, reloading, get>>

\* The closure given to the coordinator spawns a task when a compaction ends.
SpawnReload ==
  /\ Finish
  /\ waiting + (IF reloading.phase = "none" THEN 0 ELSE 1) < MaxReloads
  /\ waiting' = waiting + 1
  /\ UNCHANGED <<mem, snapshot, reloading, get>>

\* Mutant: a task comes back for the lock that it had already.
ReloadBeginsAgain ==
  /\ reloading.phase = "none"
  /\ waiting' = waiting - 1
  /\ reloading' = [NoReload EXCEPT !.phase = "list", !.load.asOf = store]
  /\ UNCHANGED <<vars, mem, snapshot, get>>

\* The task gets the write lock on the reader.
ReloadBegins ==
  /\ reloading.phase = "none"
  /\ waiting > 0
  /\ waiting' = waiting - 1
  /\ reloading' = [NoReload EXCEPT !.phase = "list", !.load.asOf = store]
  /\ UNCHANGED <<vars, mem, snapshot, get>>

\* create_level_array reads one directory after the other.
ReloadLists ==
  /\ reloading.phase = "list"
  /\ reloading' = [reloading EXCEPT !.phase = "open", !.listed = Tables(reloading.next),
                                    !.load.calm = @ /\ ~InTransit(reloading.next)]
  /\ UNCHANGED <<vars, mem, snapshot, waiting, get>>

\* What opening a listed file may get: a table that is being written counts with
\* the entries its unfinished end lets pass, or fails the reload.
Opened(p) ==
  IF files[p].form = "growing"
  THEN {[data |-> Part(files[p].data, ks), created |-> files[p].created] : ks \in SUBSET Keys}
  ELSE {[data |-> files[p].data, created |-> files[p].created]}

\* The map of a level's tables has as key a table's second, index and largest key;
\* of tables that agree in these only one is in the map.
MetaData(t) == <<Second(t), {k \in Keys : t.data[k] # Absent}>>
FileMaps(opened) ==
  LET same == {{u \in opened : MetaData(u) = MetaData(t)} : t \in opened}
  IN  IF Cardinality(same) = Cardinality(opened)
      THEN {opened}
      ELSE {map \in SUBSET opened : \A tables \in same : Cardinality(map \cap tables) = 1}

\* Mutant: files that are gone by now are passed over.
ReloadOpensTheRest ==
  /\ reloading.phase = "open"
  /\ LET left == reloading.listed \cap DOMAIN files
         load == [reloading.load EXCEPT
                    !.levels[reloading.next] = UNION {Opened(p) : p \in left},
                    !.calm = @ /\ \A p \in left : files[p].form # "growing"]
     IN  IF reloading.next = Levels + 1
         THEN snapshot' = load /\ reloading' = NoReload
         ELSE /\ reloading' = [NoReload EXCEPT !.phase = "list", !.load = load,
                                               !.next = reloading.next + 1]
              /\ UNCHANGED snapshot
  /\ UNCHANGED <<vars, mem, waiting, get>>

\* The listed files are opened and their indexes read.  The new level array
\* replaces the old one at the end.
ReloadOpens ==
  /\ reloading.phase = "open"
  /\ reloading.listed \subseteq DOMAIN files
  /\ \E got \in [reloading.listed -> UNION {Opened(p) : p \in reloading.listed}] :
       /\ \A p \in reloading.listed : got[p] \in Opened(p)
       /\ \E map \in FileMaps({got[p] : p \in reloading.listed}) :
          LET load == [reloading.load EXCEPT
                         !.levels[reloading.next] = map,
                         !.calm = @ /\ \A p \in reloading.listed : files[p].form # "growing"]
          IN  IF reloading.next = Levels + 1
              THEN snapshot' = load /\ reloading' = NoReload
              ELSE /\ reloading' = [NoReload EXCEPT !.phase = "list", !.load = load,
                                                    !.next = reloading.next + 1]
                   /\ UNCHANGED snapshot
  /\ UNCHANGED <<vars, mem, waiting, get>>

\* Mutant: the levels loaded so far stay in place.
ReloadFailsHalfway ==
  /\ reloading.phase = "open"
  /\ \E p \in reloading.listed : p \in DOMAIN files => files[p].form = "growing"
  /\ snapshot' = reloading.load
  /\ reloading' = NoReload
  /\ UNCHANGED <<vars, mem, waiting, get>>

\* A listed file is gone, or too short yet to be read: the old array stays.
ReloadFails ==
  /\ reloading.phase = "open"
  /\ \E p \in reloading.listed : p \in DOMAIN files => files[p].form = "growing"
  /\ reloading' = NoReload
  /\ UNCHANGED <<vars, mem, snapshot, waiting, get>>

-----------------------------------------------------------------------------
(* Get                                                                     *)

\* The reader answers as of now: it was loaded in calm, and no flush ended since
\* that load began.
UpToDate == snapshot.calm /\ snapshot.asOf = store

\* The first half, under the memtable's lock.  An entry there, a tombstone too,
\* answers at once and changes nothing; otherwise it is for the reader to say.
GetMissesMemory(k) ==
  /\ get.phase = "none"
  /\ writing = NoContent
  /\ mem[k] = Absent
  /\ get' = [phase |-> "disk", key |-> k, current |-> {Value(store[k])}, fresh |-> UpToDate]
  /\ UNCHANGED <<vars, mem, snapshot, reloading, waiting>>

\* What the second half may answer, once no reload holds the reader's lock.
AskingDisk == get.phase = "disk" /\ reloading.phase = "none"
GetAnswers == {Value(e) : e \in Answers(snapshot.levels, get.key)}

\* One of GetAnswers goes to the client.
GetFromDisk ==
  /\ AskingDisk
  /\ get' = NoGet
  /\ UNCHANGED <<vars, mem, snapshot, reloading, waiting>>

-----------------------------------------------------------------------------
Coordinates ==
  \/ /\ VisitSkip \/ VisitCompact \/ BeginUnit \/ Join \/ JoinFails \/ Drain \/ Frame
        \/ Sweep \/ Promote
     /\ UNCHANGED readVars
  \/ SpawnReload

Reloads == ReloadBegins \/ ReloadLists \/ ReloadOpens \/ ReloadFails

StoreNext ==
  \/ \E k \in Keys, dead \in BOOLEAN : Write(k, dead)
  \/ FlushStarts \/ FlushDone
  \/ TimerExpires /\ UNCHANGED readVars
  \/ Coordinates
  \/ Reloads
  \/ \E k \in Keys : GetMissesMemory(k)
  \/ GetFromDisk

StoreSpec == StoreInit /\ [][StoreNext]_storeVars

\* The runtime runs the background task, the reload tasks and the flush.
FairStoreSpec ==
  /\ StoreSpec
  /\ WF_storeVars(Coordinates)
  /\ WF_storeVars(Reloads)
  /\ WF_storeVars(FlushDone)
  /\ WF_storeVars(TimerExpires /\ UNCHANGED readVars)

-----------------------------------------------------------------------------
(* Properties                                                              *)

\* Every variable keeps its type.
StoreTypeOK ==
  /\ mem \in Content
  /\ snapshot \in Snapshot
  /\ reloading.load \in Snapshot /\ reloading.phase \in {"none", "list", "open"}
  /\ waiting \in 0..MaxReloads
  /\ get \in Gets

\* The flush an entry came with, 0 for none: the greater, the newer.
Age(e) == IF e = Absent THEN 0 ELSE e.by

\* The reader answers with an entry at least as new as this one.
AnswersAsNew(k, e) == \A a \in Answers(snapshot.levels, k) : Age(a) >= Age(e)

\* A reload never costs the reader an entry, though the coordinator renames,
\* joins and deletes tables between any two of its steps, for as long as no
\* level was listed with tables in transit: what was flushed before it began is
\* found after it, or something newer.
ReloadLosesNothing == snapshot.calm => \A k \in Keys : AnswersAsNew(k, snapshot.asOf[k])

\* A Get that began with an up-to-date reader answers with a value the key had
\* at some moment of the Get, though a flush moves the entry, a compaction
\* merges it and a reload replaces the snapshot between its two halves.
GetIsAtomic == AskingDisk /\ get.fresh /\ snapshot.calm => GetAnswers \subseteq get.current

\* Whatever is flushed becomes readable from disk: time and again the reader
\* is as new as the tables, since even a compaction with nothing to do ends
\* with a reload.
FlushedBecomesReadable ==
  []<>((\A k \in Keys : AnswersAsNew(k, store[k])) \/ rounds = MaxCompactions)

\* A Get answers with a value the key had at some moment of the Get.
ReadsNewest == AskingDisk => GetAnswers \subseteq get.current
=============================================================================
