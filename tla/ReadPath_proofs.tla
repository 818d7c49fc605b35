--------------------------- MODULE ReadPath_proofs ---------------------------
(***************************************************************************)
(* What holds of a Get, for every set of keys, every number of levels and  *)
(* reloads and every bound: types; that the composition of memtable,       *)
(* coordinator and reader runs the coordinator as Compaction has it; and   *)
(* that a Get which began with an up-to-date reader answers with a value   *)
(* the key had meanwhile, whatever is written, flushed, compacted and      *)
(* reloaded between its two halves.  Then that a reload loses nothing,     *)
(* where no two files are created within a second and every compaction     *)
(* takes its level in one unit: though files come, go and move between any *)
(* two steps of the task, what was flushed before it began is among the    *)
(* tables opened so far or still ahead of it.                              *)
(***************************************************************************)
EXTENDS ReadPath, CompactionView_proofs

-----------------------------------------------------------------------------
(* The composition, seen as the coordinator                                *)

LEMMA StoreStep == [StoreNext]_storeVars => [Next]_vars
BY DEF storeVars, vars, readVars, StoreNext, Write, FlushStarts, FlushDone, Coordinates,
       SpawnReload, Reloads, ReloadBegins, ReloadLists, ReloadOpens, ReloadFails,
       GetMissesMemory, GetFromDisk, Next, Coordinator

\* Memtable, reader and reload tasks add nothing to what the coordinator and the
\* directory do: every run of the composition is a run of Compaction, so that all
\* that is proved of Compaction holds here.
THEOREM StoreIsCompaction == StoreSpec => Spec
<1>1. StoreInit => Init
  BY DEF StoreInit
<1> QED
  BY <1>1, StoreStep, PTL DEF StoreSpec, Spec

LEMMA StoreTyped == StoreSpec => []TypeInv
BY StoreIsCompaction, AlwaysTyped, PTL

-----------------------------------------------------------------------------
(* Types                                                                   *)

Loads == [phase : {"none", "list", "open"}, next : NumLevels, listed : SUBSET Paths,
          load : Snapshot]

\* A task that has the reader's lock waits for it no longer.
Tasks == waiting + IF reloading.phase = "none" THEN 0 ELSE 1

StoreInv ==
  /\ mem \in Content
  /\ snapshot \in Snapshot
  /\ reloading \in Loads
  /\ waiting \in Nat /\ Tasks <= MaxReloads
  /\ get \in Gets

LEMMA NoTablesType == NoTables \in Snapshot
BY NoContentType DEF NoTables, Snapshot

LEMMA NoReloadType == NoReload \in Loads
<1>1. 1 \in NumLevels
  BY LevelsAssumption DEF NumLevels
<1> QED
  BY <1>1, NoTablesType DEF NoReload, Loads

LEMMA NoGetType == NoGet \in Gets
BY ReadPathAssumption DEF NoGet, Gets

LEMMA ValueType ==
  ASSUME NEW e \in Entry \cup {Absent}
  PROVE  Value(e) \in Entry \cup {Absent}
BY DEF Value

LEMMA StoreInitTypes == StoreInit => StoreInv
BY NoContentType, NoTablesType, NoReloadType, NoGetType, ReadPathAssumption
   DEF StoreInit, StoreInv, Tasks, NoReload

LEMMA WriteTypes ==
  ASSUME TypeInv, StoreInv, NEW k \in Keys, NEW dead \in BOOLEAN, Write(k, dead)
  PROVE  StoreInv'
<1>1. flushed + 1 \in 1..MaxFlushes
  BY BoundsAssumption DEF TypeInv, Types, Write
<1>2. [by |-> flushed + 1, dead |-> dead] \in Entry
  BY <1>1 DEF Entry
<1>3. mem' \in Content /\ mem'[k] \in Entry \cup {Absent}
  BY <1>2 DEF Write, StoreInv, Content
<1>4. get' \in Gets
  <2>1. CASE get.phase = "disk" /\ get.key = k
    <3>1. get' = [get EXCEPT !.current = @ \cup {Value(mem'[k])}]
      BY <2>1 DEF Write
    <3>2. Value(mem'[k]) \in Entry \cup {Absent}
      BY <1>3, ValueType
    <3> QED
      BY <3>1, <3>2 DEF Gets, StoreInv
  <2>2. CASE ~(get.phase = "disk" /\ get.key = k)
    BY <2>2 DEF Write, StoreInv
  <2> QED
    BY <2>1, <2>2
<1> QED
  BY <1>3, <1>4 DEF Write, StoreInv, Tasks

LEMMA OpenedTable ==
  ASSUME TypeInv, NEW p \in DOMAIN files, NEW t \in Opened(p)
  PROVE  /\ t \in Table
         /\ \A k \in Keys : t.data[k] = Absent \/ t.data[k] = files[p].data[k]
<1>1. files[p] \in FileRecords(clock) /\ clock \in Nat
  BY DEF TypeInv, Types, Directory
<1>2. files[p].data \in Content /\ files[p].created \in Nat
  BY <1>1 DEF FileRecords
<1>3. ASSUME NEW ks \in SUBSET Keys
      PROVE  /\ Part(files[p].data, ks) \in Content
             /\ \A k \in Keys : \/ Part(files[p].data, ks)[k] = Absent
                                \/ Part(files[p].data, ks)[k] = files[p].data[k]
  BY <1>2 DEF Part, Content
<1> QED
  BY <1>2, <1>3 DEF Opened, Table

LEMMA FileMapsType ==
  ASSUME NEW opened, NEW map \in FileMaps(opened)
  PROVE  map \subseteq opened
BY DEF FileMaps

\* The load with a level's tables in it.
Filled(tables, calm) ==
  [reloading.load EXCEPT !.levels = [@ EXCEPT ![reloading.next] = tables], !.calm = calm]

LEMMA OpensStep ==
  ASSUME TypeInv, StoreInv, ReloadOpens
  PROVE  \E tables \in SUBSET Table, calm \in BOOLEAN :
           /\ \A t \in tables : \E p \in reloading.listed : p \in DOMAIN files /\ t \in Opened(p)
           /\ \E got : /\ \A p \in reloading.listed : got[p] \in Opened(p)
                      /\ tables \in FileMaps({got[p] : p \in reloading.listed})
           /\ calm <=> reloading.load.calm /\ \A p \in reloading.listed : files[p].form # "growing"
           /\ \/ /\ reloading.next = Levels + 1
                 /\ snapshot' = Filled(tables, calm)
                 /\ reloading' = NoReload
              \/ /\ reloading.next # Levels + 1
                 /\ snapshot' = snapshot
                 /\ reloading' = [NoReload EXCEPT !.phase = "list", !.load = Filled(tables, calm),
                                                  !.next = reloading.next + 1]
<1>1. PICK got \in [reloading.listed -> UNION {Opened(p) : p \in reloading.listed}] :
        /\ \A p \in reloading.listed : got[p] \in Opened(p)
        /\ \E map \in FileMaps({got[p] : p \in reloading.listed}) :
             LET load == [reloading.load EXCEPT
                            !.levels[reloading.next] = map,
                            !.calm = @ /\ \A p \in reloading.listed : files[p].form # "growing"]
             IN  IF reloading.next = Levels + 1
                 THEN snapshot' = load /\ reloading' = NoReload
                 ELSE /\ reloading' = [NoReload EXCEPT !.phase = "list", !.load = load,
                                                       !.next = reloading.next + 1]
                      /\ UNCHANGED snapshot
  BY DEF ReloadOpens
<1>2. reloading.listed \subseteq DOMAIN files
  BY DEF ReloadOpens
<1> DEFINE opened == {got[p] : p \in reloading.listed}
           c == reloading.load.calm /\ \A p \in reloading.listed : files[p].form # "growing"
<1>3. PICK map \in FileMaps(opened) :
        LET load == [reloading.load EXCEPT !.levels[reloading.next] = map, !.calm = c]
        IN  IF reloading.next = Levels + 1
            THEN snapshot' = load /\ reloading' = NoReload
            ELSE /\ reloading' = [NoReload EXCEPT !.phase = "list", !.load = load,
                                                  !.next = reloading.next + 1]
                 /\ UNCHANGED snapshot
  BY <1>1
<1>4. map \subseteq opened
  BY FileMapsType
<1>5. \A t \in map : \E p \in reloading.listed : p \in DOMAIN files /\ t \in Opened(p)
  BY <1>1, <1>2, <1>4
<1>6. map \in SUBSET Table
  BY <1>5, OpenedTable
<1>7. c \in BOOLEAN
  OBVIOUS
<1>8. [reloading.load EXCEPT !.levels[reloading.next] = map, !.calm = c] = Filled(map, c)
  BY DEF Filled
<1>9. \E g : /\ \A p \in reloading.listed : g[p] \in Opened(p)
             /\ map \in FileMaps({g[p] : p \in reloading.listed})
  <2>1. /\ \A p \in reloading.listed : got[p] \in Opened(p)
        /\ map \in FileMaps({got[p] : p \in reloading.listed})
    BY <1>1, <1>3
  <2> WITNESS got
  <2> QED
    BY <2>1
<1> HIDE DEF opened
<1> QED
  BY <1>3, <1>5, <1>6, <1>7, <1>8, <1>9

LEMMA FilledType ==
  ASSUME StoreInv, NEW tables \in SUBSET Table, NEW calm \in BOOLEAN
  PROVE  Filled(tables, calm) \in Snapshot
BY DEF Filled, StoreInv, Loads, Snapshot

LEMMA ReloadingTypes ==
  ASSUME TypeInv, StoreInv, Reloads
  PROVE  StoreInv'
<1>1. store \in Content /\ DOMAIN files \subseteq Paths
  BY DEF TypeInv, Types, Directory
<1>2. reloading \in Loads /\ NoReload \in Loads /\ snapshot \in Snapshot
  BY NoReloadType DEF StoreInv
<1>3. CASE ReloadBegins
  <2>1. reloading' = [NoReload EXCEPT !.phase = "list", !.load.asOf = store]
    BY <1>3 DEF ReloadBegins
  <2>2. [NoReload.load EXCEPT !.asOf = store] \in Snapshot
    BY <1>1, <1>2 DEF Loads, Snapshot
  <2>3. reloading' = [NoReload EXCEPT !.phase = "list", !.load = [NoReload.load EXCEPT !.asOf = store]]
    BY <2>1, <1>2 DEF Loads
  <2>4. reloading' \in Loads /\ reloading'.phase = "list"
    BY <1>2, <2>2, <2>3 DEF Loads
  <2> QED
    BY <1>3, <2>4 DEF ReloadBegins, StoreInv, Tasks
<1>4. CASE ReloadLists
  <2> DEFINE c == reloading.load.calm /\ ~InTransit(reloading.next)
  <2>1. Tables(reloading.next) \subseteq Paths
    BY <1>1 DEF Tables
  <2>2. reloading' = [reloading EXCEPT !.phase = "open", !.listed = Tables(reloading.next),
                        !.load = [reloading.load EXCEPT !.calm = c]]
    BY <1>2, <1>4 DEF ReloadLists, Loads
  <2>3. c \in BOOLEAN
    OBVIOUS
  <2> HIDE DEF c
  <2>4. [reloading.load EXCEPT !.calm = c] \in Snapshot
    BY <1>2, <2>3 DEF Loads, Snapshot
  <2>5. reloading' \in Loads /\ reloading'.phase = "open"
    BY <1>2, <2>1, <2>2, <2>4 DEF Loads
  <2> QED
    BY <1>4, <2>5 DEF ReloadLists, StoreInv, Tasks
<1>5. CASE ReloadOpens
  <2>1. PICK tables \in SUBSET Table, calm \in BOOLEAN :
          \/ /\ reloading.next = Levels + 1
             /\ snapshot' = Filled(tables, calm)
             /\ reloading' = NoReload
          \/ /\ reloading.next # Levels + 1
             /\ snapshot' = snapshot
             /\ reloading' = [NoReload EXCEPT !.phase = "list", !.load = Filled(tables, calm),
                                              !.next = reloading.next + 1]
    BY <1>5, OpensStep
  <2>2. Filled(tables, calm) \in Snapshot
    BY FilledType
  <2>3. reloading.next # Levels + 1 => reloading.next + 1 \in NumLevels
    BY <1>2, LevelsAssumption DEF Loads, NumLevels
  <2>4. snapshot' \in Snapshot /\ reloading' \in Loads
    BY <1>2, <2>1, <2>2, <2>3 DEF Loads
  <2> QED
    <3>1. waiting' = waiting /\ reloading.phase = "open" /\ reloading'.phase \in {"none", "list"}
      <4>1. reloading'.phase \in {"none", "list"}
        <5>1. NoReload.phase = "none"
          BY DEF NoReload
        <5> QED
          BY <1>2, <2>1, <5>1 DEF Loads
      <4>2. waiting' = waiting /\ reloading.phase = "open"
        BY <1>5 DEF ReloadOpens
      <4> QED
        BY <4>1, <4>2
    <3>2. Tasks' <= MaxReloads
      BY <3>1, ReadPathAssumption DEF StoreInv, Tasks
    <3> QED
      BY <1>5, <2>4, <3>2 DEF ReloadOpens, StoreInv
<1>6. CASE ReloadFails
  <2>1. waiting' = waiting /\ reloading'.phase = "none" /\ reloading.phase = "open"
    BY <1>6 DEF ReloadFails, NoReload
  <2>2. Tasks' <= MaxReloads
    BY <2>1, ReadPathAssumption DEF StoreInv, Tasks
  <2> QED
    BY <1>2, <1>6, <2>2 DEF ReloadFails, StoreInv
<1> QED
  BY <1>3, <1>4, <1>5, <1>6 DEF Reloads

LEMMA GetTypes ==
  ASSUME TypeInv, StoreInv, GetFromDisk \/ \E k \in Keys : GetMissesMemory(k)
  PROVE  StoreInv'
<1>1. CASE GetFromDisk
  BY <1>1, NoGetType DEF GetFromDisk, StoreInv, Tasks
<1>2. ASSUME NEW k \in Keys, GetMissesMemory(k)
      PROVE  StoreInv'
  <2>1. store[k] \in Entry \cup {Absent}
    BY DEF TypeInv, Types, Content
  <2>2. Value(store[k]) \in Entry \cup {Absent} /\ UpToDate \in BOOLEAN
    BY <2>1, ValueType DEF UpToDate, StoreInv, Snapshot
  <2>3. get' \in Gets
    BY <1>2, <2>2 DEF GetMissesMemory, Gets
  <2> QED
    BY <1>2, <2>3 DEF GetMissesMemory, StoreInv, Tasks
<1> QED
  BY <1>1, <1>2

LEMMA StoreNextTypes ==
  ASSUME TypeInv, StoreInv, [StoreNext]_storeVars
  PROVE  StoreInv'
<1>1. CASE \E k \in Keys, dead \in BOOLEAN : Write(k, dead)
  BY <1>1, WriteTypes
<1>2. CASE FlushStarts
  BY <1>2 DEF FlushStarts, readVars, StoreInv, Tasks
<1>3. CASE FlushDone
  BY <1>3, NoContentType DEF FlushDone, StoreInv, Tasks
<1>4. CASE TimerExpires /\ UNCHANGED readVars
  BY <1>4 DEF readVars, StoreInv, Tasks
<1>5. CASE Coordinates
  <2>1. CASE SpawnReload
    <3>1. /\ reloading' = reloading /\ waiting' = waiting + 1 /\ waiting \in Nat
          /\ Tasks < MaxReloads
      BY <2>1 DEF SpawnReload, Tasks, StoreInv
    <3>2. waiting' \in Nat /\ Tasks' <= MaxReloads
      BY <3>1, ReadPathAssumption DEF Tasks
    <3> QED
      BY <2>1, <3>2 DEF SpawnReload, StoreInv
  <2>2. CASE UNCHANGED readVars
    BY <2>2 DEF readVars, StoreInv, Tasks
  <2> QED
    BY <1>5, <2>1, <2>2 DEF Coordinates
<1>6. CASE Reloads
  BY <1>6, ReloadingTypes
<1>7. CASE GetFromDisk \/ \E k \in Keys : GetMissesMemory(k)
  BY <1>7, GetTypes
<1>8. CASE UNCHANGED storeVars
  BY <1>8 DEF storeVars, readVars, StoreInv, Tasks
<1> QED
  BY <1>1, <1>2, <1>3, <1>4, <1>5, <1>6, <1>7, <1>8 DEF StoreNext

LEMMA StoreAlwaysTyped == StoreSpec => []StoreInv
BY StoreInitTypes, StoreNextTypes, StoreTyped, PTL DEF StoreSpec

\* Memtable, snapshot, the reload under way and the Get keep their types; no more
\* reload tasks wait than were spawned.
THEOREM StoreTypeCorrect == StoreSpec => []StoreTypeOK
<1>1. StoreInv => StoreTypeOK
  <2> SUFFICES ASSUME StoreInv
               PROVE  StoreTypeOK
    OBVIOUS
  <2>1. waiting \in 0..MaxReloads
    BY ReadPathAssumption DEF StoreInv, Tasks
  <2> QED
    BY <2>1 DEF StoreInv, StoreTypeOK, Loads
<1> QED
  BY <1>1, StoreAlwaysTyped, PTL

-----------------------------------------------------------------------------
(* Where the entries of a key are                                          *)

InTables(levels, k, e) == \E l \in NumLevels : \E t \in levels[l] : t.data[k] = e

LEMMA CoordinatesComes ==
  ASSUME TypeInv, Coordinates
  PROVE  /\ Comes(files, files')
         /\ UNCHANGED <<flushed, writing, store, mem, snapshot, reloading, get>>
<1>1. UNCHANGED <<flushed, writing, store, mem, snapshot, reloading, get>>
  BY DEF Coordinates, VisitSkip, VisitCompact, BeginUnit, Join, JoinFails, Drain, Frame, Sweep,
     Promote, SpawnReload, Finish, readVars
<1>2. Next /\ ~FlushBegin
  <2>1. flushed \in Nat /\ flushed' = flushed
    BY <1>1, BoundsAssumption DEF TypeInv, Types
  <2> QED
    BY <2>1 DEF Coordinates, Next, Coordinator, FlushBegin, SpawnReload
<1> QED
  BY <1>1, <1>2, NextComes

-----------------------------------------------------------------------------
(* Ages                                                                    *)

\* The entries in memory and those being written are newer than all flushed ones.
AgesOK ==
  \A k \in Keys :
    /\ writing[k] # Absent => writing[k].by = flushed
    /\ store[k] # Absent =>
         store[k].by <= flushed /\ (writing # NoContent => store[k].by < flushed)
    /\ mem[k] # Absent /\ writing = NoContent => mem[k].by = flushed + 1

\* Files and open tables have what was flushed, nothing newer, and one entry for
\* each flush.
TopOK ==
  \A k \in Keys, e \in Entry :
    \/ InFiles(files, k, e)
    \/ InTables(snapshot.levels, k, e)
    \/ InTables(reloading.load.levels, k, e)
    => \/ e = writing[k]
       \/ store[k] # Absent /\ (e = store[k] \/ e.by < store[k].by)

\* The reader's loads follow one another.
AsOfOK ==
  \A k \in Keys :
    /\ Age(snapshot.asOf[k]) <= Age(store[k])
    /\ reloading.phase # "none" =>
         /\ Age(snapshot.asOf[k]) <= Age(reloading.load.asOf[k])
         /\ Age(reloading.load.asOf[k]) <= Age(store[k])

\* An entry that a Get of the key can meet, now or later.
Around(k, e) ==
  \/ mem[k] = e \/ writing[k] = e \/ store[k] = e
  \/ InFiles(files, k, e)
  \/ InTables(snapshot.levels, k, e)
  \/ InTables(reloading.load.levels, k, e)

\* Since the Get began its key had the value of every entry from some age on that
\* is around, and the reader is as new, if it was up to date at first.
GetOK ==
  get.phase = "disk" =>
    \E b \in Nat :
      /\ b = 0 => Absent \in get.current
      /\ \A e \in Entry : Around(get.key, e) /\ e.by >= b => Value(e) \in get.current
      /\ get.fresh => Age(snapshot.asOf[get.key]) >= b

GetInv == AgesOK /\ TopOK /\ AsOfOK /\ GetOK

LEMMA EntryAge ==
  ASSUME NEW e \in Entry \cup {Absent}
  PROVE  /\ Age(e) \in Nat
         /\ e # Absent => e \in Entry /\ Age(e) = e.by /\ e.by \in Nat /\ e.by > 0
         /\ e = Absent => Age(e) = 0
BY AbsentAssumption DEF Age, Entry

LEMMA ContentAt ==
  ASSUME NEW d \in Content, NEW k \in Keys
  PROVE  d[k] \in Entry \cup {Absent}
BY DEF Content

LEMMA Contents ==
  ASSUME TypeInv, StoreInv
  PROVE  /\ store \in Content /\ writing \in Content /\ mem \in Content
         /\ snapshot.asOf \in Content /\ reloading.load.asOf \in Content
         /\ flushed \in Nat
BY BoundsAssumption DEF TypeInv, Types, StoreInv, Loads, Snapshot

LEMMA NoEntryInNone ==
  ASSUME NEW k, NEW e
  PROVE  ~InTables(NoTables.levels, k, e) /\ ~InTables(NoReload.load.levels, k, e)
BY DEF InTables, NoTables, NoReload

LEMMA InitGet == StoreInit => GetInv
<1> SUFFICES ASSUME StoreInit
             PROVE  GetInv
  OBVIOUS
<1>1. /\ files = <<>> /\ writing = NoContent /\ store = NoContent /\ mem = NoContent
      /\ snapshot = NoTables /\ reloading = NoReload /\ get = NoGet
  BY DEF StoreInit, Init
<1>2. \A k \in Keys : NoContent[k] = Absent
  BY DEF NoContent
<1>3. AgesOK
  BY <1>1, <1>2 DEF AgesOK
<1>4. \A k, e : ~InFiles(files, k, e)
  BY <1>1 DEF InFiles
<1>5. TopOK
  BY <1>1, <1>4, NoEntryInNone DEF TopOK
<1>6. snapshot.asOf = NoContent /\ reloading.phase = "none" /\ get.phase = "none"
  BY <1>1 DEF NoTables, NoReload, NoGet
<1>7. AsOfOK /\ GetOK
  BY <1>1, <1>2, <1>6 DEF AsOfOK, GetOK, Age
<1> QED
  BY <1>3, <1>5, <1>7 DEF GetInv

\* A step that makes no entries and leaves the reader and the Get alone.
QuietStep ==
  /\ \A k \in Keys, e \in Entry : Around(k, e)' => Around(k, e)
  /\ snapshot'.asOf = snapshot.asOf
  /\ get' = get

LEMMA GetRemains ==
  ASSUME GetOK, get' = get, snapshot'.asOf = snapshot.asOf,
         \A e \in Entry : Around(get.key, e)' => Around(get.key, e)
  PROVE  GetOK'
<1> SUFFICES ASSUME get.phase = "disk"
             PROVE  GetOK'
  BY DEF GetOK
<1>1. PICK b \in Nat :
        /\ b = 0 => Absent \in get.current
        /\ \A e \in Entry : Around(get.key, e) /\ e.by >= b => Value(e) \in get.current
        /\ get.fresh => Age(snapshot.asOf[get.key]) >= b
  BY DEF GetOK
<1>2. \A e \in Entry : Around(get.key, e)' /\ e.by >= b => Value(e) \in get.current
  BY <1>1
<1> QED
  BY <1>1, <1>2 DEF GetOK

LEMMA QuietGet ==
  ASSUME StoreInv, GetOK, QuietStep
  PROVE  GetOK'
<1>1. get.key \in Keys
  BY DEF StoreInv, Gets
<1> QED
  BY <1>1, GetRemains DEF QuietStep

LEMMA QuietInv ==
  ASSUME TypeInv, StoreInv, GetInv, Comes(files, files'),
         UNCHANGED <<flushed, writing, store, mem, snapshot, reloading, get>>
  PROVE  GetInv'
<1>1. AgesOK' /\ AsOfOK'
  BY DEF GetInv, AgesOK, AsOfOK
<1>2. TopOK'
  BY DEF GetInv, TopOK, Comes
<1>3. QuietStep
  BY DEF QuietStep, Around, Comes
<1> QED
  BY <1>1, <1>2, <1>3, QuietGet DEF GetInv

LEMMA FlushStartsGet ==
  ASSUME TypeInv, StoreInv, GetInv, FlushStarts
  PROVE  GetInv'
<1>1. /\ writing = NoContent /\ writing' = mem /\ flushed' = flushed + 1
      /\ files' = Create(files, TablePath(flushed'), writing', "growing")
      /\ UNCHANGED <<store, mem, snapshot, reloading, get>>
  BY DEF FlushStarts, FlushBegin, readVars, TablePath
<1>2. \A k \in Keys : writing[k] = Absent
  BY <1>1 DEF NoContent
<1>3. AgesOK'
  <2>1. ASSUME NEW k \in Keys
        PROVE  /\ writing'[k] # Absent => writing'[k].by = flushed'
               /\ store[k] # Absent => store[k].by <= flushed' /\ store[k].by < flushed'
    <3>1. mem[k] # Absent => mem[k].by = flushed + 1
      BY <1>1 DEF GetInv, AgesOK
    <3>2. store[k] # Absent => store[k].by <= flushed /\ store[k].by \in Nat
      BY Contents, ContentAt, EntryAge DEF GetInv, AgesOK
    <3> QED
      BY <1>1, <3>1, <3>2, Contents
  <2>2. \A k \in Keys : mem'[k] # Absent => writing' # NoContent
    BY <1>1 DEF NoContent
  <2> QED
    BY <1>1, <2>1, <2>2 DEF AgesOK
<1>4. ASSUME NEW k \in Keys, NEW e \in Entry, InFiles(files', k, e)
      PROVE  InFiles(files, k, e) \/ e = writing'[k]
  <2>1. PICK q \in DOMAIN files' : files'[q].data[k] = e
    BY <1>4 DEF InFiles
  <2>2. CASE q = TablePath(flushed')
    BY <1>1, <2>1, <2>2, CreateMakes
  <2>3. CASE q # TablePath(flushed')
    BY <1>1, <2>1, <2>3, CreateOnly DEF InFiles
  <2> QED
    BY <2>2, <2>3
<1>5. TopOK'
  <2> SUFFICES ASSUME NEW k \in Keys, NEW e \in Entry,
                      \/ InFiles(files', k, e)
                      \/ InTables(snapshot.levels, k, e)
                      \/ InTables(reloading.load.levels, k, e)
               PROVE  \/ e = writing'[k]
                      \/ store[k] # Absent /\ (e = store[k] \/ e.by < store[k].by)
    BY <1>1 DEF TopOK
  <2> QED
    BY <1>2, <1>4, AbsentAssumption DEF GetInv, TopOK
<1>6. QuietStep
  BY <1>1, <1>4 DEF QuietStep, Around
<1>7. AsOfOK'
  BY <1>1 DEF GetInv, AsOfOK
<1> QED
  BY <1>3, <1>5, <1>6, <1>7, QuietGet DEF GetInv

LEMMA FlushDoneGet ==
  ASSUME TypeInv, StoreInv, GetInv, FlushDone
  PROVE  GetInv'
<1>1. /\ writing # NoContent /\ files' = Written("table") /\ store' = Over(writing, store)
      /\ writing' = NoContent /\ mem' = NoContent /\ flushed' = flushed
      /\ UNCHANGED <<snapshot, reloading, get>>
  BY DEF FlushDone, FlushEnd
<1>2. \A k \in Keys : NoContent[k] = Absent
  BY DEF NoContent
<1>3. \A k, e : InFiles(files', k, e) <=> InFiles(files, k, e)
  <2>1. \A p \in DOMAIN files : Written("table")[p].data = files[p].data
    BY WrittenKeeps, WrittenTurns DEF TypeInv, Types, Forms
  <2>2. DOMAIN Written("table") = DOMAIN files
    BY DEF Written
  <2> QED
    BY <1>1, <2>1, <2>2 DEF InFiles
<1>4. ASSUME NEW k \in Keys
      PROVE  /\ store'[k] = IF writing[k] # Absent THEN writing[k] ELSE store[k]
             /\ writing[k] # Absent => writing[k].by = flushed
             /\ store[k] # Absent => store[k].by < flushed
             /\ Age(store[k]) \in Nat /\ Age(writing[k]) \in Nat /\ flushed \in Nat
             /\ Age(store'[k]) >= Age(store[k])
  <2>1. store'[k] = IF writing[k] # Absent THEN writing[k] ELSE store[k]
    BY <1>1 DEF Over
  <2>2. /\ writing[k] # Absent => writing[k].by = flushed
        /\ store[k] # Absent => store[k].by < flushed
    BY <1>1 DEF GetInv, AgesOK
  <2>3. /\ Age(store[k]) \in Nat /\ Age(writing[k]) \in Nat /\ flushed \in Nat
        /\ store[k] # Absent => Age(store[k]) = store[k].by
        /\ store[k] = Absent => Age(store[k]) = 0
        /\ writing[k] # Absent => Age(writing[k]) = writing[k].by
    BY Contents, ContentAt, EntryAge
  <2> QED
    BY <2>1, <2>2, <2>3
<1>5. AgesOK'
  <2>1. \A k \in Keys : store'[k] # Absent => store'[k].by <= flushed
    <3> TAKE k \in Keys
    <3>1. store[k] # Absent => store[k].by = Age(store[k])
      BY DEF Age
    <3> QED
      BY <1>4, <3>1
  <2> QED
    BY <1>1, <1>2, <2>1 DEF AgesOK
<1>6. TopOK'
  <2> SUFFICES ASSUME NEW k \in Keys, NEW e \in Entry,
                      \/ e = writing[k]
                      \/ store[k] # Absent /\ (e = store[k] \/ e.by < store[k].by)
               PROVE  store'[k] # Absent /\ (e = store'[k] \/ e.by < store'[k].by)
    BY <1>1, <1>3 DEF GetInv, TopOK
  <2>1. e # Absent /\ e.by \in Nat
    BY EntryAge, AbsentAssumption
  <2>2. store[k] # Absent => store[k].by = Age(store[k])
    BY DEF Age
  <2> QED
    BY <1>4, <2>1, <2>2
<1>7. AsOfOK'
  <2> SUFFICES ASSUME NEW k \in Keys
               PROVE  /\ Age(snapshot.asOf[k]) <= Age(store'[k])
                      /\ reloading.phase # "none" => Age(reloading.load.asOf[k]) <= Age(store'[k])
    BY <1>1 DEF GetInv, AsOfOK
  <2>1. Age(snapshot.asOf[k]) \in Nat /\ Age(reloading.load.asOf[k]) \in Nat /\ Age(store'[k]) \in Nat
    <3>1. store'[k] \in Entry \cup {Absent}
      BY <1>4, Contents, ContentAt
    <3> QED
      BY <3>1, Contents, ContentAt, EntryAge
  <2>2. /\ Age(snapshot.asOf[k]) <= Age(store[k])
        /\ reloading.phase # "none" => Age(reloading.load.asOf[k]) <= Age(store[k])
    BY DEF GetInv, AsOfOK
  <2> QED
    BY <1>4, <2>1, <2>2
<1>8. QuietStep
  <2>1. ASSUME NEW k \in Keys, NEW e \in Entry, Around(k, e)'
        PROVE  Around(k, e)
    BY <1>1, <1>2, <1>3, <1>4, <2>1, AbsentAssumption DEF Around
  <2> QED
    BY <1>1, <2>1 DEF QuietStep
<1> QED
  BY <1>5, <1>6, <1>7, <1>8, QuietGet DEF GetInv

LEMMA WriteGet ==
  ASSUME TypeInv, StoreInv, GetInv, NEW k \in Keys, NEW dead \in BOOLEAN, Write(k, dead)
  PROVE  GetInv'
<1> DEFINE new == [by |-> flushed + 1, dead |-> dead]
<1>1. /\ writing = NoContent /\ mem' = [mem EXCEPT ![k] = new]
      /\ get' = IF get.phase = "disk" /\ get.key = k
                THEN [get EXCEPT !.current = @ \cup {Value(mem'[k])}]
                ELSE get
      /\ UNCHANGED <<files, flushed, writing, store, snapshot, reloading>>
  BY DEF Write, vars
<1>2. mem'[k] = new /\ \A l \in Keys \ {k} : mem'[l] = mem[l]
  BY <1>1, Contents DEF Content
<1>3. AgesOK'
  BY <1>1, <1>2 DEF GetInv, AgesOK
<1>4. TopOK' /\ AsOfOK'
  BY <1>1 DEF GetInv, TopOK, AsOfOK
<1>5. ASSUME NEW l \in Keys, NEW e \in Entry, Around(l, e)'
      PROVE  Around(l, e) \/ (l = k /\ e = mem'[k])
  BY <1>1, <1>2, <1>5 DEF Around
<1>6. get \in Gets
  BY DEF StoreInv
<1> HIDE DEF new
<1>7. CASE get.phase = "disk" /\ get.key = k
  <2>1. PICK b \in Nat :
          /\ b = 0 => Absent \in get.current
          /\ \A e \in Entry : Around(k, e) /\ e.by >= b => Value(e) \in get.current
          /\ get.fresh => Age(snapshot.asOf[k]) >= b
    BY <1>7 DEF GetInv, GetOK
  <2>2. /\ get'.current = get.current \cup {Value(mem'[k])}
        /\ get'.key = k /\ get'.fresh = get.fresh
    BY <1>1, <1>6, <1>7 DEF Gets
  <2>3. \A e \in Entry : Around(k, e)' /\ e.by >= b => Value(e) \in get'.current
    BY <1>5, <2>1, <2>2
  <2>4. GetOK'
    BY <1>1, <2>1, <2>2, <2>3 DEF GetOK
  <2> QED
    BY <1>3, <1>4, <2>4 DEF GetInv
<1>8. CASE ~(get.phase = "disk" /\ get.key = k)
  <2>1. get' = get
    BY <1>1, <1>8
  <2>2. snapshot' = snapshot /\ GetOK
    BY <1>1 DEF GetInv
  <2>3. ASSUME get.phase = "disk"
        PROVE  GetOK'
    <3>1. get.key \in Keys /\ get.key # k
      BY <1>6, <1>8, <2>3 DEF Gets
    <3>2. \A e \in Entry : Around(get.key, e)' => Around(get.key, e)
      BY <1>5, <2>1, <3>1
    <3> QED
      BY <2>1, <2>2, <3>2, GetRemains
  <2>4. get.phase # "disk" => GetOK'
    BY <2>1 DEF GetOK
  <2> QED
    BY <1>3, <1>4, <2>3, <2>4 DEF GetInv
<1> QED
  BY <1>7, <1>8

LEMMA FilledIs ==
  ASSUME StoreInv, NEW tables, NEW calm
  PROVE  /\ Filled(tables, calm).asOf = reloading.load.asOf
         /\ Filled(tables, calm).calm = calm
         /\ Filled(tables, calm).levels[reloading.next] = tables
         /\ \A l \in NumLevels \ {reloading.next} :
              Filled(tables, calm).levels[l] = reloading.load.levels[l]
BY DEF Filled, StoreInv, Loads, Snapshot

LEMMA ReloadsGet ==
  ASSUME TypeInv, StoreInv, GetInv, Reloads
  PROVE  GetInv'
<1>1. UNCHANGED <<files, flushed, writing, store, mem, get>>
  BY DEF Reloads, ReloadBegins, ReloadLists, ReloadOpens, ReloadFails, vars
<1>2. AgesOK'
  BY <1>1 DEF GetInv, AgesOK
<1>3. \A k \in Keys : /\ Age(snapshot.asOf[k]) \in Nat /\ Age(reloading.load.asOf[k]) \in Nat
                      /\ Age(store[k]) \in Nat
  BY Contents, ContentAt, EntryAge
<1>4. reloading \in Loads /\ NoReload \in Loads /\ NoReload.phase = "none"
      /\ NoReload.load = NoTables
  BY NoReloadType DEF StoreInv, NoReload
<1>5. CASE ReloadBegins
  <2>1. /\ snapshot' = snapshot
        /\ reloading'.load.levels = NoTables.levels /\ reloading'.load.asOf = store
    <3>1. /\ snapshot' = snapshot
          /\ reloading' = [NoReload EXCEPT !.phase = "list", !.load.asOf = store]
      BY <1>5 DEF ReloadBegins
    <3> QED
      BY <3>1, <1>4, NoTablesType DEF Loads, Snapshot
  <2>2. TopOK'
    BY <1>1, <2>1, NoEntryInNone DEF GetInv, TopOK, InTables
  <2>3. AsOfOK'
    BY <1>1, <1>3, <2>1 DEF GetInv, AsOfOK
  <2>4. QuietStep
    BY <1>1, <2>1, NoEntryInNone DEF QuietStep, Around, InTables
  <2> QED
    BY <1>2, <2>2, <2>3, <2>4, QuietGet DEF GetInv
<1>6. CASE ReloadLists
  <2>1. /\ snapshot' = snapshot /\ reloading.phase = "list"
        /\ reloading'.load.levels = reloading.load.levels
        /\ reloading'.load.asOf = reloading.load.asOf
    BY <1>4, <1>6 DEF ReloadLists, Loads, Snapshot
  <2>2. TopOK' /\ AsOfOK' /\ QuietStep
    BY <1>1, <2>1 DEF GetInv, TopOK, AsOfOK, QuietStep, Around, InTables
  <2> QED
    BY <1>2, <2>2, QuietGet DEF GetInv
<1>7. CASE ReloadOpens
  <2>1. PICK tables \in SUBSET Table, calm \in BOOLEAN :
           /\ \A t \in tables : \E p \in reloading.listed : p \in DOMAIN files /\ t \in Opened(p)
           /\ \/ /\ reloading.next = Levels + 1
                 /\ snapshot' = Filled(tables, calm)
                 /\ reloading' = NoReload
              \/ /\ reloading.next # Levels + 1
                 /\ snapshot' = snapshot
                 /\ reloading' = [NoReload EXCEPT !.phase = "list", !.load = Filled(tables, calm),
                                                  !.next = reloading.next + 1]
    BY <1>7, OpensStep
  <2> DEFINE load == Filled(tables, calm)
  <2>2. reloading.phase # "none"
    BY <1>7 DEF ReloadOpens
  <2>3. load.asOf = reloading.load.asOf
    BY FilledIs
  <2>4. ASSUME NEW k \in Keys, NEW e \in Entry, InTables(load.levels, k, e)
        PROVE  InTables(reloading.load.levels, k, e) \/ InFiles(files, k, e)
    <3>1. PICK l \in NumLevels : \E t \in load.levels[l] : t.data[k] = e
      BY <2>4 DEF InTables
    <3>2. CASE l = reloading.next
      <4>1. PICK t \in tables : t.data[k] = e
        BY <3>1, <3>2, FilledIs
      <4>2. PICK p \in DOMAIN files : t \in Opened(p)
        BY <2>1
      <4>3. files[p].data[k] = e
        BY <4>1, <4>2, OpenedTable, AbsentAssumption
      <4> QED
        BY <4>3 DEF InFiles
    <3>3. CASE l # reloading.next
      BY <3>1, <3>3, FilledIs DEF InTables
    <3> QED
      BY <3>2, <3>3
  <2> HIDE DEF load
  <2>5. /\ snapshot' = snapshot \/ snapshot' = load
        /\ reloading'.load = NoTables \/ reloading'.load = load
    BY <1>4, <2>1 DEF load, Loads
  <2>6. ASSUME NEW k \in Keys, NEW e \in Entry,
               InTables(snapshot'.levels, k, e) \/ InTables(reloading'.load.levels, k, e)
        PROVE  \/ InTables(snapshot.levels, k, e) \/ InTables(reloading.load.levels, k, e)
               \/ InFiles(files, k, e)
    BY <2>4, <2>5, <2>6, NoEntryInNone
  <2>7. TopOK'
    <3> SUFFICES ASSUME NEW k \in Keys, NEW e \in Entry,
                        \/ InFiles(files, k, e) \/ InTables(snapshot'.levels, k, e)
                        \/ InTables(reloading'.load.levels, k, e)
                 PROVE  \/ e = writing[k]
                        \/ store[k] # Absent /\ (e = store[k] \/ e.by < store[k].by)
      BY <1>1 DEF TopOK
    <3> QED
      BY <2>6 DEF GetInv, TopOK
  <2>8. \A k \in Keys :
          /\ Age(snapshot.asOf[k]) <= Age(snapshot'.asOf[k])
          /\ Age(snapshot'.asOf[k]) <= Age(store[k]) /\ Age(snapshot'.asOf[k]) \in Nat
          /\ reloading'.phase # "none" => snapshot' = snapshot /\ reloading'.load = load
    <3>1. reloading'.phase # "none" => snapshot' = snapshot /\ reloading'.load = load
      BY <1>4, <2>1 DEF load, Loads
    <3> QED
      BY <1>3, <2>2, <2>3, <2>5, <3>1 DEF GetInv, AsOfOK
  <2>9. AsOfOK'
    BY <1>1, <2>2, <2>3, <2>8 DEF GetInv, AsOfOK
  <2>10. GetOK'
    <3> SUFFICES ASSUME get.phase = "disk"
                 PROVE  GetOK'
      BY <1>1 DEF GetOK
    <3>1. PICK b \in Nat :
            /\ b = 0 => Absent \in get.current
            /\ \A e \in Entry : Around(get.key, e) /\ e.by >= b => Value(e) \in get.current
            /\ get.fresh => Age(snapshot.asOf[get.key]) >= b
      BY DEF GetInv, GetOK
    <3>2. get.key \in Keys
      BY DEF StoreInv, Gets
    <3>3. \A e \in Entry : Around(get.key, e)' => Around(get.key, e)
      BY <1>1, <2>6, <3>2 DEF Around
    <3>4. get.fresh => Age(snapshot'.asOf[get.key]) >= b
      BY <1>3, <2>8, <3>1, <3>2
    <3> QED
      BY <1>1, <3>1, <3>3, <3>4 DEF GetOK
  <2> QED
    BY <1>2, <2>7, <2>9, <2>10 DEF GetInv
<1>8. CASE ReloadFails
  <2>1. snapshot' = snapshot /\ reloading' = NoReload
    BY <1>8 DEF ReloadFails
  <2>2. TopOK' /\ AsOfOK' /\ QuietStep
    BY <1>1, <1>4, <2>1, NoEntryInNone DEF GetInv, TopOK, AsOfOK, QuietStep, Around
  <2> QED
    BY <1>2, <2>2, QuietGet DEF GetInv
<1> QED
  BY <1>5, <1>6, <1>7, <1>8 DEF Reloads

\* What is around when a Get begins is the newest flushed entry, or older.
LEMMA GetBegins ==
  ASSUME TypeInv, StoreInv, GetInv, NEW k \in Keys, GetMissesMemory(k)
  PROVE  GetInv'
<1>1. /\ writing = NoContent /\ mem[k] = Absent
      /\ get' = [phase |-> "disk", key |-> k, current |-> {Value(store[k])}, fresh |-> UpToDate]
      /\ UNCHANGED <<files, flushed, writing, store, mem, snapshot, reloading>>
  BY DEF GetMissesMemory, vars
<1>2. AgesOK' /\ TopOK' /\ AsOfOK'
  BY <1>1 DEF GetInv, AgesOK, TopOK, AsOfOK
<1> DEFINE b == Age(store[k])
<1>3. b \in Nat /\ store[k] \in Entry \cup {Absent} /\ writing[k] = Absent
  BY <1>1, Contents, ContentAt, EntryAge DEF NoContent
<1>4. /\ store[k] # Absent => b = store[k].by /\ b > 0
      /\ store[k] = Absent => b = 0
  BY <1>3, EntryAge
<1>5. b = 0 => Absent \in get'.current
  BY <1>1, <1>4 DEF Value, Dead
<1>6. ASSUME NEW e \in Entry, Around(k, e), e.by >= b
      PROVE  Value(e) \in get'.current
  <2>1. e # Absent /\ e.by \in Nat
    BY EntryAge, AbsentAssumption
  <2>2. store[k] # Absent /\ (e = store[k] \/ e.by < store[k].by)
    BY <1>1, <1>3, <1>6, <2>1 DEF GetInv, TopOK, Around
  <2>3. e = store[k]
    BY <1>3, <1>4, <1>6, <2>1, <2>2
  <2> QED
    BY <1>1, <2>3
<1>7. get'.fresh => Age(snapshot.asOf[k]) >= b
  <2>1. UpToDate => Age(snapshot.asOf[k]) = b
    BY DEF UpToDate
  <2>2. get'.fresh = UpToDate
    BY <1>1
  <2> QED
    BY <1>3, <2>1, <2>2
<1> HIDE DEF b
<1>8. get'.key = k
  BY <1>1
<1>9. \A e : Around(k, e)' <=> Around(k, e)
  BY <1>1 DEF Around
<1>10. GetOK'
  BY <1>1, <1>3, <1>5, <1>6, <1>7, <1>8, <1>9 DEF GetOK
<1> QED
  BY <1>2, <1>10 DEF GetInv

LEMMA NextGet ==
  ASSUME TypeInv, StoreInv, GetInv, [StoreNext]_storeVars
  PROVE  GetInv'
<1>1. CASE \E k \in Keys, dead \in BOOLEAN : Write(k, dead)
  BY <1>1, WriteGet
<1>2. CASE FlushStarts
  BY <1>2, FlushStartsGet
<1>3. CASE FlushDone
  BY <1>3, FlushDoneGet
<1>4. CASE (TimerExpires /\ UNCHANGED readVars) \/ UNCHANGED storeVars
  <2>1. /\ UNCHANGED <<flushed, writing, store, mem, snapshot, reloading, get>>
        /\ files' = files
    BY <1>4 DEF TimerExpires, readVars, storeVars, vars
  <2>2. Comes(files, files')
    BY <2>1 DEF Comes
  <2> QED
    BY <2>1, <2>2, QuietInv
<1>5. CASE Coordinates
  BY <1>5, CoordinatesComes, QuietInv
<1>6. CASE Reloads
  BY <1>6, ReloadsGet
<1>7. CASE \E k \in Keys : GetMissesMemory(k)
  BY <1>7, GetBegins
<1>8. CASE GetFromDisk
  <2>1. get'.phase = "none"
    BY <1>8 DEF GetFromDisk, NoGet
  <2>2. UNCHANGED <<files, flushed, writing, store, mem, snapshot, reloading>>
    BY <1>8 DEF GetFromDisk, vars
  <2> QED
    BY <2>1, <2>2 DEF GetInv, AgesOK, TopOK, AsOfOK, GetOK
<1> QED
  BY <1>1, <1>2, <1>3, <1>4, <1>5, <1>6, <1>7, <1>8 DEF StoreNext

LEMMA AlwaysGet == StoreSpec => []GetInv
BY InitGet, NextGet, StoreTyped, StoreAlwaysTyped, PTL DEF StoreSpec

\* The reader answers with an entry of one of its tables, or with none.
LEMMA AnswersAre ==
  ASSUME NEW levels \in [NumLevels -> SUBSET Table], NEW k \in Keys, NEW a \in Answers(levels, k)
  PROVE  a = Absent \/ (a \in Entry /\ InTables(levels, k, a))
<1> DEFINE hits(l) == {t \in levels[l] : t.data[k] # Absent}
           hitting == {l \in NumLevels : hits(l) # {}}
<1>1. CASE hitting = {}
  BY <1>1 DEF Answers
<1>2. CASE hitting # {}
  <2> DEFINE least == CHOOSE l \in hitting : \A m \in hitting : l <= m
  <2>1. hitting \in SUBSET Nat
    BY LevelsAssumption DEF NumLevels
  <2>2. \E l \in hitting : \A m \in hitting : l <= m
    BY <1>2, <2>1, LeastNatural
  <2>3. least \in hitting
    BY <2>2
  <2>4. PICK t \in hits(least) : a = t.data[k]
    BY <1>2 DEF Answers
  <2>5. least \in NumLevels /\ t \in levels[least] /\ a # Absent
    BY <2>3, <2>4
  <2>6. t \in Table
    BY <2>5
  <2> HIDE DEF least
  <2>7. a \in Entry
    BY <2>4, <2>5, <2>6 DEF Table, Content
  <2> QED
    BY <2>4, <2>5, <2>7 DEF InTables
<1> QED
  BY <1>1, <1>2

LEMMA AtomicFollows ==
  ASSUME TypeInv, StoreInv, GetInv, ReloadLosesNothing
  PROVE  GetIsAtomic
<1> SUFFICES ASSUME get.phase = "disk", get.fresh, snapshot.calm,
                    NEW a \in Answers(snapshot.levels, get.key)
             PROVE  Value(a) \in get.current
  BY DEF GetIsAtomic, AskingDisk, GetAnswers
<1>1. PICK b \in Nat :
        /\ b = 0 => Absent \in get.current
        /\ \A e \in Entry : Around(get.key, e) /\ e.by >= b => Value(e) \in get.current
        /\ Age(snapshot.asOf[get.key]) >= b
  BY DEF GetInv, GetOK
<1>2. get.key \in Keys /\ snapshot.levels \in [NumLevels -> SUBSET Table]
  BY DEF StoreInv, Gets, Snapshot
<1>3. Age(a) >= Age(snapshot.asOf[get.key])
  BY <1>2 DEF ReloadLosesNothing, AnswersAsNew
<1>4. a = Absent \/ (a \in Entry /\ InTables(snapshot.levels, get.key, a))
  BY <1>2, AnswersAre
<1>5. Age(snapshot.asOf[get.key]) \in Nat /\ Age(a) \in Nat
  BY <1>2, <1>4, Contents, ContentAt, EntryAge
<1>6. CASE a = Absent
  <2>1. Age(a) = 0
    BY <1>6, EntryAge
  <2>2. b = 0
    BY <1>1, <1>3, <1>5, <2>1
  <2> QED
    BY <1>1, <1>6, <2>2 DEF Value, Dead
<1>7. CASE a # Absent
  <2>1. a.by >= b
    BY <1>1, <1>3, <1>4, <1>5, <1>7, EntryAge
  <2> QED
    BY <1>1, <1>4, <1>7, <2>1 DEF Around
<1> QED
  BY <1>6, <1>7

\* A Get that begins while the reader is up to date answers with a value its key
\* had meanwhile, though the entry moves from memory to a table and on through the
\* levels between the two halves, as long as no reload loses an entry.
THEOREM GetAtomic == StoreSpec /\ []ReloadLosesNothing => []GetIsAtomic
BY AtomicFollows, AlwaysGet, StoreTyped, StoreAlwaysTyped, PTL

-----------------------------------------------------------------------------
(* The reload task                                                         *)

\* An entry of this age or a newer one stands in this level or further down.
Reaches(k, age, l) == \E p \in DOMAIN files : Stands(p, k, age) /\ p[1] >= l

\* A listing has tables of the level, none of which is yet to be flushed.
Tabled(listed, l) ==
  \A p \in listed :
    p[1] = l /\ p[3] = "bin" /\ \A n \in Nat : p[2] = <<"table", n>> => n <= flushed

\* From here the reload finds such an entry, or fails: it is in a listed table, or
\* further down, or a listed table is gone and the entry in what came of it.
Opens(k, age, l, listed) ==
  \/ \E p \in listed : Stands(p, k, age)
  \/ Reaches(k, age, l + 1)
  \/ /\ \E p \in DOMAIN files : Stands(p, k, age) /\ p[1] = l /\ p[3] = "tmp"
     /\ ~(listed \subseteq DOMAIN files)

Ahead(k, age) ==
  IF reloading.phase = "list" THEN Reaches(k, age, reloading.next)
  ELSE Opens(k, age, reloading.next, reloading.listed)

Missing(levels, k) == \A l \in NumLevels : \A t \in levels[l] : t.data[k] = Absent

\* Whichever table with the key a reader takes, up to one of them, is as new.
Leads(levels, k, age) ==
  \E l \in NumLevels : \E t \in levels[l] :
    /\ t.data[k] # Absent /\ t.data[k].by >= age
    /\ \A m \in NumLevels : \A u \in levels[m] :
         u.data[k] # Absent /\ (m < l \/ (m = l /\ u.created >= t.created))
           => u.data[k].by >= age

\* What the load has, or is yet to find, of what was flushed before it began.
Loaded(k, age) ==
  \/ Leads(reloading.load.levels, k, age)
  \/ Missing(reloading.load.levels, k) /\ Ahead(k, age)

LoadOK ==
  reloading.phase # "none" =>
    /\ reloading.phase = "open" => Tabled(reloading.listed, reloading.next)
    /\ \A l \in NumLevels : l >= reloading.next => reloading.load.levels[l] = {}
    /\ reloading.load.calm =>
         \A k \in LongKeys, age \in Nat :
           reloading.load.asOf[k] # Absent /\ age = reloading.load.asOf[k].by => Loaded(k, age)

SnapshotOK ==
  snapshot.calm =>
    \A k \in LongKeys, age \in Nat :
      snapshot.asOf[k] # Absent /\ age = snapshot.asOf[k].by => Leads(snapshot.levels, k, age)

ReloadInv == LoadOK /\ SnapshotOK

-----------------------------------------------------------------------------
(* What is ahead of the reload stays there                                 *)

\* What the proofs of Compaction have of a step.
Known ==
  /\ Faults = {}
  /\ TypeInv /\ Ordered /\ ErasureInv /\ LayerInv /\ ViewInv /\ NamesFresh

LEMMA ReachesOn ==
  ASSUME Known, [Next]_vars, NEW k \in LongKeys, NEW age \in Nat, NEW l \in Nat,
         Reaches(k, age, l)
  PROVE  Reaches(k, age, l)'
<1>1. PICK p \in DOMAIN files : Stands(p, k, age) /\ p[1] >= l
  BY DEF Reaches
<1>2. PICK q \in DOMAIN files' : Stands(q, k, age)' /\ (q[1] = p[1] \/ q[1] > p[1])
  <2>1. Onward(p, k, age)
    BY <1>1, NextOnward DEF Known
  <2> QED
    BY <2>1 DEF Onward
<1>3. p[1] \in Int /\ q[1] \in Int
  <2>1. TypeInv /\ TypeInv'
    BY NextTypes DEF Known
  <2>2. DOMAIN files \subseteq Paths /\ DOMAIN files' \subseteq Paths
    BY <2>1 DEF TypeInv, Types, Directory
  <2>3. \A r \in Paths : r[1] \in Int
    BY DEF Paths
  <2> QED
    BY <1>1, <1>2, <2>2, <2>3
<1>4. q[1] >= l
  BY <1>1, <1>2, <1>3
<1> QED
  BY <1>2, <1>4 DEF Reaches

\* A listed table that is gone does not come back to the level being compacted.
LEMMA StaysAway ==
  ASSUME TypeInv, [Next]_vars, NEW p, p \notin DOMAIN files, p[1] = level, p[3] = "bin",
         \A n \in Nat : p[2] = <<"table", n>> => n <= flushed
  PROVE  p \notin DOMAIN files'
<1> SUFFICES ASSUME p \in DOMAIN files'
             PROVE  FALSE
  OBVIOUS
<1>1. CASE FlushBegin
  <2>1. flushed \in Nat /\ flushed + 1 \in Nat /\ ~(flushed + 1 <= flushed)
    BY BoundsAssumption DEF TypeInv, Types
  <2>2. p = TablePath(flushed + 1)
    BY <1>1, FlushBeginBins DEF Bins
  <2> QED
    BY <2>1, <2>2, TablePathType
<1>2. CASE Promote
  <2>1. PICK from, to : /\ files' = Rename(files, from, to)
                        /\ to = Path(level + 1, <<outputs[1][1], "bin">>)
    BY <1>2, PromoteStep
  <2>2. p = to
    BY <2>1, RenameOnly
  <2>3. p[1] = level + 1 /\ level \in Int
    BY <2>1, <2>2, PathExtension DEF TypeInv, Types
  <2> QED
    BY <2>3
<1>3. CASE SameBins
  BY <1>3 DEF SameBins, Bins
<1> QED
  BY <1>1, <1>2, <1>3, StepSameBins

LEMMA OpensOn ==
  ASSUME Known, [Next]_vars, NEW k \in LongKeys, NEW age \in Nat, NEW l \in Nat, NEW listed,
         Tabled(listed, l), Opens(k, age, l, listed)
  PROVE  Opens(k, age, l, listed)'
<1>1. TypeInv
  BY DEF Known
<1>2. CASE Reaches(k, age, l + 1)
  <2>1. Reaches(k, age, l + 1)'
    BY <1>2, ReachesOn
  <2> QED
    BY <2>1 DEF Opens
<1>3. CASE ~Reaches(k, age, l + 1)
  <2>1. PICK p : /\ Stands(p, k, age) /\ p[1] = l
                 /\ \/ p \in listed
                    \/ p[3] = "tmp" /\ ~(listed \subseteq DOMAIN files)
    BY <1>3 DEF Opens, Tabled
  <2>2. PICK q \in DOMAIN files' :
          /\ Stands(q, k, age)'
          /\ \/ q = p /\ p[3] = "bin"
             \/ q[3] = "tmp" /\ q[1] = p[1] /\ (p[3] = "bin" => p \notin DOMAIN files')
             \/ q[1] > p[1]
    <3>1. Onward(p, k, age)
      BY <2>1, NextOnward DEF Known
    <3> QED
      BY <3>1 DEF Onward
  <2>3. CASE q = p /\ p[3] = "bin"
    <3>1. p \in listed
      BY <2>1, <2>3
    <3> QED
      BY <2>2, <2>3, <3>1 DEF Opens
  <2>4. CASE q[1] > p[1]
    <3>1. q[1] \in Int
      <4>1. TypeInv'
        BY <1>1, NextTypes
      <4> QED
        BY <4>1 DEF TypeInv, Types, Directory, Paths
    <3>2. q[1] >= l + 1
      BY <2>1, <2>4, <3>1
    <3>3. Reaches(k, age, l + 1)'
      BY <2>2, <3>2 DEF Reaches
    <3> QED
      BY <3>3 DEF Opens
  <2>5. CASE q[3] = "tmp" /\ q[1] = p[1] /\ (p[3] = "bin" => p \notin DOMAIN files')
    <3>1. CASE p \in listed
      <4>1. p[3] = "bin"
        BY <3>1 DEF Tabled
      <4>2. ~(listed \subseteq DOMAIN files')
        BY <2>5, <3>1, <4>1
      <4> QED
        BY <2>1, <2>2, <2>5, <4>2 DEF Opens
    <3>2. CASE p[3] = "tmp" /\ ~(listed \subseteq DOMAIN files)
      <4>1. PICK r \in listed : r \notin DOMAIN files
        BY <3>2
      <4>2. level = l
        BY <1>1, <2>1, <3>2, StandingIs DEF Stands
      <4>3. r \notin DOMAIN files'
        BY <1>1, <4>1, <4>2, StaysAway DEF Tabled
      <4>4. ~(listed \subseteq DOMAIN files')
        BY <4>1, <4>3
      <4> QED
        BY <2>1, <2>2, <2>5, <4>4 DEF Opens
    <3> QED
      BY <2>1, <3>1, <3>2
  <2> QED
    BY <2>2, <2>3, <2>4, <2>5
<1> QED
  BY <1>2, <1>3

LEMMA TabledOn ==
  ASSUME TypeInv, [Next]_vars, NEW listed, NEW l, Tabled(listed, l)
  PROVE  Tabled(listed, l)'
<1>1. flushed \in Nat /\ (flushed' = flushed \/ flushed' = flushed + 1)
  <2>1. FlushBegin => flushed' = flushed + 1
    BY DEF FlushBegin
  <2>2. FlushEnd \/ FlushTorn \/ TimerExpires \/ Crash \/ UNCHANGED vars => flushed' = flushed
    BY DEF FlushEnd, FlushTorn, TimerExpires, Crash, vars
  <2>3. VisitSkip \/ VisitCompact \/ BeginUnit \/ Join \/ JoinFails => flushed' = flushed
    BY DEF VisitSkip, VisitCompact, BeginUnit, Join, JoinFails
  <2>4. Drain \/ DrainFails \/ Frame \/ FrameFails \/ Sweep \/ SweepFails => flushed' = flushed
    BY DEF Drain, DrainFails, Frame, FrameFails, Sweep, SweepFails
  <2>5. Promote \/ PromoteFails \/ Finish => flushed' = flushed
    BY DEF Promote, PromoteFails, Finish
  <2>6. flushed \in Nat
    BY BoundsAssumption DEF TypeInv, Types
  <2> QED
    BY <2>1, <2>2, <2>3, <2>4, <2>5, <2>6 DEF Next, Coordinator
<1>2. \A n \in Nat : n <= flushed => n <= flushed'
  BY <1>1
<1> QED
  BY <1>2 DEF Tabled

\* A step of the flushes or of the coordinator.
LEMMA ElsewhereOn ==
  ASSUME Known, StoreInv, ReloadInv, [Next]_vars, UNCHANGED <<snapshot, reloading>>
  PROVE  ReloadInv'
<1>1. SnapshotOK'
  BY DEF ReloadInv, SnapshotOK
<1>2. TypeInv
  BY DEF Known
<1>3. LoadOK'
  <2> SUFFICES ASSUME reloading.phase # "none"
               PROVE  LoadOK'
    BY DEF LoadOK
  <2>1. reloading.phase = "open" => Tabled(reloading.listed, reloading.next)'
    <3>1. PICK listed, l : listed = reloading.listed /\ l = reloading.next
      OBVIOUS
    <3>2. reloading.phase = "open" => Tabled(listed, l)'
      BY <1>2, <3>1, TabledOn DEF ReloadInv, LoadOK
    <3> QED
      BY <3>1, <3>2 DEF Tabled
  <2>2. ASSUME NEW k \in LongKeys, NEW age \in Nat, Loaded(k, age)
        PROVE  Loaded(k, age)'
    <3>1. PICK listed, l : listed = reloading.listed /\ l = reloading.next
      OBVIOUS
    <3>2. l \in Nat
      BY <3>1, LevelsAssumption DEF StoreInv, Loads, NumLevels
    <3>3. Ahead(k, age) => Ahead(k, age)'
      <4>1. CASE reloading.phase = "list"
        <5>1. Reaches(k, age, l) => Reaches(k, age, l)'
          BY <3>2, ReachesOn
        <5> QED
          BY <3>1, <4>1, <5>1 DEF Ahead, Reaches
      <4>2. CASE reloading.phase = "open"
        <5>1. Tabled(listed, l)
          BY <3>1, <4>2 DEF ReloadInv, LoadOK
        <5>2. Opens(k, age, l, listed) => Opens(k, age, l, listed)'
          BY <3>2, <5>1, OpensOn
        <5> QED
          BY <3>1, <4>2, <5>2 DEF Ahead, Opens, Reaches
      <4> QED
        BY <4>1, <4>2 DEF StoreInv, Loads
    <3> QED
      BY <2>2, <3>3 DEF Loaded
  <2> QED
    BY <2>1, <2>2 DEF ReloadInv, LoadOK
<1> QED
  BY <1>1, <1>3 DEF ReloadInv

-----------------------------------------------------------------------------
(* The steps of the reload                                                 *)

LEMMA BeginsWell ==
  ASSUME Known, StoreInv, ReloadInv, ReloadBegins
  PROVE  ReloadInv'
<1>1. /\ UNCHANGED vars /\ snapshot' = snapshot
      /\ reloading' = [NoReload EXCEPT !.phase = "list", !.load.asOf = store]
  BY DEF ReloadBegins
<1>2. /\ reloading'.phase = "list" /\ reloading'.next = 1
      /\ reloading'.load.levels = NoTables.levels /\ reloading'.load.asOf = store
  BY <1>1, NoReloadType, NoTablesType DEF NoReload, Loads, Snapshot
<1>3. \A l \in NumLevels : reloading'.load.levels[l] = {}
  BY <1>2 DEF NoTables
<1>4. SnapshotOK'
  BY <1>1 DEF ReloadInv, SnapshotOK
<1>5. ASSUME NEW k \in LongKeys, NEW age \in Nat, store[k] # Absent, age = store[k].by
      PROVE  Loaded(k, age)'
  <2>1. PICK p \in DOMAIN files : Stands(p, k, age)
    BY <1>5 DEF Known, ViewInv, StoreStands
  <2>2. p[1] >= 1
    BY DEF Known, TypeInv, Types, Directory, Paths
  <2>3. Reaches(k, age, 1)
    BY <2>1, <2>2 DEF Reaches
  <2>4. Reaches(k, age, 1)'
    BY <1>1, <2>3 DEF Reaches, Stands, Standing, Chunk, Bins, Out, OutName, vars
  <2>5. Ahead(k, age)'
    BY <1>2, <2>4 DEF Ahead, Reaches
  <2>6. Missing(reloading.load.levels, k)'
    BY <1>3 DEF Missing
  <2> QED
    BY <2>5, <2>6 DEF Loaded
<1>6. LoadOK'
  BY <1>2, <1>3, <1>5 DEF LoadOK
<1> QED
  BY <1>4, <1>6 DEF ReloadInv

\* What stands in the level is in a listed table, unless tables were in transit.
LEMMA ListsWell ==
  ASSUME Known, StoreInv, ReloadInv, ReloadLists
  PROVE  ReloadInv'
<1>1. /\ UNCHANGED vars /\ snapshot' = snapshot /\ reloading.phase = "list"
      /\ reloading' = [reloading EXCEPT !.phase = "open", !.listed = Tables(reloading.next),
                                        !.load.calm = @ /\ ~InTransit(reloading.next)]
  BY DEF ReloadLists
<1>2. PICK l : l = reloading.next
  OBVIOUS
<1>3. /\ reloading'.phase = "open" /\ reloading'.next = l /\ reloading'.listed = Tables(l)
      /\ reloading'.load.levels = reloading.load.levels
      /\ reloading'.load.asOf = reloading.load.asOf
      /\ reloading'.load.calm => reloading.load.calm /\ ~InTransit(l)
  BY <1>1, <1>2 DEF StoreInv, Loads, Snapshot
<1>4. SnapshotOK'
  BY <1>1 DEF ReloadInv, SnapshotOK
<1>5. Tabled(Tables(l), l)'
  <2>1. Tabled(Tables(l), l)
    BY DEF Tabled, Tables, Known, TypeInv, TablesNumbered
  <2> QED
    BY <1>1, <2>1 DEF Tabled, Tables, vars
<1>6. ASSUME NEW k \in LongKeys, NEW age \in Nat, Reaches(k, age, l), ~InTransit(l)
      PROVE  Opens(k, age, l, Tables(l))
  <2>1. PICK p \in DOMAIN files : Stands(p, k, age) /\ p[1] >= l
    BY <1>6 DEF Reaches
  <2>2. p[1] \in Int /\ l \in Int
    BY <1>2 DEF StoreInv, Loads, NumLevels, Known, TypeInv, Types, Directory, Paths
  <2>3. CASE p[1] = l /\ p[3] = "bin"
    <3>1. p \in Tables(l)
      BY <2>3 DEF Tables
    <3> QED
      BY <2>1, <3>1 DEF Opens
  <2>4. CASE p[1] = l /\ p[3] # "bin"
    <3>1. level = l
      BY <2>1, <2>4, StandingIs DEF Stands, Known
    <3>2. unit.consumed = <<>> /\ outputs = <<>>
      BY <1>6, <3>1 DEF InTransit
    <3>3. PICK q \in Bins(files) : q[1] = p[1] /\ Stands(q, k, age)
      BY <2>1, <3>2, StandsInTable DEF Known, ErasureInv
    <3>4. q \in Tables(l)
      BY <2>4, <3>3 DEF Tables, Bins
    <3> QED
      BY <3>3, <3>4 DEF Opens
  <2>5. CASE p[1] # l
    <3>1. p[1] >= l + 1
      BY <2>1, <2>2, <2>5
    <3>2. Reaches(k, age, l + 1)
      BY <2>1, <3>1 DEF Reaches
    <3> QED
      BY <3>2 DEF Opens
  <2> QED
    BY <2>3, <2>4, <2>5
<1>7. ASSUME NEW k \in LongKeys, NEW age \in Nat, Loaded(k, age), ~InTransit(l)
      PROVE  Loaded(k, age)'
  <2>1. CASE Leads(reloading.load.levels, k, age)
    BY <1>3, <2>1 DEF Loaded, Leads
  <2>2. CASE Missing(reloading.load.levels, k) /\ Ahead(k, age)
    <3>1. Opens(k, age, l, Tables(l))
      BY <1>1, <1>2, <1>6, <1>7, <2>2 DEF Ahead
    <3>2. Opens(k, age, l, Tables(l))'
      BY <1>1, <3>1 DEF Opens, Reaches, Stands, Standing, Chunk, Bins, Out, OutName, Tables, vars
    <3>3. Ahead(k, age)'
      BY <1>1, <1>3, <3>2 DEF Ahead, Opens, Reaches, Tables, vars
    <3>4. Missing(reloading.load.levels, k)'
      BY <1>3, <2>2 DEF Missing
    <3> QED
      BY <3>3, <3>4 DEF Loaded
  <2> QED
    BY <1>7, <2>1, <2>2 DEF Loaded
<1>8. LoadOK'
  <2>1. /\ \A m \in NumLevels : m >= l => reloading.load.levels[m] = {}
        /\ reloading.load.calm =>
             \A k \in LongKeys, age \in Nat :
               reloading.load.asOf[k] # Absent /\ age = reloading.load.asOf[k].by => Loaded(k, age)
    BY <1>1, <1>2 DEF ReloadInv, LoadOK
  <2>2. Tabled(reloading.listed, reloading.next)'
    BY <1>1, <1>3, <1>5 DEF Tabled, Tables, vars
  <2> QED
    BY <1>3, <1>7, <2>1, <2>2 DEF LoadOK
<1> QED
  BY <1>4, <1>8 DEF ReloadInv

\* Where no two tables are of the same second all of them are in the map.
LEMMA AllMapped ==
  ASSUME FilesPerSecond = 1, NEW opened, IsFiniteSet(opened),
         \A t \in opened : t.created \in Nat,
         \A t, u \in opened : t.created = u.created => t = u,
         NEW map \in FileMaps(opened)
  PROVE  map = opened
<1> DEFINE alike(t) == {u \in opened : MetaData(u) = MetaData(t)}
           same == {alike(t) : t \in opened}
           f == [t \in opened |-> alike(t)]
<1>1. \A t \in opened : Second(t) = t.created
  BY DEF Second
<1>2. \A t, u \in opened : MetaData(t) = MetaData(u) => t = u
  BY <1>1 DEF MetaData
<1>3. \A t \in opened : alike(t) = {t}
  BY <1>2
<1>4. f \in Surjection(opened, same) /\ f \in Injection(opened, same)
  <2>1. f \in [opened -> same]
    OBVIOUS
  <2>2. \A t, u \in opened : f[t] = f[u] => t = u
    BY <1>3
  <2>3. \A s \in same : \E t \in opened : f[t] = s
    OBVIOUS
  <2> HIDE DEF f, same
  <2> QED
    BY <2>1, <2>2, <2>3 DEF Injection, IsInjective, Surjection
<1>5. Cardinality(same) = Cardinality(opened)
  <2> HIDE DEF f, same
  <2> QED
    BY <1>4, FS_Surjection
<1> QED
  BY <1>5 DEF FileMaps

\* What opening a whole file gets.
TableOf(p) == [data |-> files[p].data, created |-> files[p].created]

LEMMA OpensAll ==
  ASSUME FilesPerSecond = 1, TypeInv, StoreInv, ReloadOpens
  PROVE  /\ reloading.listed \subseteq DOMAIN files
         /\ \E tables, calm :
              /\ calm => /\ reloading.load.calm
                         /\ tables = {TableOf(p) : p \in reloading.listed}
              /\ \/ /\ reloading.next = Levels + 1
                    /\ snapshot' = Filled(tables, calm)
                    /\ reloading' = NoReload
                 \/ /\ reloading.next # Levels + 1
                    /\ snapshot' = snapshot
                    /\ reloading' = [NoReload EXCEPT !.phase = "list",
                                                     !.load = Filled(tables, calm),
                                                     !.next = reloading.next + 1]
<1>1. reloading.listed \subseteq DOMAIN files
  BY DEF ReloadOpens
<1>2. PICK tables \in SUBSET Table, calm \in BOOLEAN :
        /\ \E got : /\ \A p \in reloading.listed : got[p] \in Opened(p)
                    /\ tables \in FileMaps({got[p] : p \in reloading.listed})
        /\ calm <=> reloading.load.calm /\ \A p \in reloading.listed : files[p].form # "growing"
        /\ \/ /\ reloading.next = Levels + 1
              /\ snapshot' = Filled(tables, calm)
              /\ reloading' = NoReload
           \/ /\ reloading.next # Levels + 1
              /\ snapshot' = snapshot
              /\ reloading' = [NoReload EXCEPT !.phase = "list", !.load = Filled(tables, calm),
                                               !.next = reloading.next + 1]
  BY OpensStep
<1>3. ASSUME calm
      PROVE  tables = {TableOf(p) : p \in reloading.listed}
  <2>1. PICK got : /\ \A p \in reloading.listed : got[p] \in Opened(p)
                   /\ tables \in FileMaps({got[p] : p \in reloading.listed})
    BY <1>2
  <2>2. \A p \in reloading.listed : got[p] = TableOf(p)
    BY <1>2, <1>3, <2>1 DEF Opened, TableOf
  <2> DEFINE opened == {TableOf(p) : p \in reloading.listed}
  <2>3. {got[p] : p \in reloading.listed} = opened
    BY <2>2
  <2>4. IsFiniteSet(opened)
    <3>1. IsFiniteSet(reloading.listed)
      BY <1>1, FS_Subset DEF TypeInv, Types, Directory
    <3> DEFINE f == [p \in reloading.listed |-> TableOf(p)]
    <3>2. f \in Surjection(reloading.listed, opened)
      <4>1. f \in [reloading.listed -> opened]
        OBVIOUS
      <4>2. \A t \in opened : \E p \in reloading.listed : f[p] = t
        OBVIOUS
      <4> HIDE DEF f, opened
      <4> QED
        BY <4>1, <4>2 DEF Surjection
    <3> HIDE DEF f, opened
    <3> QED
      BY <3>1, <3>2, FS_Surjection
  <2>5. \A p \in reloading.listed : TableOf(p).created = files[p].created
    BY DEF TableOf
  <2>6. \A t \in opened : t.created \in Nat
    BY <1>1, <2>5 DEF TypeInv, Types, Directory, FileRecords
  <2>7. \A t, u \in opened : t.created = u.created => t = u
    BY <1>1, <2>5 DEF TypeInv, Types, Directory
  <2>8. tables \in FileMaps(opened)
    BY <2>1, <2>3
  <2> HIDE DEF opened
  <2>9. tables = opened
    BY <2>4, <2>6, <2>7, <2>8, AllMapped
  <2> QED
    BY <2>9 DEF opened
<1> QED
  BY <1>1, <1>2, <1>3

\* A table of an upper level has a newer entry than what stands further down.
LEMMA UpperNewer ==
  ASSUME Known, NEW k \in LongKeys, NEW age, NEW p, Stands(p, k, age),
         NEW q \in Bins(files), q[1] < p[1], files[q].data[k] # Absent
  PROVE  files[q].data[k].by > files[p].data[k].by
<1>1. k \in Keys /\ p \in DOMAIN files /\ files[p].data[k] # Absent
  BY DEF LongKeys, Stands
<1>2. CASE p \in Bins(files)
  <2>1. After(files[q].data, files[p].data)
    BY <1>2 DEF Known, LayerInv, Layered, Before
  <2> QED
    BY <1>1, <2>1 DEF After
<1>3. CASE p \notin Bins(files)
  <2>1. PICK x \in Items : Chunk(x) /\ p = Path(level, x)
    BY <1>3 DEF Stands, Standing
  <2>2. p[1] = level /\ level \in Int /\ q[1] \in Int
    BY <2>1, PathExtension DEF Known, TypeInv, Types, Directory, Paths, Bins
  <2>3. ~IsTarget(q) /\ q[1] <= level
    BY <2>2, PathExtension DEF IsTarget
  <2>4. After(files[q].data, At(x).data)
    BY <2>1, <2>3 DEF Known, LayerInv, ChunksOK, ChunkOK, InPlace
  <2> QED
    BY <1>1, <2>1, <2>4 DEF After, At
<1> QED
  BY <1>2, <1>3

\* The tables opened from a level bring what was ahead, or it is further down still.
LEMMA LevelLoaded ==
  ASSUME Known, NEW levels, NEW k \in LongKeys, NEW age \in Nat, NEW l \in NumLevels, NEW listed,
         listed \subseteq DOMAIN files, Tabled(listed, l), Opens(k, age, l, listed),
         levels[l] = {TableOf(p) : p \in listed},
         \A m \in NumLevels : m # l => \A t \in levels[m] : t.data[k] = Absent
  PROVE  \/ Leads(levels, k, age)
         \/ Missing(levels, k) /\ Reaches(k, age, l + 1)
<1>1. \A p \in listed : /\ p \in Bins(files) /\ p[1] = l
                        /\ TableOf(p).data = files[p].data
                        /\ TableOf(p).created = files[p].created
  BY DEF Tabled, Bins, TableOf
<1>2. ASSUME NEW p \in Bins(files), files[p].data[k] # Absent
      PROVE  files[p].data[k].by \in Int /\ files[p].created \in Int
  <2>1. files[p].data[k] \in Entry
    BY <1>2, FileContent DEF Bins, Known, LongKeys, Content
  <2> QED
    BY <2>1, FileContent DEF Entry, Bins, Known
<1>3. ASSUME NEW p \in listed, files[p].data[k] # Absent,
             \A q \in listed : files[q].data[k] # Absent /\ files[q].created >= files[p].created
               => files[q].data[k].by >= age
      PROVE  Leads(levels, k, age)
  <2> DEFINE t == TableOf(p)
  <2>1. t \in levels[l]
    OBVIOUS
  <2>2. files[p].created >= files[p].created
    BY <1>1, <1>2, <1>3
  <2>3. t.data[k] # Absent /\ t.data[k].by >= age
    BY <1>1, <1>3, <2>2
  <2>4. ASSUME NEW m \in NumLevels, NEW u \in levels[m], u.data[k] # Absent,
               m < l \/ (m = l /\ u.created >= t.created)
        PROVE  u.data[k].by >= age
    <3>1. m = l
      BY <2>4
    <3>2. PICK q \in listed : u = TableOf(q)
      BY <2>4, <3>1
    <3>3. l \in Int
      BY DEF NumLevels
    <3>4. files[q].created >= files[p].created
      BY <1>1, <2>4, <3>1, <3>2, <3>3
    <3> QED
      BY <1>1, <1>3, <2>4, <3>2, <3>4
  <2> HIDE DEF t
  <2> QED
    BY <2>1, <2>3, <2>4 DEF Leads
<1>4. CASE \E p \in listed : Stands(p, k, age)
  <2>1. PICK p \in listed : Stands(p, k, age)
    BY <1>4
  <2>2. files[p].data[k] # Absent /\ files[p].data[k].by >= age
    BY <2>1 DEF Stands
  <2>3. ASSUME NEW q \in listed, files[q].data[k] # Absent,
               files[q].created >= files[p].created
        PROVE  files[q].data[k].by >= age
    <3>1. CASE files[q].created = files[p].created
      <4>1. q = p
        BY <3>1 DEF Known, TypeInv, Types, Directory
      <4> QED
        BY <2>2, <4>1
    <3>2. CASE files[q].created # files[p].created
      <4>1. files[q].created > files[p].created
        BY <1>1, <1>2, <2>2, <2>3, <3>2
      <4>2. After(files[q].data, files[p].data)
        BY <1>1, <4>1 DEF Known, LayerInv, Layered, Before
      <4>3. files[q].data[k].by > files[p].data[k].by
        BY <2>2, <2>3, <4>2 DEF After, LongKeys
      <4> QED
        BY <1>1, <1>2, <2>2, <2>3, <4>3
    <3> QED
      BY <3>1, <3>2
  <2> QED
    BY <1>3, <2>2, <2>3
<1>5. CASE Reaches(k, age, l + 1)
  <2>1. PICK p \in DOMAIN files : Stands(p, k, age) /\ p[1] >= l + 1
    BY <1>5 DEF Reaches
  <2>2. p[1] \in Int /\ l \in Int /\ p[1] > l
    BY <2>1 DEF NumLevels, Known, TypeInv, Types, Directory, Paths
  <2>3. ASSUME NEW q \in listed, files[q].data[k] # Absent
        PROVE  files[q].data[k].by >= age
    <3>1. files[q].data[k].by > files[p].data[k].by
      BY <1>1, <2>1, <2>2, <2>3, UpperNewer
    <3>2. files[p].data[k].by \in Int /\ files[p].data[k].by >= age
      <4>1. files[p].data[k] \in Entry
        BY <2>1, FileContent DEF Stands, Known, LongKeys, Content
      <4> QED
        BY <2>1, <4>1 DEF Stands, Entry
    <3> QED
      BY <1>1, <1>2, <2>3, <3>1, <3>2
  <2>4. CASE \E q \in listed : files[q].data[k] # Absent
    BY <1>3, <2>3, <2>4
  <2>5. CASE \A q \in listed : files[q].data[k] = Absent
    <3>1. \A t \in levels[l] : t.data[k] = Absent
      BY <1>1, <2>5
    <3> QED
      BY <1>5, <3>1 DEF Missing
  <2> QED
    BY <2>4, <2>5
<1> QED
  BY <1>4, <1>5 DEF Opens

\* There is nothing below the last level.
LEMMA LastLevel ==
  ASSUME TypeInv, NEW k, NEW age
  PROVE  ~Reaches(k, age, Levels + 2)
<1> SUFFICES ASSUME NEW p \in DOMAIN files, p[1] >= Levels + 2
             PROVE  FALSE
  BY DEF Reaches
<1>1. p[1] \in 1..(Levels + 1)
  BY DEF TypeInv, Types, Directory, Paths
<1> QED
  BY <1>1, LevelsAssumption

LEMMA OpensWell ==
  ASSUME FilesPerSecond = 1, Known, StoreInv, ReloadInv, ReloadOpens
  PROVE  ReloadInv'
<1>1. UNCHANGED vars /\ reloading.phase = "open" /\ reloading.listed \subseteq DOMAIN files
  BY DEF ReloadOpens
<1>2. PICK tables, calm :
        /\ calm => /\ reloading.load.calm
                   /\ tables = {TableOf(p) : p \in reloading.listed}
        /\ \/ /\ reloading.next = Levels + 1
              /\ snapshot' = Filled(tables, calm)
              /\ reloading' = NoReload
           \/ /\ reloading.next # Levels + 1
              /\ snapshot' = snapshot
              /\ reloading' = [NoReload EXCEPT !.phase = "list", !.load = Filled(tables, calm),
                                               !.next = reloading.next + 1]
  BY OpensAll DEF Known
<1>3. PICK load : load = Filled(tables, calm)
  OBVIOUS
<1>4. PICK l \in NumLevels : l = reloading.next
  BY DEF StoreInv, Loads
<1>5. /\ load.asOf = reloading.load.asOf /\ load.calm = calm /\ load.levels[l] = tables
      /\ \A m \in NumLevels : m # l => load.levels[m] = reloading.load.levels[m]
  BY <1>3, <1>4, FilledIs
<1>6. l \in Int /\ \A m \in NumLevels : m \in Int
  BY DEF NumLevels
<1>7. \A m \in NumLevels : m >= l => reloading.load.levels[m] = {}
  BY <1>1, <1>4 DEF ReloadInv, LoadOK
<1>8. ASSUME calm, NEW k \in LongKeys, NEW age \in Nat, load.asOf[k] # Absent,
             age = load.asOf[k].by
      PROVE  \/ Leads(load.levels, k, age)
             \/ Missing(load.levels, k) /\ Reaches(k, age, l + 1)
  <2>1. Loaded(k, age)
    BY <1>1, <1>2, <1>5, <1>8 DEF ReloadInv, LoadOK
  <2>2. CASE Leads(reloading.load.levels, k, age)
    <3>1. PICK m \in NumLevels : \E t \in reloading.load.levels[m] :
            /\ t.data[k] # Absent /\ t.data[k].by >= age
            /\ \A n \in NumLevels : \A u \in reloading.load.levels[n] :
                 u.data[k] # Absent /\ (n < m \/ (n = m /\ u.created >= t.created))
                   => u.data[k].by >= age
      BY <2>2 DEF Leads
    <3>2. m < l
      <4>1. reloading.load.levels[m] # {}
        BY <3>1
      <4>2. ~(m >= l)
        BY <1>7, <4>1
      <4> QED
        BY <1>6, <4>2
    <3>3. \A n \in NumLevels : n < m \/ n = m => load.levels[n] = reloading.load.levels[n]
      BY <1>5, <1>6, <3>2
    <3>4. PICK t \in load.levels[m] :
            /\ t.data[k] # Absent /\ t.data[k].by >= age
            /\ \A n \in NumLevels : \A u \in reloading.load.levels[n] :
                 u.data[k] # Absent /\ (n < m \/ (n = m /\ u.created >= t.created))
                   => u.data[k].by >= age
      BY <3>1, <3>3
    <3> QED
      BY <3>3, <3>4 DEF Leads
  <2>3. CASE Missing(reloading.load.levels, k) /\ Ahead(k, age)
    <3>1. Opens(k, age, l, reloading.listed) /\ Tabled(reloading.listed, l)
      BY <1>1, <1>4, <2>3 DEF Ahead, ReloadInv, LoadOK
    <3>2. \A m \in NumLevels : m # l => \A t \in load.levels[m] : t.data[k] = Absent
      BY <1>5, <2>3 DEF Missing
    <3>3. load.levels[l] = {TableOf(p) : p \in reloading.listed}
      BY <1>2, <1>5, <1>8
    <3> QED
      BY <1>1, <3>1, <3>2, <3>3, LevelLoaded
  <2> QED
    BY <2>1, <2>2, <2>3 DEF Loaded
<1>9. CASE l = Levels + 1
  <2>1. snapshot' = load /\ reloading' = NoReload
    BY <1>2, <1>3, <1>4, <1>9
  <2>2. LoadOK'
    BY <2>1 DEF LoadOK, NoReload
  <2>3. l + 1 = Levels + 2
    BY <1>9, LevelsAssumption
  <2>4. SnapshotOK'
    BY <1>5, <1>8, <2>1, <2>3, LastLevel DEF SnapshotOK, Known
  <2> QED
    BY <2>2, <2>4 DEF ReloadInv
<1>10. CASE l # Levels + 1
  <2>1. /\ snapshot' = snapshot
        /\ reloading' = [NoReload EXCEPT !.phase = "list", !.load = load, !.next = l + 1]
    BY <1>2, <1>3, <1>4, <1>10
  <2>2. reloading'.phase = "list" /\ reloading'.load = load /\ reloading'.next = l + 1
    BY <2>1 DEF NoReload
  <2>3. SnapshotOK'
    BY <2>1 DEF ReloadInv, SnapshotOK
  <2>4. \A m \in NumLevels : m >= l + 1 => load.levels[m] = {}
    <3>1. \A m \in NumLevels : m >= l + 1 => m # l /\ m >= l
      BY <1>6
    <3> QED
      BY <1>5, <1>7, <3>1
  <2>5. ASSUME calm, NEW k \in LongKeys, NEW age \in Nat, load.asOf[k] # Absent,
               age = load.asOf[k].by
        PROVE  Loaded(k, age)'
    <3>1. CASE Leads(load.levels, k, age)
      BY <2>2, <3>1 DEF Loaded, Leads
    <3>2. CASE Missing(load.levels, k) /\ Reaches(k, age, l + 1)
      <4>1. Reaches(k, age, l + 1)'
        BY <1>1, <3>2 DEF Reaches, Stands, Standing, Chunk, Bins, Out, OutName, vars
      <4>2. Ahead(k, age)'
        BY <2>2, <4>1 DEF Ahead, Reaches
      <4>3. Missing(reloading.load.levels, k)'
        BY <2>2, <3>2 DEF Missing
      <4> QED
        BY <4>2, <4>3 DEF Loaded
    <3> QED
      BY <1>8, <2>5, <3>1, <3>2
  <2>6. LoadOK'
    BY <1>5, <2>2, <2>4, <2>5 DEF LoadOK
  <2> QED
    BY <2>3, <2>6 DEF ReloadInv
<1> QED
  BY <1>9, <1>10

LEMMA NextReload ==
  ASSUME FilesPerSecond = 1, Known, StoreInv, ReloadInv, [StoreNext]_storeVars
  PROVE  ReloadInv'
<1>1. CASE Reloads
  <2>1. CASE ReloadFails
    <3>1. snapshot' = snapshot /\ reloading'.phase = "none"
      BY <2>1 DEF ReloadFails, NoReload
    <3> QED
      BY <3>1 DEF ReloadInv, LoadOK, SnapshotOK
  <2> QED
    BY <1>1, <2>1, BeginsWell, ListsWell, OpensWell DEF Reloads
<1>2. CASE ~Reloads
  <2>1. UNCHANGED <<snapshot, reloading>>
    BY <1>2 DEF StoreNext, Write, FlushStarts, FlushDone, Coordinates, SpawnReload,
       GetMissesMemory, GetFromDisk, readVars, storeVars
  <2> QED
    BY <2>1, StoreStep, ElsewhereOn
<1> QED
  BY <1>1, <1>2

LEMMA InitReload == StoreInit => ReloadInv
<1> SUFFICES ASSUME StoreInit
             PROVE  ReloadInv
  OBVIOUS
<1>1. snapshot = NoTables /\ reloading.phase = "none"
  BY DEF StoreInit, NoReload
<1>2. \A k \in LongKeys : snapshot.asOf[k] = Absent
  BY <1>1 DEF NoTables, NoContent, LongKeys
<1> QED
  BY <1>1, <1>2 DEF ReloadInv, LoadOK, SnapshotOK

-----------------------------------------------------------------------------
(* What the reader answers after it                                        *)

LEMMA LeadsAnswers ==
  ASSUME FilesPerSecond = 1, NEW levels \in [NumLevels -> SUBSET Table], NEW k \in Keys,
         NEW age \in Nat, Leads(levels, k, age), NEW a \in Answers(levels, k)
  PROVE  Age(a) >= age
<1> DEFINE hits(l) == {t \in levels[l] : t.data[k] # Absent}
           hitting == {l \in NumLevels : hits(l) # {}}
           least == CHOOSE l \in hitting : \A m \in hitting : l <= m
<1>1. PICK l \in NumLevels : \E t \in levels[l] :
        /\ t.data[k] # Absent /\ t.data[k].by >= age
        /\ \A m \in NumLevels : \A u \in levels[m] :
             u.data[k] # Absent /\ (m < l \/ (m = l /\ u.created >= t.created))
               => u.data[k].by >= age
  BY DEF Leads
<1>2. PICK t \in levels[l] :
        /\ t.data[k] # Absent /\ t.data[k].by >= age
        /\ \A m \in NumLevels : \A u \in levels[m] :
             u.data[k] # Absent /\ (m < l \/ (m = l /\ u.created >= t.created))
               => u.data[k].by >= age
  BY <1>1
<1>3. l \in hitting /\ hitting \in SUBSET Nat
  BY <1>2, LevelsAssumption DEF NumLevels
<1>4. least \in hitting /\ least <= l
  <2>1. \E n \in hitting : \A m \in hitting : n <= m
    BY <1>3, LeastNatural
  <2> HIDE DEF hitting
  <2> QED
    BY <1>3, <2>1
<1>5. PICK u \in hits(least) : a = u.data[k] /\ \A v \in hits(least) : Second(v) <= Second(u)
  BY <1>3 DEF Answers
<1> HIDE DEF least
<1>6. u \in levels[least] /\ u.data[k] # Absent /\ least \in NumLevels
  BY <1>4, <1>5
<1>7. least < l \/ (least = l /\ u.created >= t.created)
  <2>1. CASE least = l
    <3>1. Second(t) <= Second(u)
      BY <1>2, <1>5, <2>1
    <3>2. u.created \in Nat /\ t.created \in Nat
      BY <1>6 DEF Table
    <3>3. Second(t) = t.created /\ Second(u) = u.created
      BY <3>2 DEF Second
    <3> QED
      BY <2>1, <3>1, <3>2, <3>3
  <2>2. CASE least # l
    <3>1. least \in Int /\ l \in Int
      BY <1>6 DEF NumLevels
    <3> QED
      BY <1>4, <2>2, <3>1
  <2> QED
    BY <2>1, <2>2
<1>8. u.data[k].by >= age
  BY <1>2, <1>6, <1>7
<1> QED
  BY <1>5, <1>6, <1>8 DEF Age

LEMMA NothingLost ==
  ASSUME FilesPerSecond = 1, ShortKeys = {}, TypeInv, StoreInv, SnapshotOK
  PROVE  ReloadLosesNothing
<1> SUFFICES ASSUME snapshot.calm, NEW k \in Keys, NEW a \in Answers(snapshot.levels, k)
             PROVE  Age(a) >= Age(snapshot.asOf[k])
  BY DEF ReloadLosesNothing, AnswersAsNew
<1>1. snapshot.levels \in [NumLevels -> SUBSET Table]
  BY DEF StoreInv, Snapshot
<1>2. snapshot.asOf[k] \in Entry \cup {Absent}
  BY Contents, ContentAt
<1>3. CASE snapshot.asOf[k] = Absent
  <2>1. a \in Entry \cup {Absent}
    BY <1>1, AnswersAre
  <2> QED
    BY <1>3, <2>1, EntryAge
<1>4. CASE snapshot.asOf[k] # Absent
  <2>1. PICK age \in Nat : age = snapshot.asOf[k].by /\ age = Age(snapshot.asOf[k])
    BY <1>2, <1>4, EntryAge
  <2>2. Leads(snapshot.levels, k, age)
    BY <1>4, <2>1 DEF SnapshotOK, LongKeys
  <2> QED
    BY <1>1, <2>1, <2>2, LeadsAnswers
<1> QED
  BY <1>3, <1>4

LEMMA AlwaysKnown ==
  Faults = {} => (StoreSpec /\ [](NamesFresh /\ Fits) => []Known)
<1> SUFFICES ASSUME Faults = {}
             PROVE  StoreSpec /\ [](NamesFresh /\ Fits) => []Known
  OBVIOUS
<1>1. WholeReads
  BY DEF WholeReads
<1>2. Spec /\ [](NamesFresh /\ Fits) => []ErasureInv
  BY <1>1, FittingErasure
<1>3. Spec => []Ordered
  BY <1>1, AlwaysOrdered
<1>4. Spec /\ [](NamesFresh /\ Fits) => []ViewInv
  BY AlwaysView
<1>5. TypeInv /\ Ordered /\ ErasureInv /\ LayerInv /\ ViewInv /\ NamesFresh => Known
  BY DEF Known
<1> QED
  BY <1>2, <1>3, <1>4, <1>5, AlwaysLayers, AlwaysTyped, StoreIsCompaction, PTL

\* As long as nothing fails, no file name repeats, every compaction takes its level
\* in one unit and no two files are of the same second, what was flushed before a
\* reload began is found after it, or something newer, whatever the flushes and the
\* coordinator do between its steps.
THEOREM ReloadsLoseNothing ==
  FilesPerSecond = 1 /\ Faults = {} /\ ShortKeys = {}
  => (StoreSpec /\ [](NamesFresh /\ Fits) => []ReloadLosesNothing)
<1> SUFFICES ASSUME FilesPerSecond = 1, Faults = {}, ShortKeys = {}
             PROVE  StoreSpec /\ [](NamesFresh /\ Fits) => []ReloadLosesNothing
  OBVIOUS
<1>1. Known /\ StoreInv /\ ReloadInv /\ [StoreNext]_storeVars => ReloadInv'
  BY NextReload
<1>2. TypeInv /\ StoreInv /\ ReloadInv => ReloadLosesNothing
  BY NothingLost DEF ReloadInv
<1>3. StoreSpec /\ [](NamesFresh /\ Fits) => []Known
  BY AlwaysKnown
<1> QED
  BY <1>1, <1>2, <1>3, InitReload, StoreAlwaysTyped, StoreTyped, PTL DEF StoreSpec

\* Under the same conditions a Get that begins with an up-to-date reader answers
\* with a value its key had meanwhile.
THEOREM GetsAreAtomic ==
  FilesPerSecond = 1 /\ Faults = {} /\ ShortKeys = {}
  => (StoreSpec /\ [](NamesFresh /\ Fits) => []GetIsAtomic)
<1> SUFFICES ASSUME FilesPerSecond = 1, Faults = {}, ShortKeys = {}
             PROVE  StoreSpec /\ [](NamesFresh /\ Fits) => []GetIsAtomic
  OBVIOUS
<1>1. StoreSpec /\ [](NamesFresh /\ Fits) => []ReloadLosesNothing
  BY ReloadsLoseNothing
<1> QED
  BY <1>1, GetAtomic, PTL

\* Through the first compaction after the start, of at most one unit, both hold
\* without any assumption on the names.
THEOREM FirstReadsHold ==
  /\ MaxCompactions <= 1 /\ MaxFlushes <= TargetChunks
  /\ FilesPerSecond = 1 /\ Faults = {} /\ ShortKeys = {}
  => (StoreSpec => []ReloadLosesNothing /\ []GetIsAtomic)
<1> SUFFICES ASSUME MaxCompactions <= 1, MaxFlushes <= TargetChunks,
                    FilesPerSecond = 1, Faults = {}, ShortKeys = {}
             PROVE  StoreSpec => []ReloadLosesNothing /\ []GetIsAtomic
  OBVIOUS
<1>1. TypeInv /\ FirstInv => NamesFresh /\ Fits
  BY FirstNamesFresh, FirstFits DEF FirstInv
<1>2. StoreSpec /\ [](NamesFresh /\ Fits) => []ReloadLosesNothing
  BY ReloadsLoseNothing
<1>3. StoreSpec => []FirstInv
  <2>1. Spec => []FirstInv
    BY AlwaysFirst
  <2> QED
    BY <2>1, StoreIsCompaction, PTL
<1> QED
  BY <1>1, <1>2, <1>3, GetAtomic, StoreTyped, PTL
=============================================================================
