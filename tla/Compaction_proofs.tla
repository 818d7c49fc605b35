-------------------------- MODULE Compaction_proofs --------------------------
(***************************************************************************)
(* What holds of the coordinator for every set of keys, every number of    *)
(* levels, size of units and bound, whatever fails and wherever the        *)
(* process ends: types, and with them that no step looks for a file that   *)
(* is not there; and that the passes of a unit keep the order of its       *)
(* tables.  That nothing is erased is in CompactionErasure_proofs.         *)
(***************************************************************************)
EXTENDS Compaction, FiniteSetTheorems, TLAPS

Names == {<<"table", n>> : n \in Nat} \cup {<<"unit", a, b, c>> : a, b, c \in Nat}
Exts == {"bin", "tmp", "drain"}
Items == Names \X Exts
Paths == (1..(Levels + 1)) \X Names \X Exts

\* Any output of a join.
Tmp(a, b, c) == <<<<"unit", a, b, c>>, "tmp">>

\* A file the item stands for is there.
Has(item) == Path(level, item) \in DOMAIN files

FileRecords(t) == [data : Content, created : 1..(t - 1), form : Forms]

\* A directory tree with files created before t, each at a time of its own.
Directory(fs, t) ==
  /\ IsFiniteSet(DOMAIN fs)
  /\ DOMAIN fs \subseteq Paths
  /\ fs \in [DOMAIN fs -> FileRecords(t)]
  /\ \A p, q \in DOMAIN fs : fs[p].created = fs[q].created => p = q

-----------------------------------------------------------------------------
(* Names                                                                   *)

LEMMA PathType ==
  ASSUME NEW l \in 1..(Levels + 1), NEW x \in Items
  PROVE  Path(l, x) \in Paths
BY DEF Path, Items, Paths

LEMMA PathInjective ==
  ASSUME NEW l, NEW m, NEW x \in Items, NEW y \in Items, Path(l, x) = Path(m, y)
  PROVE  l = m /\ x = y
BY DEF Path, Items

LEMMA PathExtension ==
  ASSUME NEW l, NEW x
  PROVE  Path(l, x)[1] = l /\ Path(l, x)[2] = x[1] /\ Path(l, x)[3] = x[2]
BY DEF Path

LEMMA TmpType ==
  ASSUME NEW a \in Nat, NEW b \in Nat, NEW c \in Nat
  PROVE  Tmp(a, b, c) \in Items /\ Tmp(a, b, c)[2] = "tmp"
BY DEF Tmp, Items, Names, Exts

LEMMA TmpInjective ==
  ASSUME NEW a, NEW b, NEW c, NEW d, NEW e, NEW f, Tmp(a, b, c) = Tmp(d, e, f)
  PROVE  a = d /\ b = e /\ c = f
BY DEF Tmp

LEMMA OutIsTmp == Out = Tmp(unit.id, unit.pass, unit.pair)
BY DEF Out, OutName, Tmp

LEMMA DrainedType ==
  ASSUME NEW x \in Items
  PROVE  /\ Drained(x) \in Items
         /\ x[2] = "bin" => Drained(x)[2] = "drain"
         /\ x[2] # "bin" => Drained(x) = x
BY DEF Drained, Items, Exts

LEMMA DrainedInjective ==
  ASSUME NEW x \in Items, NEW y \in Items, x[2] = "bin", y[2] = "bin",
         Drained(x) = Drained(y)
  PROVE  x = y
BY DEF Drained, Items

-----------------------------------------------------------------------------
(* Operations on files                                                     *)

LEMMA LevelRange == level \in 1..Levels => level \in 1..(Levels + 1) /\ level + 1 \in 1..(Levels + 1)
BY LevelsAssumption

LEMMA WithType ==
  ASSUME NEW fs, NEW t \in Nat, Directory(fs, t), NEW p \in Paths,
         NEW file \in FileRecords(t),
         \A q \in DOMAIN fs \ {p} : fs[q].created # file.created
  PROVE  Directory(With(fs, p, file), t)
<1>1. IsFiniteSet(DOMAIN fs \cup {p})
  BY FS_AddElement DEF Directory
<1>2. ASSUME NEW q \in DOMAIN fs
      PROVE  fs[q] \in FileRecords(t)
  BY DEF Directory
<1> QED
  BY <1>1, <1>2 DEF Directory, With

LEMMA WithoutType ==
  ASSUME NEW fs, NEW t \in Nat, Directory(fs, t), NEW ps
  PROVE  Directory(Without(fs, ps), t)
<1>1. IsFiniteSet(DOMAIN fs \ ps)
  BY FS_Difference DEF Directory
<1>2. ASSUME NEW q \in DOMAIN fs
      PROVE  fs[q] \in FileRecords(t)
  BY DEF Directory
<1> QED
  BY <1>1, <1>2 DEF Directory, Without

LEMMA RenameType ==
  ASSUME NEW fs, NEW t \in Nat, Directory(fs, t), NEW from \in DOMAIN fs, NEW to \in Paths
  PROVE  Directory(Rename(fs, from, to), t)
<1>1. fs[from] \in FileRecords(t)
  BY DEF Directory
<1>2. Directory(Without(fs, {from}), t)
  BY WithoutType
<1>3. \A q \in DOMAIN Without(fs, {from}) : Without(fs, {from})[q].created # fs[from].created
  BY DEF Without, Directory
<1> QED
  BY <1>1, <1>2, <1>3, WithType DEF Rename

LEMMA RenameMoves ==
  ASSUME NEW fs, NEW from, NEW to
  PROVE  to \in DOMAIN Rename(fs, from, to) /\ Rename(fs, from, to)[to] = fs[from]
BY DEF Rename, With, Without

LEMMA RenameKeeps ==
  ASSUME NEW fs, NEW from, NEW to, NEW q \in DOMAIN fs, q # from, q # to
  PROVE  q \in DOMAIN Rename(fs, from, to) /\ Rename(fs, from, to)[q] = fs[q]
BY DEF Rename, With, Without

LEMMA RenameOnly ==
  ASSUME NEW fs, NEW from, NEW to, NEW q \in DOMAIN Rename(fs, from, to), q # to
  PROVE  q \in DOMAIN fs /\ q # from /\ Rename(fs, from, to)[q] = fs[q]
BY DEF Rename, With, Without

\* Time goes on.
LEMMA DirectoryLater ==
  ASSUME NEW fs, NEW t \in Nat, NEW u \in Nat, t <= u, Directory(fs, t)
  PROVE  Directory(fs, u)
<1>1. FileRecords(t) \subseteq FileRecords(u)
  BY DEF FileRecords
<1> QED
  BY <1>1 DEF Directory

LEMMA CreateType ==
  ASSUME clock \in Nat \ {0}, NEW fs, Directory(fs, clock), NEW p \in Paths,
         NEW data \in Content, NEW form \in Forms
  PROVE  Directory(Create(fs, p, data, form), IF p \in DOMAIN fs THEN clock ELSE clock + 1)
<1>1. CASE p \in DOMAIN fs
  <2> DEFINE file == File(data, fs[p].created, form)
  <2>1. fs[p] \in FileRecords(clock)
    BY <1>1 DEF Directory
  <2>2. file \in FileRecords(clock) /\ file.created = fs[p].created
    BY <2>1 DEF File, FileRecords
  <2>3. \A q \in DOMAIN fs \ {p} : fs[q].created # file.created
    BY <1>1, <2>2 DEF Directory
  <2> HIDE DEF file
  <2>4. Directory(With(fs, p, file), clock)
    BY <2>2, <2>3, WithType
  <2> QED
    BY <1>1, <2>4 DEF Create, file
<1>2. CASE p \notin DOMAIN fs
  <2> DEFINE file == File(data, clock, form)
  <2>1. file \in FileRecords(clock + 1) /\ file.created = clock
    BY DEF File, FileRecords
  <2>2. \A q \in DOMAIN fs : fs[q].created \in 1..(clock - 1)
    BY DEF Directory, FileRecords
  <2>3. \A q \in DOMAIN fs \ {p} : fs[q].created # file.created
    BY <2>1, <2>2
  <2>4. Directory(fs, clock + 1)
    BY DirectoryLater
  <2> HIDE DEF file
  <2>5. Directory(With(fs, p, file), clock + 1)
    BY <2>1, <2>3, <2>4, WithType
  <2> QED
    BY <1>2, <2>5 DEF Create, file
<1> QED
  BY <1>1, <1>2

LEMMA CreateMakes ==
  ASSUME NEW fs, NEW p, NEW data, NEW form
  PROVE  /\ p \in DOMAIN Create(fs, p, data, form)
         /\ Create(fs, p, data, form)[p].data = data
         /\ Create(fs, p, data, form)[p].form = form
BY DEF Create, With, File

LEMMA CreateKeeps ==
  ASSUME NEW fs, NEW p, NEW data, NEW form, NEW q \in DOMAIN fs, q # p
  PROVE  q \in DOMAIN Create(fs, p, data, form) /\ Create(fs, p, data, form)[q] = fs[q]
BY DEF Create, With

LEMMA CreateOnly ==
  ASSUME NEW fs, NEW p, NEW data, NEW form, NEW q \in DOMAIN Create(fs, p, data, form), q # p
  PROVE  q \in DOMAIN fs /\ Create(fs, p, data, form)[q] = fs[q]
BY DEF Create, With

LEMMA TickType ==
  ASSUME clock \in Nat \ {0}, NEW p
  PROVE  Tick(p) \in Nat \ {0} /\ Tick(p) >= clock
BY DEF Tick

LEMMA DrainOneType ==
  ASSUME level \in 1..Levels, NEW fs, NEW t \in Nat, Directory(fs, t), NEW x \in Items,
         Path(level, x) \in DOMAIN fs
  PROVE  Directory(DrainOne(fs, x), t)
<1>1. Path(level, Drained(x)) \in Paths
  BY LevelRange, DrainedType, PathType
<1> QED
  BY <1>1, RenameType DEF DrainOne

\* The file goes from the one name to the other; nothing else changes.
LEMMA DrainOneMoves ==
  ASSUME NEW fs, NEW x \in Items, Path(level, x) \in DOMAIN fs
  PROVE  /\ Path(level, Drained(x)) \in DOMAIN DrainOne(fs, x)
         /\ DrainOne(fs, x)[Path(level, Drained(x))] = fs[Path(level, x)]
<1>1. CASE x[2] = "bin"
  BY <1>1, RenameMoves DEF DrainOne
<1>2. CASE x[2] # "bin"
  BY <1>2, DrainedType DEF DrainOne
<1> QED
  BY <1>1, <1>2

LEMMA DrainOneKeeps ==
  ASSUME NEW fs, NEW x, NEW q \in DOMAIN fs,
         x[2] = "bin" => q # Path(level, x) /\ q # Path(level, Drained(x))
  PROVE  q \in DOMAIN DrainOne(fs, x) /\ DrainOne(fs, x)[q] = fs[q]
BY RenameKeeps DEF DrainOne

LEMMA DrainOneOnly ==
  ASSUME NEW fs, NEW x, NEW q \in DOMAIN DrainOne(fs, x),
         x[2] = "bin" => q # Path(level, Drained(x))
  PROVE  /\ q \in DOMAIN fs
         /\ x[2] = "bin" => q # Path(level, x)
         /\ DrainOne(fs, x)[q] = fs[q]
BY RenameOnly DEF DrainOne

-----------------------------------------------------------------------------
(* The listing of a level and its units                                    *)

Found == {<<p[2], p[3]>> : p \in Tables(level)}
Newer(x) == {y \in Found : At(y).created > At(x).created}

LEMMA FoundTables ==
  ASSUME Directory(files, clock), NEW x \in Found
  PROVE  x \in Items /\ x[2] = "bin" /\ Has(x)
BY DEF Found, Tables, Directory, Paths, Items, Has, Path

LEMMA FoundFinite ==
  ASSUME Directory(files, clock)
  PROVE  IsFiniteSet(Found)
<1> DEFINE f == [x \in Found |-> Path(level, x)]
<1>1. f \in Injection(Found, DOMAIN files)
  <2>1. \A x \in Found : f[x] \in DOMAIN files
    BY FoundTables DEF Has
  <2>2. ASSUME NEW x \in Found, NEW y \in Found, f[x] = f[y]
        PROVE  x = y
    BY <2>2, FoundTables, PathInjective
  <2> QED
    BY <2>1, <2>2 DEF Injection, IsInjective
<1> QED
  BY <1>1, FS_Injection DEF Directory

LEMMA NewerFinite ==
  ASSUME Directory(files, clock), NEW x \in Found
  PROVE  /\ IsFiniteSet(Newer(x))
         /\ Cardinality(Newer(x)) \in 0..(Cardinality(Found) - 1)
<1>1. Newer(x) \subseteq Found \ {x}
  <2>1. x \notin Newer(x)
    <3>1. At(x).created \in Int
      BY FoundTables DEF Has, At, Directory, FileRecords
    <3> QED
      BY <3>1 DEF Newer
  <2> QED
    BY <2>1 DEF Newer
<1>2. /\ IsFiniteSet(Found \ {x})
      /\ Cardinality(Found \ {x}) = Cardinality(Found) - 1
  BY FoundFinite, FS_RemoveElement
<1>3. /\ IsFiniteSet(Newer(x))
      /\ Cardinality(Newer(x)) <= Cardinality(Found \ {x})
  BY <1>1, <1>2, FS_Subset
<1> QED
  BY <1>2, <1>3, FS_CardinalityType, FoundFinite

\* The fewer newer ones a table has, the newer it is.
LEMMA NewerCounts ==
  ASSUME Directory(files, clock), NEW x \in Found, NEW y \in Found,
         At(x).created > At(y).created
  PROVE  Cardinality(Newer(x)) < Cardinality(Newer(y))
<1>1. /\ At(x).created \in Int
      /\ At(y).created \in Int
      /\ \A z \in Found : At(z).created \in Int
  BY FoundTables DEF Has, At, Directory, FileRecords
<1>2. Newer(x) \subseteq Newer(y) /\ x \in Newer(y) /\ x \notin Newer(x)
  BY <1>1 DEF Newer
<1>3. /\ Cardinality(Newer(x)) <= Cardinality(Newer(y))
      /\ Cardinality(Newer(y)) = Cardinality(Newer(x)) => Newer(y) = Newer(x)
  BY <1>2, NewerFinite, FS_Subset
<1> QED
  BY <1>2, <1>3, NewerFinite

LEMMA NewerRanks ==
  ASSUME Directory(files, clock), NEW i \in 1..Cardinality(Found)
  PROVE  \E x \in Found : Cardinality(Newer(x)) = i - 1
<1> DEFINE n == Cardinality(Found)
           rank == [x \in Found |-> Cardinality(Newer(x))]
<1>1. n \in Nat
  BY FoundFinite, FS_CardinalityType
<1>2. rank \in Injection(Found, 0..(n - 1))
  <2>1. \A x \in Found : rank[x] \in 0..(n - 1)
    BY NewerFinite
  <2>2. ASSUME NEW x \in Found, NEW y \in Found, rank[x] = rank[y]
        PROVE  x = y
    <3>1. At(x).created \in Int /\ At(y).created \in Int
      BY FoundTables DEF Has, At, Directory, FileRecords
    <3>2. At(x).created = At(y).created
      BY <2>2, <3>1, NewerCounts, NewerFinite
    <3> QED
      BY <3>2, FoundTables, PathInjective DEF Has, At, Directory
  <2> QED
    BY <2>1, <2>2 DEF Injection, IsInjective
<1>3. IsFiniteSet(0..(n - 1)) /\ Cardinality(0..(n - 1)) = n
  <2> HIDE DEF n
  <2>1. n - 1 \in Int /\ 0 \in Int
    BY <1>1
  <2>2. /\ IsFiniteSet(0..(n - 1))
        /\ Cardinality(0..(n - 1)) = IF 0 > n - 1 THEN 0 ELSE (n - 1) - 0 + 1
    BY <2>1, FS_Interval
  <2> QED
    BY <1>1, <2>2
<1>4. rank \in Surjection(Found, 0..(n - 1))
  BY <1>2, <1>3, FS_Injection
<1>5. i - 1 \in 0..(n - 1)
  BY <1>1
<1> QED
  BY <1>4, <1>5 DEF Surjection

LEMMA ListingOrder ==
  ASSUME Directory(files, clock)
  PROVE  /\ Listing \in Seq(Items)
         /\ \A i \in DOMAIN Listing : Listing[i] \in Found
         /\ \A i, j \in DOMAIN Listing :
              i < j => At(Listing[i]).created > At(Listing[j]).created
<1> DEFINE n == Cardinality(Found)
           nth(i) == CHOOSE x \in Found : Cardinality(Newer(x)) = i - 1
<1>1. n \in Nat
  BY FoundFinite, FS_CardinalityType
<1>2. Listing = [i \in 1..n |-> nth(i)]
  BY DEF Listing, Found, Newer
<1>3. ASSUME NEW i \in 1..n
      PROVE  nth(i) \in Found /\ Cardinality(Newer(nth(i))) = i - 1
  BY NewerRanks
<1> HIDE DEF nth
<1>4. ASSUME NEW i \in 1..n, NEW j \in 1..n, i < j
      PROVE  At(nth(i)).created > At(nth(j)).created
  <2>1. At(nth(i)).created \in Int /\ At(nth(j)).created \in Int
    BY <1>3, FoundTables DEF Has, At, Directory, FileRecords
  <2>2. At(nth(i)).created # At(nth(j)).created
    <3>1. ASSUME At(nth(i)).created = At(nth(j)).created
          PROVE  nth(i) = nth(j)
      BY <1>3, <3>1, FoundTables, PathInjective DEF Has, At, Directory
    <3> QED
      BY <1>3, <1>4, <3>1
  <2>3. ~(At(nth(j)).created > At(nth(i)).created)
    BY <1>3, <1>4, NewerCounts
  <2> QED
    BY <2>1, <2>2, <2>3
<1>5. \A i \in 1..n : nth(i) \in Items
  BY <1>3, FoundTables
<1> HIDE DEF n
<1>6. [i \in 1..n |-> nth(i)] \in Seq(Items)
  BY <1>1, <1>5
<1> QED
  BY <1>2, <1>3, <1>4, <1>6

\* Items u and i of a partition come from this place of the listing.
Place(u, i) == (u - 1) * TargetChunks + i

LEMMA FullUnits ==
  ASSUME NEW n \in Nat
  PROVE  /\ n \div TargetChunks \in Nat
         /\ (n \div TargetChunks) * TargetChunks \in Nat
         /\ (n \div TargetChunks) * TargetChunks <= n
         /\ n - (n \div TargetChunks) * TargetChunks < TargetChunks
BY ChunksAssumption

LEMMA Multiples ==
  ASSUME NEW a \in Nat, NEW b \in Nat, a < b
  PROVE  /\ a * TargetChunks \in Nat
         /\ b * TargetChunks \in Nat
         /\ a * TargetChunks + TargetChunks <= b * TargetChunks
BY ChunksAssumption

\* A later item of a partition is a later one of the listing.
LEMMA PlacesOrdered ==
  ASSUME NEW u \in Nat \ {0}, NEW v \in Nat \ {0},
         NEW i \in 1..TargetChunks, NEW j \in 1..TargetChunks,
         u < v \/ (u = v /\ i < j)
  PROVE  Place(u, i) \in Nat /\ Place(v, j) \in Nat /\ Place(u, i) < Place(v, j)
<1>1. i \in Nat /\ j \in Nat /\ i <= TargetChunks /\ j >= 1
  BY ChunksAssumption
<1>2. (u - 1) * TargetChunks \in Nat /\ (v - 1) * TargetChunks \in Nat
  BY ChunksAssumption
<1>3. CASE u = v /\ i < j
  BY <1>1, <1>2, <1>3 DEF Place
<1>4. CASE u < v
  <2>1. (u - 1) * TargetChunks + TargetChunks <= (v - 1) * TargetChunks
    <3>1. u - 1 \in Nat /\ v - 1 \in Nat /\ u - 1 < v - 1
      BY <1>4
    <3> QED
      BY <3>1, Multiples
  <2> QED
    BY <1>1, <1>2, <2>1, ChunksAssumption DEF Place
<1> QED
  BY <1>3, <1>4

LEMMA PartitionUnits ==
  ASSUME NEW items \in Seq(Items)
  PROVE  /\ Partition(items) \in Seq(Seq(Items))
         /\ \A u \in DOMAIN Partition(items) :
              /\ Len(Partition(items)[u]) \in 2..TargetChunks
              /\ \A i \in DOMAIN Partition(items)[u] :
                   /\ Place(u, i) \in DOMAIN items
                   /\ Partition(items)[u][i] = items[Place(u, i)]
<1> DEFINE n == Len(items)
           full == n \div TargetChunks
           rest == SubSeq(items, full * TargetChunks + 1, n)
           piece(u) == SubSeq(items, (u - 1) * TargetChunks + 1, u * TargetChunks)
           cut == [u \in 1..full |-> piece(u)]
           Good(s, u) ==
             /\ s \in Seq(Items)
             /\ Len(s) \in 2..TargetChunks
             /\ \A i \in DOMAIN s : Place(u, i) \in DOMAIN items /\ s[i] = items[Place(u, i)]
<1>1. /\ n \in Nat
      /\ full \in Nat
      /\ full * TargetChunks \in Nat
      /\ full * TargetChunks <= n
      /\ n - full * TargetChunks < TargetChunks
  <2>1. n \in Nat
    OBVIOUS
  <2> QED
    BY <2>1, FullUnits
<1>2. ASSUME NEW u \in 1..full
      PROVE  Good(piece(u), u)
  <2>1. /\ (u - 1) * TargetChunks \in Nat
        /\ u * TargetChunks = (u - 1) * TargetChunks + TargetChunks
    BY <1>1, ChunksAssumption
  <2>2. u * TargetChunks <= full * TargetChunks
    BY <1>1, Multiples, ChunksAssumption
  <2> DEFINE m == (u - 1) * TargetChunks
             l == u * TargetChunks
  <2>3. m \in Nat /\ l = m + TargetChunks /\ l <= n
    BY <1>1, <2>1, <2>2, ChunksAssumption
  <2> HIDE DEF m, l, n
  <2>4. /\ SubSeq(items, m + 1, l) \in Seq(Items)
        /\ Len(SubSeq(items, m + 1, l)) = TargetChunks
        /\ \A i \in 1..TargetChunks : SubSeq(items, m + 1, l)[i] = items[m + i]
    BY <2>3, ChunksAssumption DEF n
  <2>5. \A i \in 1..TargetChunks : m + i \in 1..n
    BY <2>3, <1>1, ChunksAssumption
  <2>6. DOMAIN items = 1..n
    BY DEF n
  <2>7. piece(u) = SubSeq(items, m + 1, l)
    BY DEF m, l
  <2>8. \A i : Place(u, i) = m + i
    BY DEF m, Place
  <2> HIDE DEF piece
  <2>9. piece(u) \in Seq(Items) /\ Len(piece(u)) = TargetChunks
    BY <2>4, <2>7
  <2>10. DOMAIN piece(u) = 1..TargetChunks
    BY <2>9
  <2> QED
    BY <2>4, <2>5, <2>6, <2>7, <2>8, <2>9, <2>10, ChunksAssumption
<1>3. ASSUME Len(rest) >= 2
      PROVE  Good(rest, full + 1)
  <2> DEFINE m == full * TargetChunks
  <2>1. m \in Nat /\ m <= n /\ n - m < TargetChunks
    BY <1>1
  <2> HIDE DEF m, n
  <2>2. /\ SubSeq(items, m + 1, n) \in Seq(Items)
        /\ Len(SubSeq(items, m + 1, n)) = n - m
        /\ \A i \in 1..(n - m) : SubSeq(items, m + 1, n)[i] = items[m + i]
    BY <2>1, <1>1 DEF n
  <2>3. \A i \in 1..(n - m) : m + i \in 1..n
    BY <2>1, <1>1
  <2>4. DOMAIN items = 1..n
    BY DEF n
  <2>5. rest = SubSeq(items, m + 1, n)
    BY DEF m
  <2>6. \A i : Place(full + 1, i) = m + i
    <3>1. (full + 1) - 1 = full
      BY <1>1
    <3> QED
      BY <3>1 DEF m, Place
  <2> HIDE DEF rest
  <2>7. rest \in Seq(Items) /\ Len(rest) = n - m
    BY <2>2, <2>5
  <2>8. DOMAIN rest = 1..(n - m)
    BY <2>7
  <2>9. Len(rest) \in 2..TargetChunks
    BY <1>1, <1>3, <2>1, <2>7, ChunksAssumption
  <2> QED
    BY <2>2, <2>3, <2>4, <2>5, <2>6, <2>7, <2>8, <2>9
<1>4. Partition(items) = IF Len(rest) >= 2 THEN Append(cut, rest) ELSE cut
  BY DEF Partition
<1> HIDE DEF n, full, rest, piece
<1>5. cut \in Seq(Seq(Items)) /\ DOMAIN cut = 1..full /\ Len(cut) = full
  <2>1. \A u \in 1..full : piece(u) \in Seq(Items)
    BY <1>2
  <2> QED
    BY <1>1, <2>1
<1>6. \A u \in 1..full : cut[u] = piece(u)
  OBVIOUS
<1> HIDE DEF cut
<1>7. CASE Len(rest) >= 2
  <2> DEFINE all == Append(cut, rest)
  <2>1. rest \in Seq(Items)
    BY <1>3, <1>7
  <2>2. /\ all \in Seq(Seq(Items))
        /\ DOMAIN all = 1..(full + 1)
        /\ \A u \in 1..full : all[u] = cut[u]
        /\ all[full + 1] = rest
    BY <1>1, <1>5, <2>1
  <2> HIDE DEF all
  <2>3. ASSUME NEW u \in DOMAIN all
        PROVE  Good(all[u], u)
    <3>1. u \in 1..full \/ u = full + 1
      BY <1>1, <2>2
    <3>2. CASE u \in 1..full
      <4>1. all[u] = piece(u)
        BY <1>6, <2>2, <3>2
      <4> HIDE DEF Good
      <4> QED
        BY <4>1, <1>2, <3>2
    <3>3. CASE u = full + 1
      <4> HIDE DEF Good
      <4> QED
        BY <1>3, <1>7, <2>2, <3>3
    <3> QED
      BY <3>1, <3>2, <3>3
  <2>4. Partition(items) = all
    BY <1>4, <1>7 DEF all
  <2> QED
    BY <2>2, <2>3, <2>4
<1>8. CASE ~(Len(rest) >= 2)
  <2>1. Partition(items) = cut
    BY <1>4, <1>8
  <2> QED
    BY <2>1, <1>2, <1>5, <1>6
<1> QED
  BY <1>7, <1>8

-----------------------------------------------------------------------------
(* Sequences of items                                                      *)

LEMMA LeastNatural ==
  ASSUME NEW S \in SUBSET Nat, S # {}
  PROVE  \E x \in S : \A y \in S : x <= y
<1> DEFINE R == {ss \in Nat \X Nat : ss[1] < ss[2]}
<1>1. IsWellFoundedOn(R, Nat)
  BY NatLessThanWellFounded DEF OpToRel
<1> HIDE DEF R
<1>2. PICK x \in S : \A y \in S : <<y, x>> \notin R
  BY <1>1, WFMin
<1>3. \A y \in S : ~(y < x)
  BY <1>2 DEF R
<1> QED
  BY <1>3

LEMMA ItemAt ==
  ASSUME NEW s \in Seq(Items), NEW i \in DOMAIN s
  PROVE  s[i] \in Items /\ i \in 1..Len(s)
OBVIOUS

\* A target without the pair that is joined.
LEMMA RestItems ==
  ASSUME NEW s \in Seq(Items), Len(s) >= 2
  PROVE  /\ s[1] \in Items /\ s[2] \in Items /\ 1 \in DOMAIN s /\ 2 \in DOMAIN s
         /\ Tail(Tail(s)) \in Seq(Items)
         /\ Len(Tail(Tail(s))) = Len(s) - 2
         /\ DOMAIN Tail(Tail(s)) = 1..(Len(s) - 2)
         /\ \A i \in DOMAIN Tail(Tail(s)) :
              i + 2 \in DOMAIN s /\ Tail(Tail(s))[i] = s[i + 2]
<1> DEFINE t == Tail(s)
<1>1. /\ t \in Seq(Items) /\ Len(t) = Len(s) - 1
      /\ \A i \in DOMAIN t : i + 1 \in DOMAIN s /\ t[i] = s[i + 1]
  OBVIOUS
<1>2. 1 \in DOMAIN s /\ 2 \in DOMAIN s
  OBVIOUS
<1> HIDE DEF t
<1>3. /\ Tail(t) \in Seq(Items)
      /\ Len(Tail(t)) = Len(t) - 1
      /\ \A i \in DOMAIN Tail(t) : i + 1 \in DOMAIN t /\ Tail(t)[i] = t[i + 1]
  BY <1>1
<1>4. DOMAIN Tail(t) = 1..(Len(s) - 2)
  BY <1>1, <1>3
<1>5. \A i \in DOMAIN Tail(t) : i \in Nat /\ (i + 1) + 1 = i + 2
  BY <1>3, ItemAt
<1>6. \A i \in DOMAIN Tail(t) : i + 2 \in DOMAIN s /\ Tail(t)[i] = s[i + 2]
  BY <1>1, <1>3, <1>5
<1>7. s[1] \in Items /\ s[2] \in Items
  BY <1>2, ItemAt
<1>8. Len(Tail(t)) = Len(s) - 2
  BY <1>1, <1>3
<1> QED
  BY <1>2, <1>3, <1>4, <1>6, <1>7, <1>8 DEF t

LEMMA AppendItems ==
  ASSUME NEW s \in Seq(Items), NEW x \in Items
  PROVE  /\ Append(s, x) \in Seq(Items)
         /\ Len(Append(s, x)) = Len(s) + 1
         /\ \A i \in DOMAIN s : i \in DOMAIN Append(s, x) /\ Append(s, x)[i] = s[i]
         /\ \A i \in DOMAIN Append(s, x) :
              (i \in DOMAIN s /\ Append(s, x)[i] = s[i])
                \/ (i = Len(s) + 1 /\ Append(s, x)[i] = x)
OBVIOUS

LEMMA ConcatItems ==
  ASSUME NEW s \in Seq(Items), NEW t \in Seq(Items)
  PROVE  /\ s \o t \in Seq(Items)
         /\ Len(s \o t) = Len(s) + Len(t)
         /\ \A i \in DOMAIN s : i \in DOMAIN (s \o t) /\ (s \o t)[i] = s[i]
         /\ \A i \in DOMAIN t :
              Len(s) + i \in DOMAIN (s \o t) /\ (s \o t)[Len(s) + i] = t[i]
         /\ \A i \in DOMAIN (s \o t) :
              (i \in DOMAIN s /\ (s \o t)[i] = s[i])
                \/ (i - Len(s) \in DOMAIN t /\ i > Len(s) /\ (s \o t)[i] = t[i - Len(s)])
OBVIOUS

LEMMA ConcatDistinct ==
  ASSUME NEW s \in Seq(Items), NEW t \in Seq(Items),
         \A i, j \in DOMAIN s : s[i] = s[j] => i = j,
         \A i, j \in DOMAIN t : t[i] = t[j] => i = j,
         \A i \in DOMAIN s, j \in DOMAIN t : s[i] # t[j]
  PROVE  \A i, j \in DOMAIN (s \o t) : (s \o t)[i] = (s \o t)[j] => i = j
<1> SUFFICES ASSUME NEW i \in DOMAIN (s \o t), NEW j \in DOMAIN (s \o t),
                    (s \o t)[i] = (s \o t)[j]
             PROVE  i = j
  OBVIOUS
<1>1. \/ i \in DOMAIN s /\ (s \o t)[i] = s[i]
      \/ i - Len(s) \in DOMAIN t /\ i > Len(s) /\ (s \o t)[i] = t[i - Len(s)]
  BY ConcatItems
<1>2. \/ j \in DOMAIN s /\ (s \o t)[j] = s[j]
      \/ j - Len(s) \in DOMAIN t /\ j > Len(s) /\ (s \o t)[j] = t[j - Len(s)]
  BY ConcatItems
<1>3. i \in Int /\ j \in Int /\ Len(s) \in Int
  BY ConcatItems
<1> QED
  BY <1>1, <1>2, <1>3

-----------------------------------------------------------------------------
(* What some files hold together                                           *)

\* Overlay, of any directory tree.
OverlayOf(fs, l, items) ==
  [k \in Keys |->
     LET hits == {i \in DOMAIN items : fs[Path(l, items[i])].data[k] # Absent}
         first == CHOOSE i \in hits : \A j \in hits : i <= j
     IN  IF hits = {} THEN Absent ELSE fs[Path(l, items[first])].data[k]]

LEMMA OverlayIsOf == \A items : Overlay(items) = OverlayOf(files, level, items)
BY DEF Overlay, OverlayOf, At

LEMMA OverlayNone ==
  ASSUME NEW fs, NEW l, NEW items, NEW k \in Keys,
         \A i \in DOMAIN items : fs[Path(l, items[i])].data[k] = Absent
  PROVE  OverlayOf(fs, l, items)[k] = Absent
BY DEF OverlayOf

LEMMA OverlayHit ==
  ASSUME NEW fs, NEW l, NEW items \in Seq(Items), NEW k \in Keys, NEW i \in DOMAIN items,
         fs[Path(l, items[i])].data[k] # Absent,
         \A j \in DOMAIN items : j < i => fs[Path(l, items[j])].data[k] = Absent
  PROVE  OverlayOf(fs, l, items)[k] = fs[Path(l, items[i])].data[k]
<1> DEFINE hits == {j \in DOMAIN items : fs[Path(l, items[j])].data[k] # Absent}
<1>1. (CHOOSE j \in hits : \A m \in hits : j <= m) = i
  <2>1. DOMAIN items \subseteq Nat
    BY ItemAt
  <2>2. \A j \in hits : i <= j
    BY <2>1
  <2>3. \A j \in hits : (\A m \in hits : j <= m) => j = i
    BY <2>1, <2>2
  <2> QED
    BY <2>2, <2>3
<1> QED
  BY <1>1 DEF OverlayOf

\* There is no entry, or a first one.
LEMMA OverlayCases ==
  ASSUME NEW fs, NEW l, NEW items \in Seq(Items), NEW k \in Keys
  PROVE  \/ /\ \A i \in DOMAIN items : fs[Path(l, items[i])].data[k] = Absent
            /\ OverlayOf(fs, l, items)[k] = Absent
         \/ \E i \in DOMAIN items :
              /\ fs[Path(l, items[i])].data[k] # Absent
              /\ \A j \in DOMAIN items : j < i => fs[Path(l, items[j])].data[k] = Absent
              /\ OverlayOf(fs, l, items)[k] = fs[Path(l, items[i])].data[k]
<1> DEFINE hits == {j \in DOMAIN items : fs[Path(l, items[j])].data[k] # Absent}
<1>1. CASE hits = {}
  BY <1>1, OverlayNone
<1>2. CASE hits # {}
  <2>1. hits \in SUBSET Nat
    BY ItemAt
  <2>2. PICK i \in hits : \A j \in hits : i <= j
    BY <1>2, <2>1, LeastNatural
  <2>3. \A j \in DOMAIN items : j < i => fs[Path(l, items[j])].data[k] = Absent
    BY <2>1, <2>2, ItemAt
  <2> QED
    BY <2>2, <2>3, OverlayHit
<1> QED
  BY <1>1, <1>2

LEMMA OverlayConcat ==
  ASSUME NEW fs, NEW l, NEW s \in Seq(Items), NEW t \in Seq(Items), NEW k \in Keys
  PROVE  OverlayOf(fs, l, s \o t)[k] =
           IF OverlayOf(fs, l, s)[k] # Absent THEN OverlayOf(fs, l, s)[k]
           ELSE OverlayOf(fs, l, t)[k]
<1> DEFINE e(x) == fs[Path(l, x)].data[k]
           all == s \o t
<1>1. CASE \A i \in DOMAIN s : e(s[i]) = Absent
  <2>1. OverlayOf(fs, l, s)[k] = Absent
    BY <1>1, OverlayNone
  <2>2. CASE \A i \in DOMAIN t : e(t[i]) = Absent
    <3>1. \A i \in DOMAIN all : e(all[i]) = Absent
      BY <1>1, <2>2, ConcatItems
    <3> QED
      BY <2>1, <2>2, <3>1, OverlayNone
  <2>3. ASSUME NEW i \in DOMAIN t, e(t[i]) # Absent,
               \A j \in DOMAIN t : j < i => e(t[j]) = Absent
        PROVE  OverlayOf(fs, l, all)[k] = e(t[i]) /\ OverlayOf(fs, l, t)[k] = e(t[i])
    <3>1. Len(s) + i \in DOMAIN all /\ all[Len(s) + i] = t[i]
      BY ConcatItems
    <3>2. ASSUME NEW j \in DOMAIN all, j < Len(s) + i
          PROVE  e(all[j]) = Absent
      <4>1. CASE j \in DOMAIN s /\ all[j] = s[j]
        BY <1>1, <4>1
      <4>2. CASE j - Len(s) \in DOMAIN t /\ j > Len(s) /\ all[j] = t[j - Len(s)]
        <5>1. j - Len(s) < i
          BY <3>2, <4>2, ItemAt
        <5> QED
          BY <2>3, <4>2, <5>1
      <4> QED
        BY <4>1, <4>2, ConcatItems
    <3>3. all \in Seq(Items)
      BY ConcatItems
    <3> HIDE DEF all
    <3>4. OverlayOf(fs, l, all)[k] = fs[Path(l, all[Len(s) + i])].data[k]
      BY <2>3, <3>1, <3>2, <3>3, OverlayHit
    <3>5. OverlayOf(fs, l, t)[k] = fs[Path(l, t[i])].data[k]
      BY <2>3, OverlayHit
    <3> QED
      BY <3>1, <3>4, <3>5
  <2> QED
    BY <2>1, <2>2, <2>3, OverlayCases
<1>2. ASSUME NEW i \in DOMAIN s, e(s[i]) # Absent,
             \A j \in DOMAIN s : j < i => e(s[j]) = Absent
      PROVE  OverlayOf(fs, l, all)[k] = e(s[i]) /\ OverlayOf(fs, l, s)[k] = e(s[i])
  <2>1. i \in DOMAIN all /\ all[i] = s[i] /\ all \in Seq(Items)
    BY ConcatItems
  <2>2. ASSUME NEW j \in DOMAIN all, j < i
        PROVE  e(all[j]) = Absent
    <3>1. j \in DOMAIN s /\ all[j] = s[j]
      BY <2>2, ConcatItems, ItemAt
    <3> QED
      BY <1>2, <2>2, <3>1
  <2> HIDE DEF all
  <2>3. OverlayOf(fs, l, all)[k] = fs[Path(l, all[i])].data[k]
    BY <1>2, <2>1, <2>2, OverlayHit
  <2>4. OverlayOf(fs, l, s)[k] = fs[Path(l, s[i])].data[k]
    BY <1>2, OverlayHit
  <2> QED
    BY <2>1, <2>3, <2>4
<1> QED
  BY <1>1, <1>2, OverlayCases

LEMMA OverlaySingle ==
  ASSUME NEW fs, NEW l, NEW x \in Items, NEW k \in Keys
  PROVE  OverlayOf(fs, l, <<x>>)[k] = fs[Path(l, x)].data[k]
<1> DEFINE s == <<x>>
<1>1. s \in Seq(Items) /\ 1 \in DOMAIN s /\ s[1] = x /\ \A i \in DOMAIN s : i = 1
  OBVIOUS
<1> HIDE DEF s
<1>2. OverlayOf(fs, l, s)[k] = fs[Path(l, x)].data[k]
  BY <1>1, OverlayCases
<1> QED
  BY <1>2 DEF s

\* The overlay depends on contents only.
LEMMA OverlaySame ==
  ASSUME NEW fs, NEW gs, NEW l, NEW items \in Seq(Items), NEW k \in Keys,
         \A i \in DOMAIN items : fs[Path(l, items[i])].data = gs[Path(l, items[i])].data
  PROVE  OverlayOf(fs, l, items)[k] = OverlayOf(gs, l, items)[k]
<1>1. CASE \A i \in DOMAIN items : fs[Path(l, items[i])].data[k] = Absent
  BY <1>1, OverlayNone
<1>2. ASSUME NEW i \in DOMAIN items, fs[Path(l, items[i])].data[k] # Absent,
             \A j \in DOMAIN items : j < i => fs[Path(l, items[j])].data[k] = Absent
      PROVE  OverlayOf(fs, l, items)[k] = OverlayOf(gs, l, items)[k]
  BY <1>2, OverlayHit
<1> QED
  BY <1>1, <1>2, OverlayCases

LEMMA OverlayType ==
  ASSUME NEW fs, NEW l, NEW items \in Seq(Items),
         \A i \in DOMAIN items : fs[Path(l, items[i])].data \in Content
  PROVE  OverlayOf(fs, l, items) \in Content
<1>1. ASSUME NEW k \in Keys
      PROVE  OverlayOf(fs, l, items)[k] \in Entry \cup {Absent}
  BY OverlayCases DEF Content
<1> QED
  BY <1>1 DEF OverlayOf, Content

-----------------------------------------------------------------------------
(* What the coordinator knows of is there                                  *)

\* The waiting units are the tables of the level in order, newest first.
WaitingOK ==
  /\ \A u \in DOMAIN units : Len(units[u]) >= 2
  /\ \A u \in DOMAIN units : \A i \in DOMAIN units[u] :
       units[u][i][2] = "bin" /\ Has(units[u][i])
  /\ \A u, v \in DOMAIN units : \A i \in DOMAIN units[u], j \in DOMAIN units[v] :
       u < v \/ (u = v /\ i < j) => At(units[u][i]).created > At(units[v][j]).created

\* An output of an earlier pass of the unit at work.
OwnTmp(x) == \E b, c \in Nat : b < unit.pass /\ x = Tmp(unit.id, b, c)

\* The input of the pass: tables and earlier outputs, none of them twice, and
\* none that a waiting unit has too.
TargetOK ==
  /\ \A i \in DOMAIN unit.target :
       /\ Has(unit.target[i])
       /\ unit.target[i][2] = "bin" \/ OwnTmp(unit.target[i])
  /\ \A i, j \in DOMAIN unit.target : unit.target[i] = unit.target[j] => i = j
  /\ \A i \in DOMAIN unit.target, u \in DOMAIN units :
       \A j \in DOMAIN units[u] : unit.target[i] # units[u][j]

\* The outputs of the pass so far.
MergedOK ==
  /\ Len(unit.merged) = unit.pair
  /\ \A i \in DOMAIN unit.merged :
       unit.merged[i] = Tmp(unit.id, unit.pass, i - 1) /\ Has(unit.merged[i])

OutOK == pc = "drain" => Has(Out)

\* What is to be deleted is nothing that is still needed.
ConsumedOK ==
  \A i \in DOMAIN unit.consumed :
    /\ unit.consumed[i][2] = "drain" \/ OwnTmp(unit.consumed[i])
    /\ \A j \in DOMAIN unit.target : unit.consumed[i] # unit.target[j]

\* What is to be promoted.
OutputsOK ==
  /\ \A i \in DOMAIN outputs :
       Has(outputs[i]) /\ \E a, b, c \in Nat : a < unit.id /\ outputs[i] = Tmp(a, b, c)
  /\ \A i, j \in DOMAIN outputs : outputs[i] = outputs[j] => i = j

Units == [id : Nat, pass : Nat, pair : Nat, target : Seq(Items), merged : Seq(Items),
          consumed : Seq(Items), input : Content]

Types ==
  /\ clock \in Nat \ {0}
  /\ Directory(files, clock)
  /\ flushed \in 0..MaxFlushes
  /\ writing \in Content /\ store \in Content
  /\ due \in BOOLEAN
  /\ pc \in {"visit", "units", "join", "drain", "frame", "sweep"}
  /\ level \in 1..Levels
  /\ rounds \in 0..MaxCompactions
  /\ units \in Seq(Seq(Items)) /\ unit \in Units /\ outputs \in Seq(Items)

Control ==
  /\ pc \in {"join", "drain"} => Len(unit.target) >= 2
  /\ pc \in {"frame", "sweep"} =>
       Len(unit.target) = 1 /\ unit.target[1][2] = "tmp" /\ unit.merged = <<>>
  /\ pc = "units" => unit.pair = 0 /\ unit.target = <<>> /\ unit.merged = <<>> /\ unit.consumed = <<>>
  /\ pc = "visit" => units = <<>> /\ unit = NoUnit /\ outputs = <<>>

\* Only flushes make tables, each under a number of its own.
TablesNumbered ==
  \A p \in DOMAIN files, n \in Nat : p[2] = <<"table", n>> => n <= flushed

TypeInv ==
  /\ Types /\ Control /\ TablesNumbered
  /\ WaitingOK /\ TargetOK /\ MergedOK /\ OutOK /\ ConsumedOK /\ OutputsOK

Intact == {"table", "raw"}

\* A file a step leaves there, with what it holds.
Stays(p) ==
  p \in DOMAIN files =>
    /\ p \in DOMAIN files'
    /\ files'[p].data = files[p].data
    /\ files'[p].created = files[p].created
    /\ files[p].form \in Intact => files'[p].form \in Intact

UnitsStay == \A u \in DOMAIN units : \A i \in DOMAIN units[u] : Stays(Path(level, units[u][i]))
TargetStays == \A i \in DOMAIN unit.target : Stays(Path(level, unit.target[i]))
MergedStays == \A i \in DOMAIN unit.merged : Stays(Path(level, unit.merged[i]))
OutputsStay == \A i \in DOMAIN outputs : Stays(Path(level, outputs[i]))

LEMMA WaitingStays ==
  ASSUME WaitingOK, UNCHANGED <<level, units>>, UnitsStay
  PROVE  WaitingOK'
BY DEF WaitingOK, UnitsStay, Stays, Has, At

LEMMA TargetRemains ==
  ASSUME TargetOK, UNCHANGED <<level, units, unit>>, TargetStays
  PROVE  TargetOK'
BY DEF TargetOK, TargetStays, Stays, Has, OwnTmp

LEMMA MergedRemains ==
  ASSUME MergedOK, UNCHANGED <<level, unit>>, MergedStays
  PROVE  MergedOK'
BY DEF MergedOK, MergedStays, Stays, Has

LEMMA ConsumedRemains ==
  ASSUME ConsumedOK, UNCHANGED unit
  PROVE  ConsumedOK'
BY DEF ConsumedOK, OwnTmp

LEMMA OutputsRemain ==
  ASSUME OutputsOK, UNCHANGED <<level, outputs>>, unit.id \in Nat, unit'.id \in Nat,
         unit'.id >= unit.id, OutputsStay
  PROVE  OutputsOK'
BY DEF OutputsOK, OutputsStay, Stays, Has

LEMMA NoContentType == NoContent \in Content
BY DEF NoContent, Content

LEMMA NoUnitType ==
  ASSUME NEW n \in Nat
  PROVE  LET u == [NoUnit EXCEPT !.id = n]
         IN  /\ u \in Units /\ u.id = n /\ u.pass = 0 /\ u.pair = 0
             /\ u.target = <<>> /\ u.merged = <<>> /\ u.consumed = <<>>
<1>1. <<>> \in Seq(Items)
  OBVIOUS
<1> QED
  BY <1>1, NoContentType DEF NoUnit, Units

LEMMA NoUnitIs ==
  /\ NoUnit \in Units /\ NoUnit.id = 0 /\ NoUnit.pair = 0
  /\ NoUnit.target = <<>> /\ NoUnit.merged = <<>> /\ NoUnit.consumed = <<>>
<1>1. <<>> \in Seq(Items)
  OBVIOUS
<1> QED
  BY <1>1, NoContentType DEF NoUnit, Units

\* A unit that is yet to begin, or was given up, needs no file.
LEMMA IdleUnit ==
  ASSUME unit'.pair = 0, unit'.target = <<>>, unit'.merged = <<>>, unit'.consumed = <<>>
  PROVE  TargetOK' /\ MergedOK' /\ ConsumedOK'
<1>1. DOMAIN unit'.target = {} /\ DOMAIN unit'.merged = {} /\ DOMAIN unit'.consumed = {}
  OBVIOUS
<1>2. Len(unit'.merged) = 0
  OBVIOUS
<1> QED
  BY <1>1, <1>2 DEF TargetOK, MergedOK, ConsumedOK

\* No step but a flush makes a table's name.
LEMMA NamesRemain ==
  ASSUME TablesNumbered, flushed' = flushed,
         \A q \in DOMAIN files' :
           \/ \E p \in DOMAIN files : q[2] = p[2]
           \/ \E a, b, c \in Nat : q[2] = <<"unit", a, b, c>>
  PROVE  TablesNumbered'
<1> SUFFICES ASSUME NEW q \in DOMAIN files', NEW n \in Nat, q[2] = <<"table", n>>
             PROVE  n <= flushed
  BY DEF TablesNumbered
<1>1. CASE \E p \in DOMAIN files : q[2] = p[2]
  BY <1>1 DEF TablesNumbered
<1>2. ASSUME NEW a \in Nat, NEW b \in Nat, NEW c \in Nat, q[2] = <<"unit", a, b, c>>
      PROVE  FALSE
  <2>1. q[2][1] = "unit" /\ q[2][1] = "table"
    BY <1>2
  <2> QED
    BY <2>1
<1> QED
  BY <1>1, <1>2

\* What the memtable and the clock do is nothing to the coordinator.
LEMMA EnvironmentTypes ==
  ASSUME TypeInv, UNCHANGED <<pc, level, rounds, units, unit, outputs>>,
         clock' \in Nat \ {0}, Directory(files', clock'), flushed' \in 0..MaxFlushes,
         writing' \in Content, store' \in Content, due' \in BOOLEAN, TablesNumbered',
         \A p \in DOMAIN files : Stays(p)
  PROVE  TypeInv'
<1>1. \A p : Stays(p)
  BY DEF Stays
<1>2. UnitsStay /\ TargetStays /\ MergedStays /\ OutputsStay
  BY <1>1 DEF UnitsStay, TargetStays, MergedStays, OutputsStay
<1>3. Types' /\ Control'
  BY DEF TypeInv, Types, Control
<1>4. OutOK'
  BY <1>1 DEF TypeInv, OutOK, Stays, Has, Out, OutName
<1>5. unit.id \in Nat
  BY DEF TypeInv, Types, Units
<1>6. OutputsOK'
  BY <1>2, <1>5, OutputsRemain DEF TypeInv
<1> QED
  BY <1>2, <1>3, <1>4, <1>6, WaitingStays, TargetRemains, MergedRemains, ConsumedRemains
     DEF TypeInv

\* The coordinator leaves a unit, done or not.
LEMMA AbandonTypes ==
  ASSUME TypeInv, AbandonUnit, UNCHANGED <<flushed, writing, store, due, level, rounds, units>>,
         clock' \in Nat \ {0}, Directory(files', clock'), TablesNumbered',
         UnitsStay, outputs' \in Seq(Items), OutputsOK'
  PROVE  TypeInv'
<1>1. unit.id + 1 \in Nat
  BY DEF TypeInv, Types, Units
<1>2. /\ unit' \in Units /\ unit'.pair = 0
      /\ unit'.target = <<>> /\ unit'.merged = <<>> /\ unit'.consumed = <<>>
  BY <1>1, NoUnitType DEF AbandonUnit
<1>3. Types' /\ Control' /\ OutOK'
  BY <1>2 DEF TypeInv, Types, Control, OutOK, AbandonUnit
<1> QED
  BY <1>2, <1>3, IdleUnit, WaitingStays DEF TypeInv

\* The coordinator goes on to a level, or begins anew.
LEMMA VisitTypes ==
  ASSUME TypeInv, pc' = "visit", units' = <<>>, unit' = NoUnit, outputs' = <<>>,
         UNCHANGED <<flushed, store, rounds>>, level' \in 1..Levels, due' \in BOOLEAN,
         writing' \in Content, clock' \in Nat \ {0}, Directory(files', clock'), TablesNumbered'
  PROVE  TypeInv'
<1>1. /\ unit' \in Units /\ unit'.pair = 0
      /\ unit'.target = <<>> /\ unit'.merged = <<>> /\ unit'.consumed = <<>>
  BY NoUnitIs
<1>2. units' \in Seq(Seq(Items)) /\ outputs' \in Seq(Items)
  OBVIOUS
<1>3. Types' /\ Control' /\ OutOK'
  BY <1>1, <1>2 DEF TypeInv, Types, Control, OutOK
<1>4. WaitingOK' /\ OutputsOK'
  <2>1. DOMAIN units' = {} /\ DOMAIN outputs' = {}
    OBVIOUS
  <2> QED
    BY <2>1 DEF WaitingOK, OutputsOK
<1> QED
  BY <1>1, <1>3, <1>4, IdleUnit DEF TypeInv

-----------------------------------------------------------------------------
(* Types, action by action                                                 *)

LEMMA InitTypes == Init => TypeInv
<1> SUFFICES ASSUME Init
             PROVE  TypeInv
  OBVIOUS
<1>1. DOMAIN files = {} /\ DOMAIN units = {} /\ DOMAIN outputs = {}
  BY DEF Init
<1>2. /\ unit \in Units /\ unit.pair = 0
      /\ unit.target = <<>> /\ unit.merged = <<>> /\ unit.consumed = <<>>
  BY NoUnitIs DEF Init
<1>3. Directory(files, clock)
  <2>1. files \in [DOMAIN files -> FileRecords(clock)]
    BY <1>1 DEF Init
  <2> QED
    BY <1>1, <2>1, FS_EmptySet DEF Directory
<1>4. Types
  <2>1. units \in Seq(Seq(Items)) /\ outputs \in Seq(Items)
    BY DEF Init
  <2>2. /\ flushed \in 0..MaxFlushes /\ rounds \in 0..MaxCompactions
        /\ level \in 1..Levels /\ clock \in Nat \ {0}
    BY LevelsAssumption, BoundsAssumption DEF Init
  <2> QED
    BY <1>2, <1>3, <2>1, <2>2, NoContentType DEF Types, Init
<1>5. Control /\ TablesNumbered /\ WaitingOK /\ OutOK /\ OutputsOK
  BY <1>1 DEF Init, Control, TablesNumbered, WaitingOK, OutOK, OutputsOK
<1>6. DOMAIN unit.target = {} /\ DOMAIN unit.merged = {} /\ DOMAIN unit.consumed = {}
      /\ Len(unit.merged) = 0
  BY <1>2
<1>7. TargetOK /\ MergedOK /\ ConsumedOK
  BY <1>2, <1>6 DEF TargetOK, MergedOK, ConsumedOK
<1> QED
  BY <1>4, <1>5, <1>7 DEF TypeInv

\* A table that is to be written gets a new path.
TablePath(n) == <<1, <<"table", n>>, "bin">>

LEMMA TablePathType ==
  ASSUME NEW n \in Nat
  PROVE  TablePath(n) \in Paths /\ TablePath(n)[2] = <<"table", n>>
BY LevelsAssumption DEF TablePath, Paths, Names, Exts

LEMMA FlushPathIsNew ==
  ASSUME TypeInv
  PROVE  TablePath(flushed + 1) \notin DOMAIN files
<1>1. flushed \in Nat /\ flushed + 1 \in Nat /\ ~(flushed + 1 <= flushed)
  BY BoundsAssumption DEF TypeInv, Types
<1> QED
  BY <1>1, TablePathType DEF TypeInv, TablesNumbered

LEMMA WritingType ==
  ASSUME FlushBegin, flushed \in 0..MaxFlushes
  PROVE  /\ writing' \in Content
         /\ flushed' \in 1..MaxFlushes
         /\ writing' # NoContent
         /\ \A k \in Keys : writing'[k] # Absent => writing'[k].by = flushed'
<1>1. PICK ks \in (SUBSET Keys) \ {{}} : \E dead \in [ks -> BOOLEAN] :
        writing' = [k \in Keys |-> IF k \in ks THEN [by |-> flushed', dead |-> dead[k]]
                                   ELSE Absent]
  BY DEF FlushBegin
<1>2. PICK dead \in [ks -> BOOLEAN] :
        writing' = [k \in Keys |-> IF k \in ks THEN [by |-> flushed', dead |-> dead[k]]
                                   ELSE Absent]
  BY <1>1
<1>3. flushed' \in 1..MaxFlushes
  BY BoundsAssumption DEF FlushBegin
<1>4. \A k \in ks : [by |-> flushed', dead |-> dead[k]] \in Entry
  BY <1>3 DEF Entry
<1>5. writing' \in Content
  BY <1>2, <1>4 DEF Content
<1>6. PICK k \in ks : TRUE
  OBVIOUS
<1>7. writing'[k] = [by |-> flushed', dead |-> dead[k]]
  BY <1>2, <1>6
<1>8. writing' # NoContent
  BY <1>4, <1>6, <1>7, AbsentAssumption DEF NoContent
<1>9. \A l \in Keys : writing'[l] # Absent => writing'[l].by = flushed'
  BY <1>2
<1> QED
  BY <1>3, <1>5, <1>8, <1>9

LEMMA FlushBeginStays ==
  ASSUME TypeInv, FlushBegin, NEW p \in DOMAIN files
  PROVE  p \in DOMAIN files' /\ files'[p] = files[p]
<1>1. files' = Create(files, TablePath(flushed + 1), writing', "growing")
  BY DEF FlushBegin, TablePath
<1> QED
  BY <1>1, FlushPathIsNew, CreateKeeps

LEMMA FlushBeginTypes ==
  ASSUME TypeInv, FlushBegin
  PROVE  TypeInv'
<1> DEFINE path == TablePath(flushed + 1)
<1>1. flushed \in Nat /\ flushed + 1 \in Nat /\ clock \in Nat \ {0}
  BY BoundsAssumption DEF TypeInv, Types
<1>2. files' = Create(files, path, writing', "growing") /\ flushed' = flushed + 1
  BY DEF FlushBegin, TablePath
<1>3. path \in Paths /\ path \notin DOMAIN files /\ path[2] = <<"table", flushed + 1>>
  BY <1>1, TablePathType, FlushPathIsNew
<1> HIDE DEF path
<1>4. writing' \in Content /\ flushed' \in 0..MaxFlushes
  BY WritingType DEF TypeInv, Types
<1>5. clock' = clock + 1 /\ clock' \in Nat \ {0}
  BY <1>1 DEF FlushBegin
<1>6. Directory(files', clock')
  BY <1>1, <1>2, <1>3, <1>4, <1>5, CreateType DEF TypeInv, Types, Forms
<1>7. TablesNumbered'
  <2> SUFFICES ASSUME NEW q \in DOMAIN files', NEW n \in Nat, q[2] = <<"table", n>>
               PROVE  n <= flushed + 1
    BY <1>2 DEF TablesNumbered
  <2>1. CASE q = path
    BY <1>1, <1>3, <2>1
  <2>2. CASE q # path
    BY <1>1, <1>2, <2>2, CreateOnly DEF TypeInv, TablesNumbered
  <2> QED
    BY <2>1, <2>2
<1>8. \A p \in DOMAIN files : Stays(p)
  BY FlushBeginStays DEF Stays
<1>9. UNCHANGED <<store, due, pc, level, rounds, units, unit, outputs>>
  BY DEF FlushBegin
<1> QED
  BY <1>4, <1>5, <1>6, <1>7, <1>8, <1>9, EnvironmentTypes DEF TypeInv, Types

LEMMA WrittenKeeps ==
  ASSUME NEW form, NEW p \in DOMAIN files
  PROVE  /\ DOMAIN Written(form) = DOMAIN files
         /\ files[p].form # "growing" => Written(form)[p] = files[p]
BY DEF Written

LEMMA WrittenTurns ==
  ASSUME Directory(files, clock), NEW form \in Forms, NEW p \in DOMAIN files
  PROVE  /\ Written(form)[p] \in FileRecords(clock)
         /\ Written(form)[p].data = files[p].data
         /\ Written(form)[p].created = files[p].created
         /\ files[p].form = "growing" => Written(form)[p].form = form
<1>1. files[p] \in FileRecords(clock)
  BY DEF Directory
<1> QED
  BY <1>1 DEF Written, FileRecords

LEMMA WrittenType ==
  ASSUME clock \in Nat \ {0}, Directory(files, clock), NEW form \in Forms
  PROVE  Directory(Written(form), clock)
<1>1. DOMAIN Written(form) = DOMAIN files
  BY DEF Written
<1>2. \A p \in DOMAIN files : Written(form)[p] \in FileRecords(clock)
  BY WrittenTurns
<1>3. Written(form) \in [DOMAIN files -> FileRecords(clock)]
  <2>1. Written(form) = [p \in DOMAIN files |-> Written(form)[p]]
    BY DEF Written
  <2> QED
    BY <1>2, <2>1
<1>4. \A p \in DOMAIN files : Written(form)[p].created = files[p].created
  BY WrittenTurns
<1> QED
  BY <1>1, <1>3, <1>4 DEF Directory

LEMMA WrittenStays ==
  ASSUME Directory(files, clock), NEW form \in Forms, files' = Written(form),
         NEW p \in DOMAIN files
  PROVE  Stays(p)
<1>1. files[p].form \in Intact => files[p].form # "growing"
  BY DEF Intact
<1> QED
  BY <1>1, WrittenKeeps, WrittenTurns DEF Stays

LEMMA OverType ==
  ASSUME NEW d \in Content, NEW e \in Content
  PROVE  Over(d, e) \in Content
<1>1. \A k \in Keys : d[k] \in Entry \cup {Absent} /\ e[k] \in Entry \cup {Absent}
  BY DEF Content
<1> QED
  BY <1>1 DEF Over, Content

LEMMA FlushEndTypes ==
  ASSUME TypeInv, FlushEnd \/ FlushTorn
  PROVE  TypeInv'
<1>1. PICK form \in Forms : files' = Written(form)
  BY DEF FlushEnd, FlushTorn, Forms
<1>2. clock' = clock /\ clock \in Nat \ {0} /\ Directory(files, clock)
  BY DEF FlushEnd, FlushTorn, TypeInv, Types
<1>3. Directory(files', clock')
  BY <1>1, <1>2, WrittenType
<1>4. \A p \in DOMAIN files : Stays(p)
  BY <1>1, <1>2, WrittenStays
<1>5. store' \in Content /\ writing' \in Content
  BY OverType, NoContentType DEF FlushEnd, FlushTorn, TypeInv, Types
<1>6. UNCHANGED <<flushed, due, pc, level, rounds, units, unit, outputs>>
  BY DEF FlushEnd, FlushTorn
<1>7. TablesNumbered'
  <2>1. DOMAIN files' = DOMAIN files
    BY <1>1 DEF Written
  <2> QED
    BY <1>6, <2>1 DEF TypeInv, TablesNumbered
<1> QED
  BY <1>2, <1>3, <1>4, <1>5, <1>6, <1>7, EnvironmentTypes DEF TypeInv, Types

LEMMA TimerExpiresTypes ==
  ASSUME TypeInv, TimerExpires
  PROVE  TypeInv'
<1>1. UNCHANGED <<files, clock, flushed, writing, store, pc, level, rounds, units, unit, outputs>>
      /\ due' \in BOOLEAN
  BY DEF TimerExpires
<1>2. \A p \in DOMAIN files : Stays(p)
  BY <1>1 DEF Stays
<1>3. TablesNumbered'
  BY <1>1 DEF TypeInv, TablesNumbered
<1> QED
  BY <1>1, <1>2, <1>3, EnvironmentTypes DEF TypeInv, Types

LEMMA NextLevelType ==
  ASSUME level \in 1..Levels
  PROVE  NextLevel \in 1..Levels
BY LevelsAssumption DEF NextLevel

LEMMA VisitSkipTypes ==
  ASSUME TypeInv, VisitSkip
  PROVE  TypeInv'
<1>1. /\ units = <<>> /\ unit = NoUnit /\ outputs = <<>>
      /\ UNCHANGED <<files, clock, flushed, writing, store, due, pc, rounds, units, unit, outputs>>
      /\ level' = NextLevel /\ pc = "visit"
  BY DEF VisitSkip, TypeInv, Control
<1>2. TablesNumbered'
  BY <1>1 DEF TypeInv, TablesNumbered
<1> QED
  BY <1>1, <1>2, NextLevelType, VisitTypes DEF TypeInv, Types

\* The units of a listing are the tables of the level, in its order.
LEMMA VisitCompactWaiting ==
  ASSUME Directory(files, clock), UNCHANGED <<files, level>>, units' = Partition(Listing)
  PROVE  WaitingOK' /\ units' \in Seq(Seq(Items))
<1>1. /\ Listing \in Seq(Items)
      /\ \A i \in DOMAIN Listing : Listing[i] \in Found
      /\ \A i, j \in DOMAIN Listing :
           i < j => At(Listing[i]).created > At(Listing[j]).created
  BY ListingOrder
<1>2. /\ units' \in Seq(Seq(Items))
      /\ \A u \in DOMAIN units' :
           /\ Len(units'[u]) \in 2..TargetChunks
           /\ \A i \in DOMAIN units'[u] :
                Place(u, i) \in DOMAIN Listing /\ units'[u][i] = Listing[Place(u, i)]
  BY <1>1, PartitionUnits
<1>3. ASSUME NEW u \in DOMAIN units'
      PROVE  u \in Nat \ {0} /\ DOMAIN units'[u] \subseteq 1..TargetChunks
  <2>1. units'[u] \in Seq(Items) /\ u \in Nat \ {0}
    BY <1>2
  <2>2. DOMAIN units'[u] = 1..Len(units'[u])
    BY <2>1
  <2> QED
    BY <1>2, <2>1, <2>2, ChunksAssumption
<1>4. ASSUME NEW u \in DOMAIN units', NEW i \in DOMAIN units'[u]
      PROVE  units'[u][i][2] = "bin" /\ Has(units'[u][i])
  BY <1>1, <1>2, FoundTables
<1>5. ASSUME NEW u \in DOMAIN units', NEW v \in DOMAIN units',
             NEW i \in DOMAIN units'[u], NEW j \in DOMAIN units'[v],
             u < v \/ (u = v /\ i < j)
      PROVE  At(units'[u][i]).created > At(units'[v][j]).created
  <2>1. Place(u, i) < Place(v, j)
    BY <1>3, <1>5, PlacesOrdered
  <2> QED
    BY <1>1, <1>2, <2>1
<1>6. \A u \in DOMAIN units' : Len(units'[u]) >= 2
  BY <1>2, ChunksAssumption
<1> QED
  BY <1>2, <1>4, <1>5, <1>6 DEF WaitingOK, Has, At

LEMMA VisitCompactTypes ==
  ASSUME TypeInv, VisitCompact
  PROVE  TypeInv'
<1>1. /\ UNCHANGED <<files, clock, flushed, writing, store, due, level>>
      /\ units' = Partition(Listing)
      /\ unit' = NoUnit /\ outputs' = <<>> /\ pc' = "units"
      /\ rounds' = rounds + (IF units' = <<>> THEN 0 ELSE 1)
      /\ units' # <<>> => rounds < MaxCompactions
  BY DEF VisitCompact
<1>2. WaitingOK' /\ units' \in Seq(Seq(Items))
  BY <1>1, VisitCompactWaiting DEF TypeInv, Types
<1>3. /\ unit' \in Units /\ unit'.pair = 0
      /\ unit'.target = <<>> /\ unit'.merged = <<>> /\ unit'.consumed = <<>>
  BY <1>1, NoUnitIs
<1>4. outputs' \in Seq(Items) /\ DOMAIN outputs' = {}
  BY <1>1
<1>5. rounds' \in 0..MaxCompactions
  BY <1>1, BoundsAssumption DEF TypeInv, Types
<1>6. Types'
  BY <1>1, <1>2, <1>3, <1>4, <1>5 DEF TypeInv, Types
<1>7. Control' /\ OutOK' /\ TablesNumbered'
  BY <1>1, <1>3 DEF TypeInv, Control, OutOK, TablesNumbered
<1>8. OutputsOK'
  BY <1>4 DEF OutputsOK
<1> QED
  BY <1>2, <1>3, <1>6, <1>7, <1>8, IdleUnit DEF TypeInv

\* The first of the waiting units is an input, and the others do not have its tables.
LEMMA BeginUnitTypes ==
  ASSUME TypeInv, BeginUnit
  PROVE  TypeInv'
<1> DEFINE head == units[1]
<1>1. /\ units # <<>> /\ pc' = "join"
      /\ UNCHANGED <<files, clock, flushed, writing, store, due, level, rounds, outputs>>
      /\ unit' = [NoUnit EXCEPT !.id = unit.id, !.target = Head(units),
                                !.input = Overlay(Head(units))]
      /\ units' = Tail(units)
  BY DEF BeginUnit
<1>2. units \in Seq(Seq(Items)) /\ 1 \in DOMAIN units /\ Head(units) = head
  BY <1>1 DEF TypeInv, Types
<1>3. /\ units' \in Seq(Seq(Items))
      /\ \A u \in DOMAIN units' :
           u \in Nat /\ u + 1 \in DOMAIN units /\ units'[u] = units[u + 1]
  BY <1>1, <1>2
<1>4. head \in Seq(Items) /\ Len(head) >= 2
  BY <1>2 DEF TypeInv, WaitingOK
<1>5. Overlay(head) \in Content
  <2>1. \A i \in DOMAIN head : files[Path(level, head[i])].data \in Content
    BY <1>2 DEF TypeInv, WaitingOK, Has, Types, Directory, FileRecords
  <2> QED
    BY <1>4, <2>1, OverlayIsOf, OverlayType
<1> HIDE DEF head
<1>6. /\ unit' \in Units /\ unit'.id = unit.id /\ unit'.pair = 0 /\ unit'.target = head
      /\ unit'.merged = <<>> /\ unit'.consumed = <<>>
  <2>1. <<>> \in Seq(Items) /\ unit.id \in Nat
    BY DEF TypeInv, Types, Units
  <2> QED
    BY <1>1, <1>2, <1>4, <1>5, <2>1 DEF NoUnit, Units
<1>7. Types' /\ Control' /\ OutOK' /\ TablesNumbered'
  BY <1>1, <1>3, <1>4, <1>6 DEF TypeInv, Types, Control, OutOK, TablesNumbered
<1>8. \A u, v \in DOMAIN units' :
        u + 1 \in DOMAIN units /\ v + 1 \in DOMAIN units
          /\ (u < v => u + 1 < v + 1) /\ (u = v => u + 1 = v + 1)
  BY <1>3
<1>9. WaitingOK'
  <2>1. ASSUME NEW u \in DOMAIN units', NEW i \in DOMAIN units'[u]
        PROVE  units'[u][i][2] = "bin" /\ Has(units'[u][i])
    BY <1>3 DEF TypeInv, WaitingOK
  <2>2. ASSUME NEW u \in DOMAIN units', NEW v \in DOMAIN units',
               NEW i \in DOMAIN units'[u], NEW j \in DOMAIN units'[v],
               u < v \/ (u = v /\ i < j)
        PROVE  At(units'[u][i]).created > At(units'[v][j]).created
    <3>1. u + 1 < v + 1 \/ (u + 1 = v + 1 /\ i < j)
      BY <1>8, <2>2
    <3>2. i \in DOMAIN units[u + 1] /\ j \in DOMAIN units[v + 1]
      BY <1>3
    <3>3. At(units[u + 1][i]).created > At(units[v + 1][j]).created
      BY <1>8, <3>1, <3>2 DEF TypeInv, WaitingOK
    <3> QED
      BY <1>3, <3>3
  <2>3. \A u \in DOMAIN units' : Len(units'[u]) >= 2
    BY <1>3 DEF TypeInv, WaitingOK
  <2> QED
    BY <1>1, <2>1, <2>2, <2>3 DEF WaitingOK, Has, At
<1>10. DOMAIN unit'.merged = {} /\ DOMAIN unit'.consumed = {} /\ Len(unit'.merged) = 0
  BY <1>6
<1>11. MergedOK' /\ ConsumedOK'
  BY <1>6, <1>10 DEF MergedOK, ConsumedOK
<1>12. \A u \in DOMAIN units : \A i \in DOMAIN units[u] : At(units[u][i]).created \in Int
  BY DEF TypeInv, WaitingOK, Has, Types, Directory, FileRecords, At
<1>13. TargetOK'
  <2>1. \A i \in DOMAIN head : Has(head[i]) /\ head[i][2] = "bin"
    BY <1>2 DEF TypeInv, WaitingOK, head
  <2>2. ASSUME NEW i \in DOMAIN head, NEW j \in DOMAIN head, head[i] = head[j]
        PROVE  i = j
    <3>1. i \in Nat /\ j \in Nat
      BY <1>4
    <3>2. ~(i < j) /\ ~(j < i)
      BY <1>2, <1>12, <2>2 DEF TypeInv, WaitingOK, head
    <3> QED
      BY <3>1, <3>2
  <2>3. ASSUME NEW i \in DOMAIN head, NEW u \in DOMAIN units', NEW j \in DOMAIN units'[u]
        PROVE  head[i] # units'[u][j]
    <3>1. u + 1 \in DOMAIN units /\ units'[u] = units[u + 1] /\ 1 < u + 1
      <4>1. u \in 1..Len(units')
        BY <1>3
      <4> QED
        BY <1>3, <4>1
    <3>2. j \in DOMAIN units[u + 1] /\ i \in DOMAIN units[1]
      BY <3>1 DEF head
    <3>3. At(units[1][i]).created > At(units[u + 1][j]).created
      BY <1>2, <3>1, <3>2 DEF TypeInv, WaitingOK
    <3>4. At(units[1][i]).created \in Int
      BY <1>2, <1>12, <3>2
    <3>5. units[1][i] # units[u + 1][j]
      BY <3>3, <3>4
    <3> QED
      BY <3>1, <3>5 DEF head
  <2> QED
    BY <1>1, <1>6, <2>1, <2>2, <2>3 DEF TargetOK, Has
<1>14. OutputsOK'
  BY <1>1, <1>6 DEF TypeInv, OutputsOK, Has
<1> QED
  BY <1>7, <1>9, <1>11, <1>13, <1>14 DEF TypeInv

\* Everything the coordinator has is an item.
LEMMA ItemsTyped ==
  ASSUME Types
  PROVE  /\ level \in 1..(Levels + 1) /\ level + 1 \in 1..(Levels + 1)
         /\ unit.id \in Nat /\ unit.pass \in Nat /\ unit.pair \in Nat
         /\ unit.target \in Seq(Items) /\ unit.merged \in Seq(Items)
         /\ unit.consumed \in Seq(Items) /\ outputs \in Seq(Items)
         /\ Out \in Items /\ Out[2] = "tmp"
         /\ \A u \in DOMAIN units : units[u] \in Seq(Items)
         /\ \A u \in DOMAIN units : \A i \in DOMAIN units[u] : units[u][i] \in Items
         /\ \A i \in DOMAIN unit.target : unit.target[i] \in Items
         /\ \A i \in DOMAIN unit.merged : unit.merged[i] \in Items
         /\ \A i \in DOMAIN unit.consumed : unit.consumed[i] \in Items
         /\ \A i \in DOMAIN outputs : outputs[i] \in Items
<1>1. /\ unit.id \in Nat /\ unit.pass \in Nat /\ unit.pair \in Nat
      /\ unit.target \in Seq(Items) /\ unit.merged \in Seq(Items)
      /\ unit.consumed \in Seq(Items) /\ outputs \in Seq(Items)
  BY DEF Types, Units
<1>2. \A u \in DOMAIN units : units[u] \in Seq(Items)
  BY DEF Types
<1>3. Out \in Items /\ Out[2] = "tmp"
  BY <1>1, OutIsTmp, TmpType
<1> QED
  BY <1>1, <1>2, <1>3, LevelRange, ItemAt DEF Types

LEMMA OwnTmpIsTmp ==
  ASSUME NEW x, OwnTmp(x)
  PROVE  x[2] = "tmp"
BY TmpType DEF OwnTmp, Tmp

\* The output of a join is none of the files there that the coordinator knows of.
LEMMA OutApart ==
  ASSUME TypeInv
  PROVE  LET out == Path(level, Out)
         IN  /\ \A u \in DOMAIN units : \A i \in DOMAIN units[u] : Path(level, units[u][i]) # out
             /\ \A i \in DOMAIN unit.target : Path(level, unit.target[i]) # out
             /\ \A i \in DOMAIN unit.merged : Path(level, unit.merged[i]) # out
             /\ \A i \in DOMAIN unit.consumed : Path(level, unit.consumed[i]) # out
             /\ \A i \in DOMAIN outputs : Path(level, outputs[i]) # out
<1>1. Types
  BY DEF TypeInv
<1>2. ASSUME NEW x \in Items, Path(level, x) = Path(level, Out)
      PROVE  x = Tmp(unit.id, unit.pass, unit.pair) /\ x[2] = "tmp"
  BY <1>1, <1>2, ItemsTyped, PathInjective, OutIsTmp
<1>3. ASSUME NEW x \in Items, OwnTmp(x)
      PROVE  Path(level, x) # Path(level, Out)
  <2>1. PICK b \in Nat, c \in Nat : b < unit.pass /\ x = Tmp(unit.id, b, c)
    BY <1>3 DEF OwnTmp
  <2> QED
    BY <2>1, <1>2, TmpInjective
<1>4. \A u \in DOMAIN units : \A i \in DOMAIN units[u] : Path(level, units[u][i]) # Path(level, Out)
  BY <1>1, <1>2, ItemsTyped DEF TypeInv, WaitingOK
<1>5. \A i \in DOMAIN unit.target : Path(level, unit.target[i]) # Path(level, Out)
  BY <1>1, <1>2, <1>3, ItemsTyped DEF TypeInv, TargetOK
<1>6. ASSUME NEW i \in DOMAIN unit.merged
      PROVE  Path(level, unit.merged[i]) # Path(level, Out)
  <2>1. unit.merged[i] = Tmp(unit.id, unit.pass, i - 1)
    BY DEF TypeInv, MergedOK
  <2>2. i \in 1..unit.pair
    BY <1>1, ItemsTyped DEF TypeInv, MergedOK
  <2>3. i - 1 # unit.pair
    BY <2>2, <1>1, ItemsTyped
  <2> QED
    BY <1>1, <1>2, <2>1, <2>3, ItemsTyped, TmpInjective
<1>7. \A i \in DOMAIN unit.consumed : Path(level, unit.consumed[i]) # Path(level, Out)
  BY <1>1, <1>2, <1>3, ItemsTyped DEF TypeInv, ConsumedOK
<1>8. ASSUME NEW i \in DOMAIN outputs
      PROVE  Path(level, outputs[i]) # Path(level, Out)
  <2>1. PICK a \in Nat, b \in Nat, c \in Nat : a < unit.id /\ outputs[i] = Tmp(a, b, c)
    BY DEF TypeInv, OutputsOK
  <2> QED
    BY <2>1, <1>1, <1>2, ItemsTyped, TmpInjective
<1> QED
  BY <1>4, <1>5, <1>6, <1>7, <1>8

\* Creating the output changes no file that the coordinator knows of.
LEMMA OutStays ==
  ASSUME TypeInv, NEW data, NEW form, files' = Create(files, Path(level, Out), data, form)
  PROVE  UnitsStay /\ TargetStays /\ MergedStays /\ OutputsStay
<1>1. ASSUME NEW p, p # Path(level, Out)
      PROVE  Stays(p)
  BY <1>1, CreateKeeps DEF Stays
<1> QED
  BY <1>1, OutApart DEF UnitsStay, TargetStays, MergedStays, OutputsStay

LEMMA OutCreateTypes ==
  ASSUME TypeInv, NEW data \in Content, NEW form \in Forms, UNCHANGED flushed,
         files' = Create(files, Path(level, Out), data, form), clock' = Tick(Path(level, Out))
  PROVE  clock' \in Nat \ {0} /\ Directory(files', clock') /\ TablesNumbered'
<1> DEFINE out == Path(level, Out)
<1>1. out \in Paths /\ out[2] = <<"unit", unit.id, unit.pass, unit.pair>>
  BY ItemsTyped, PathType, PathExtension, OutIsTmp DEF TypeInv, Tmp
<1>2. clock \in Nat \ {0} /\ Directory(files, clock)
  BY DEF TypeInv, Types
<1> HIDE DEF out
<1>3. clock' \in Nat \ {0} /\ Directory(files', clock')
  <2>1. clock' = IF out \in DOMAIN files THEN clock ELSE clock + 1
    BY DEF Tick, out
  <2> QED
    BY <1>1, <1>2, <2>1, CreateType DEF out
<1>4. TablesNumbered'
  <2>1. \A q \in DOMAIN files' : q = out \/ q \in DOMAIN files
    BY CreateOnly DEF out
  <2>2. unit.id \in Nat /\ unit.pass \in Nat /\ unit.pair \in Nat
    BY ItemsTyped DEF TypeInv
  <2> QED
    BY <1>1, <2>1, <2>2, NamesRemain DEF TypeInv
<1> QED
  BY <1>3, <1>4

LEMMA JoinedType ==
  ASSUME NEW d \in Content, NEW e \in Content
  PROVE  Joined(d, e) \in Content
<1>1. \A c \in Content : Alive(c) \in Content
  <2> SUFFICES ASSUME NEW c \in Content, NEW k \in Keys
               PROVE  Alive(c)[k] \in Entry \cup {Absent}
    BY DEF Alive, Content
  <2> QED
    BY DEF Alive, Content
<1> QED
  BY <1>1, OverType DEF Joined

LEMMA TakesType ==
  ASSUME TypeInv, NEW i \in DOMAIN unit.target, NEW d \in Takes(unit.target[i])
  PROVE  d \in Content
<1>1. At(unit.target[i]).data \in Content
  BY DEF TypeInv, TargetOK, Has, At, Types, Directory, FileRecords
<1>2. \A ks \in SUBSET Keys : Part(At(unit.target[i]).data, ks) \in Content
  <2> SUFFICES ASSUME NEW ks \in SUBSET Keys, NEW k \in Keys
               PROVE  Part(At(unit.target[i]).data, ks)[k] \in Entry \cup {Absent}
    BY DEF Part, Content
  <2> QED
    BY <1>1 DEF Part, Content
<1> QED
  BY <1>1, <1>2 DEF Takes

LEMMA JoinTypes ==
  ASSUME TypeInv, Join
  PROVE  TypeInv'
<1>1. /\ pc = "join" /\ pc' = "drain" /\ clock' = Tick(Path(level, Out))
      /\ UNCHANGED <<flushed, writing, store, due, level, rounds, units, unit, outputs>>
  BY DEF Join
<1>2. 1 \in DOMAIN unit.target /\ 2 \in DOMAIN unit.target
  BY <1>1, ItemsTyped, RestItems DEF TypeInv, Control
<1>3. PICK data \in Content : files' = Create(files, Path(level, Out), data, "raw")
  BY <1>2, TakesType, JoinedType DEF Join
<1>4. clock' \in Nat \ {0} /\ Directory(files', clock') /\ TablesNumbered'
  BY <1>1, <1>3, OutCreateTypes DEF Forms
<1>5. UnitsStay /\ TargetStays /\ MergedStays /\ OutputsStay
  BY <1>3, OutStays
<1>6. Types' /\ Control'
  BY <1>1, <1>4 DEF TypeInv, Types, Control
<1>7. OutOK'
  BY <1>1, <1>3, CreateMakes DEF OutOK, Has, Out, OutName
<1>8. unit.id \in Nat
  BY ItemsTyped DEF TypeInv
<1>9. OutputsOK'
  BY <1>1, <1>5, <1>8, OutputsRemain DEF TypeInv
<1> QED
  BY <1>1, <1>4, <1>5, <1>6, <1>7, <1>9,
     WaitingStays, TargetRemains, MergedRemains, ConsumedRemains DEF TypeInv

\* The coordinator gives a unit up; what waits and what is to be promoted is there.
LEMMA GiveUpTypes ==
  ASSUME TypeInv, AbandonUnit,
         UNCHANGED <<flushed, writing, store, due, level, rounds, units, outputs>>,
         clock' \in Nat \ {0}, Directory(files', clock'), TablesNumbered',
         UnitsStay, OutputsStay
  PROVE  TypeInv'
<1>1. unit.id \in Nat /\ unit'.id \in Nat /\ unit'.id >= unit.id
  <2>1. unit.id \in Nat
    BY ItemsTyped DEF TypeInv
  <2> QED
    BY <2>1, NoUnitType DEF AbandonUnit
<1>2. OutputsOK'
  BY <1>1, OutputsRemain DEF TypeInv
<1> QED
  BY <1>2, AbandonTypes DEF TypeInv, Types

LEMMA JoinFailsTypes ==
  ASSUME TypeInv, JoinFails
  PROVE  TypeInv'
<1>1. /\ AbandonUnit
      /\ UNCHANGED <<flushed, writing, store, due, level, rounds, units, outputs>>
  BY DEF JoinFails
<1>2. /\ clock' \in Nat \ {0} /\ Directory(files', clock') /\ TablesNumbered'
      /\ UnitsStay /\ OutputsStay
  <2>1. CASE /\ files' = Create(files, Path(level, Out), NoContent, "bad")
             /\ clock' = Tick(Path(level, Out))
    BY <1>1, <2>1, OutCreateTypes, OutStays, NoContentType DEF Forms
  <2>2. CASE UNCHANGED <<files, clock>>
    BY <1>1, <2>2 DEF TypeInv, Types, TablesNumbered, UnitsStay, OutputsStay, Stays
  <2> QED
    BY <2>1, <2>2 DEF JoinFails
<1> QED
  BY <1>1, <1>2, GiveUpTypes DEF TypeInv, Types

\* What is left in place when a pair is drained.
Apart(x, n) ==
  \/ \E u \in DOMAIN units : \E i \in DOMAIN units[u] : x = units[u][i]
  \/ \E i \in DOMAIN unit.target : i # n /\ x = unit.target[i]
  \/ x[2] = "tmp"

LEMMA PairApart ==
  ASSUME TypeInv, NEW n \in DOMAIN unit.target, unit.target[n][2] = "bin",
         NEW x \in Items, Apart(x, n)
  PROVE  /\ Path(level, x) # Path(level, unit.target[n])
         /\ Path(level, x) # Path(level, Drained(unit.target[n]))
<1> DEFINE t == unit.target[n]
<1>1. t \in Items /\ Drained(t) \in Items /\ Drained(t)[2] = "drain" /\ t[2] = "bin"
  BY ItemsTyped, DrainedType DEF TypeInv
<1>2. x # t
  BY DEF Apart, TypeInv, TargetOK
<1>3. x[2] \in {"bin", "tmp"}
  <2>1. \A i \in DOMAIN unit.target : unit.target[i][2] \in {"bin", "tmp"}
    BY OwnTmpIsTmp DEF TypeInv, TargetOK
  <2> QED
    BY <2>1 DEF Apart, TypeInv, WaitingOK
<1>4. x # Drained(t)
  BY <1>1, <1>3
<1> HIDE DEF t
<1>5. Path(level, x) # Path(level, t) /\ Path(level, x) # Path(level, Drained(t))
  BY <1>1, <1>2, <1>4, PathInjective
<1> QED
  BY <1>5 DEF t

PairDrained == DrainOne(DrainOne(files, unit.target[1]), unit.target[2])

LEMMA FirstDrained ==
  ASSUME TypeInv, 1 \in DOMAIN unit.target, NEW x \in Items, Has(x), Apart(x, 1)
  PROVE  LET gs == DrainOne(files, unit.target[1])
         IN  Path(level, x) \in DOMAIN gs /\ gs[Path(level, x)] = files[Path(level, x)]
BY PairApart, DrainOneKeeps DEF Has

LEMMA PairKeeps ==
  ASSUME TypeInv, 1 \in DOMAIN unit.target, 2 \in DOMAIN unit.target,
         NEW x \in Items, Has(x), Apart(x, 1), Apart(x, 2)
  PROVE  Path(level, x) \in DOMAIN PairDrained /\ PairDrained[Path(level, x)] = files[Path(level, x)]
<1> DEFINE gs == DrainOne(files, unit.target[1])
           p == Path(level, x)
<1>1. p \in DOMAIN gs /\ gs[p] = files[p]
  BY FirstDrained
<1>2. unit.target[2][2] = "bin" =>
        p # Path(level, unit.target[2]) /\ p # Path(level, Drained(unit.target[2]))
  BY PairApart
<1> HIDE DEF gs, p
<1>3. p \in DOMAIN DrainOne(gs, unit.target[2]) /\ DrainOne(gs, unit.target[2])[p] = gs[p]
  BY <1>1, <1>2, DrainOneKeeps DEF p
<1> QED
  BY <1>1, <1>3 DEF gs, p, PairDrained

\* Each of the two is found under its new name.
LEMMA PairMoves ==
  ASSUME TypeInv, 1 \in DOMAIN unit.target, 2 \in DOMAIN unit.target, NEW n \in 1..2
  PROVE  LET to == Path(level, Drained(unit.target[n]))
         IN  to \in DOMAIN PairDrained
               /\ PairDrained[to] = files[Path(level, unit.target[n])]
<1> DEFINE gs == DrainOne(files, unit.target[1])
           l == unit.target[1]
           r == unit.target[2]
<1>1. l \in Items /\ r \in Items /\ l # r /\ Has(l) /\ Has(r)
  BY ItemsTyped DEF TypeInv, TargetOK
<1>2. Apart(r, 1)
  BY DEF Apart
<1>3. Path(level, r) \in DOMAIN gs /\ gs[Path(level, r)] = files[Path(level, r)]
  BY <1>1, <1>2, FirstDrained
<1>4. /\ Path(level, Drained(l)) \in DOMAIN gs
      /\ gs[Path(level, Drained(l))] = files[Path(level, l)]
  BY <1>1, DrainOneMoves DEF Has
<1>5. CASE n = 2
  BY <1>1, <1>3, <1>5, DrainOneMoves DEF PairDrained
<1>6. CASE n = 1
  <2>1. Drained(l) \in Items /\ Drained(r) \in Items
    BY <1>1, DrainedType
  <2>2. ASSUME r[2] = "bin"
        PROVE  Drained(l) # r /\ Drained(l) # Drained(r)
    <3>1. CASE l[2] = "bin"
      BY <1>1, <2>2, <3>1, DrainedType, DrainedInjective
    <3>2. CASE l[2] # "bin"
      <4>1. l[2] = "tmp"
        BY <3>2, OwnTmpIsTmp DEF TypeInv, TargetOK
      <4> QED
        BY <1>1, <2>2, <3>2, <4>1, DrainedType
    <3> QED
      BY <3>1, <3>2
  <2>3. r[2] = "bin" => /\ Path(level, Drained(l)) # Path(level, r)
                        /\ Path(level, Drained(l)) # Path(level, Drained(r))
    BY <1>1, <2>1, <2>2, PathInjective
  <2> HIDE DEF gs, l, r
  <2>4. /\ Path(level, Drained(l)) \in DOMAIN DrainOne(gs, r)
        /\ DrainOne(gs, r)[Path(level, Drained(l))] = gs[Path(level, Drained(l))]
    BY <1>4, <2>3, DrainOneKeeps
  <2> QED
    BY <1>4, <1>6, <2>4 DEF gs, l, r, PairDrained
<1> QED
  BY <1>5, <1>6

\* What is there after one of the drains was there before, maybe under another name.
LEMMA DrainOneNames ==
  ASSUME NEW fs, NEW x, Path(level, x) \in DOMAIN fs, NEW q \in DOMAIN DrainOne(fs, x)
  PROVE  \E p \in DOMAIN fs : q[2] = p[2]
<1>1. CASE x[2] = "bin" /\ q = Path(level, Drained(x))
  <2>1. q[2] = Path(level, x)[2]
    BY <1>1, PathExtension DEF Drained
  <2> QED
    BY <2>1
<1>2. CASE ~(x[2] = "bin" /\ q = Path(level, Drained(x)))
  BY <1>2, DrainOneOnly
<1> QED
  BY <1>1, <1>2

LEMMA FirstDrainTypes ==
  ASSUME TypeInv, 1 \in DOMAIN unit.target
  PROVE  LET gs == DrainOne(files, unit.target[1])
         IN  Directory(gs, clock) /\ \A q \in DOMAIN gs : \E p \in DOMAIN files : q[2] = p[2]
<1>1. Path(level, unit.target[1]) \in DOMAIN files /\ unit.target[1] \in Items
  BY ItemsTyped DEF TypeInv, TargetOK, Has
<1>2. Directory(files, clock) /\ level \in 1..Levels /\ clock \in Nat
  BY DEF TypeInv, Types
<1> QED
  BY <1>1, <1>2, DrainOneType, DrainOneNames

LEMMA PairDrainTypes ==
  ASSUME TypeInv, 1 \in DOMAIN unit.target, 2 \in DOMAIN unit.target
  PROVE  /\ Directory(PairDrained, clock)
         /\ \A q \in DOMAIN PairDrained : \E p \in DOMAIN files : q[2] = p[2]
<1> DEFINE gs == DrainOne(files, unit.target[1])
           r == unit.target[2]
<1>1. Directory(gs, clock) /\ \A q \in DOMAIN gs : \E p \in DOMAIN files : q[2] = p[2]
  BY FirstDrainTypes
<1>2. r \in Items /\ Has(r) /\ Apart(r, 1)
  BY ItemsTyped DEF TypeInv, TargetOK, Apart
<1>3. Path(level, r) \in DOMAIN gs
  BY <1>2, FirstDrained
<1>4. level \in 1..Levels /\ clock \in Nat
  BY DEF TypeInv, Types
<1> HIDE DEF gs
<1>5. Directory(DrainOne(gs, r), clock)
  BY <1>1, <1>2, <1>3, <1>4, DrainOneType
<1>6. \A q \in DOMAIN DrainOne(gs, r) : \E p \in DOMAIN gs : q[2] = p[2]
  BY <1>3, DrainOneNames
<1> QED
  BY <1>1, <1>5, <1>6 DEF gs, PairDrained

Rest == Tail(Tail(unit.target))
MergedNow == Append(unit.merged, Out)
DrainedNow == <<Drained(unit.target[1]), Drained(unit.target[2])>>

LEMMA DrainedNowItems ==
  ASSUME unit.target[1] \in Items, unit.target[2] \in Items
  PROVE  /\ DrainedNow \in Seq(Items) /\ Len(DrainedNow) = 2 /\ DOMAIN DrainedNow = {1, 2}
         /\ DrainedNow[1] = Drained(unit.target[1]) /\ DrainedNow[2] = Drained(unit.target[2])
BY DrainedType DEF DrainedNow

LEMMA UnitIs ==
  ASSUME unit \in Units
  PROVE  unit = [id |-> unit.id, pass |-> unit.pass, pair |-> unit.pair, target |-> unit.target,
                 merged |-> unit.merged, consumed |-> unit.consumed, input |-> unit.input]
BY DEF Units

LEMMA UnitGoesOn ==
  ASSUME unit \in Units, NEW target \in Seq(Items), NEW merged \in Seq(Items),
         NEW consumed \in Seq(Items),
         unit' = [unit EXCEPT !.target = target, !.merged = merged,
                              !.consumed = consumed, !.pair = unit.pair + 1]
  PROVE  /\ unit' \in Units /\ unit'.id = unit.id /\ unit'.pass = unit.pass
         /\ unit'.pair = unit.pair + 1
         /\ unit'.target = target /\ unit'.merged = merged /\ unit'.consumed = consumed
         /\ unit'.input = unit.input
<1>1. unit' = [id |-> unit.id, pass |-> unit.pass, pair |-> unit.pair + 1, target |-> target,
               merged |-> merged, consumed |-> consumed, input |-> unit.input]
  BY UnitIs
<1>2. unit.id \in Nat /\ unit.pass \in Nat /\ unit.pair + 1 \in Nat /\ unit.input \in Content
  BY DEF Units
<1>3. unit' \in Units
  BY <1>1, <1>2 DEF Units
<1> QED
  BY <1>1, <1>3

LEMMA UnitTurns ==
  ASSUME unit \in Units, NEW target \in Seq(Items), NEW consumed \in Seq(Items),
         unit' = [unit EXCEPT !.target = target, !.merged = <<>>,
                              !.consumed = consumed, !.pair = 0, !.pass = unit.pass + 1]
  PROVE  /\ unit' \in Units /\ unit'.id = unit.id /\ unit'.pass = unit.pass + 1
         /\ unit'.pair = 0
         /\ unit'.target = target /\ unit'.merged = <<>> /\ unit'.consumed = consumed
         /\ unit'.input = unit.input
<1>1. unit' = [id |-> unit.id, pass |-> unit.pass + 1, pair |-> 0, target |-> target,
               merged |-> <<>>, consumed |-> consumed, input |-> unit.input]
  BY UnitIs
<1>2. /\ unit.id \in Nat /\ unit.pass + 1 \in Nat /\ 0 \in Nat /\ unit.input \in Content
      /\ <<>> \in Seq(Items)
  BY DEF Units
<1>3. unit' \in Units
  BY <1>1, <1>2 DEF Units
<1> QED
  BY <1>1, <1>3

\* The pass goes on, or it ends and the next one has what it left.
LEMMA DrainStep ==
  ASSUME TypeInv, Drain
  PROVE  /\ pc = "drain" /\ 1 \in DOMAIN unit.target /\ 2 \in DOMAIN unit.target
         /\ files' = PairDrained
         /\ UNCHANGED <<clock, flushed, writing, store, due, level, rounds, units, outputs>>
         /\ Rest \in Seq(Items) /\ MergedNow \in Seq(Items)
         /\ unit' \in Units
         /\ unit'.id = unit.id /\ unit'.input = unit.input
         /\ unit'.consumed = unit.consumed \o DrainedNow
         /\ \/ /\ unit'.target = Rest /\ Len(Rest) >= 2
               /\ unit'.merged = MergedNow /\ unit'.pair = unit.pair + 1
               /\ unit'.pass = unit.pass
               /\ pc' = "join"
            \/ /\ unit'.target = MergedNow \o Rest /\ Len(Rest) < 2
               /\ unit'.merged = <<>> /\ unit'.pair = 0
               /\ unit'.pass = unit.pass + 1
               /\ pc' = IF Len(unit'.target) >= 2 THEN "join" ELSE "frame"
<1>1. pc = "drain" /\ Len(unit.target) >= 2
  BY DEF Drain, TypeInv, Control
<1>2. /\ unit.target \in Seq(Items) /\ unit.merged \in Seq(Items)
      /\ unit.consumed \in Seq(Items) /\ Out \in Items
      /\ unit.pass \in Nat /\ unit.pair \in Nat /\ unit \in Units
  BY ItemsTyped DEF TypeInv, Types
<1>3. /\ 1 \in DOMAIN unit.target /\ 2 \in DOMAIN unit.target
      /\ unit.target[1] \in Items /\ unit.target[2] \in Items
      /\ Rest \in Seq(Items)
  BY <1>1, <1>2, RestItems DEF Rest
<1>4. MergedNow \in Seq(Items) /\ MergedNow \o Rest \in Seq(Items)
  BY <1>2, <1>3, AppendItems, ConcatItems DEF MergedNow
<1>5. unit.consumed \o DrainedNow \in Seq(Items)
  BY <1>2, <1>3, DrainedNowItems, ConcatItems
<1>6. files' = PairDrained
  BY DEF Drain, PairDrained
<1>7. unit' = IF Len(Rest) >= 2
              THEN [unit EXCEPT !.target = Rest, !.merged = MergedNow,
                                !.consumed = unit.consumed \o DrainedNow, !.pair = unit.pair + 1]
              ELSE [unit EXCEPT !.target = MergedNow \o Rest, !.merged = <<>>,
                                !.consumed = unit.consumed \o DrainedNow, !.pair = 0,
                                !.pass = unit.pass + 1]
  BY DEF Drain, Rest, MergedNow, DrainedNow
<1>8. /\ pc' = IF Len(unit'.target) >= 2 THEN "join" ELSE "frame"
      /\ UNCHANGED <<clock, flushed, writing, store, due, level, rounds, units, outputs>>
  BY DEF Drain
<1>9. CASE Len(Rest) >= 2
  <2> DEFINE consumed == unit.consumed \o DrainedNow
  <2>1. consumed \in Seq(Items)
    BY <1>5
  <2>2. unit' = [unit EXCEPT !.target = Rest, !.merged = MergedNow,
                             !.consumed = consumed, !.pair = unit.pair + 1]
    BY <1>7, <1>9
  <2> HIDE DEF consumed
  <2>3. /\ unit' \in Units /\ unit'.id = unit.id /\ unit'.pass = unit.pass
        /\ unit'.pair = unit.pair + 1 /\ unit'.target = Rest /\ unit'.merged = MergedNow
        /\ unit'.consumed = consumed /\ unit'.input = unit.input
    BY <1>2, <1>3, <1>4, <2>1, <2>2, UnitGoesOn
  <2>4. pc' = "join"
    BY <1>8, <1>9, <2>3
  <2> QED
    BY <1>1, <1>3, <1>4, <1>6, <1>8, <1>9, <2>3, <2>4 DEF consumed
<1>10. CASE ~(Len(Rest) >= 2)
  <2>1. Len(Rest) < 2
    BY <1>3, <1>10
  <2> DEFINE consumed == unit.consumed \o DrainedNow
             target == MergedNow \o Rest
  <2>2. consumed \in Seq(Items) /\ target \in Seq(Items)
    BY <1>4, <1>5
  <2>3. unit' = [unit EXCEPT !.target = target, !.merged = <<>>,
                             !.consumed = consumed, !.pair = 0, !.pass = unit.pass + 1]
    BY <1>7, <1>10
  <2> HIDE DEF consumed, target
  <2>4. /\ unit' \in Units /\ unit'.id = unit.id /\ unit'.pass = unit.pass + 1
        /\ unit'.pair = 0 /\ unit'.target = target /\ unit'.merged = <<>>
        /\ unit'.consumed = consumed /\ unit'.input = unit.input
    BY <1>2, <2>2, <2>3, UnitTurns
  <2> QED
    BY <1>1, <1>3, <1>4, <1>6, <1>8, <2>1, <2>4 DEF consumed, target
<1> QED
  BY <1>9, <1>10

LEMMA PairItems ==
  ASSUME TypeInv, Drain
  PROVE  unit.target[1] \in Items /\ unit.target[2] \in Items
<1>1. 1 \in DOMAIN unit.target /\ 2 \in DOMAIN unit.target
  BY DrainStep
<1>2. unit.target \in Seq(Items)
  BY ItemsTyped DEF TypeInv
<1> QED
  BY <1>1, <1>2

\* Of what the unit still works on nothing is touched by a drain.
LEMMA DrainKeeps ==
  ASSUME TypeInv, Drain
  PROVE  /\ \A u \in DOMAIN units : \A i \in DOMAIN units[u] :
              Path(level, units[u][i]) \in DOMAIN files'
                /\ files'[Path(level, units[u][i])] = files[Path(level, units[u][i])]
         /\ \A i \in DOMAIN Rest :
              Path(level, Rest[i]) \in DOMAIN files'
                /\ files'[Path(level, Rest[i])] = files[Path(level, Rest[i])]
         /\ \A i \in DOMAIN MergedNow :
              Path(level, MergedNow[i]) \in DOMAIN files'
                /\ files'[Path(level, MergedNow[i])] = files[Path(level, MergedNow[i])]
         /\ \A i \in DOMAIN outputs :
              Path(level, outputs[i]) \in DOMAIN files'
                /\ files'[Path(level, outputs[i])] = files[Path(level, outputs[i])]
<1>1. /\ files' = PairDrained /\ 1 \in DOMAIN unit.target /\ 2 \in DOMAIN unit.target
      /\ pc = "drain" /\ Len(unit.target) >= 2 /\ unit.target \in Seq(Items)
  BY DrainStep, ItemsTyped DEF TypeInv, Control
<1>2. ASSUME NEW u \in DOMAIN units, NEW i \in DOMAIN units[u]
      PROVE  /\ units[u][i] \in Items /\ Has(units[u][i])
             /\ Apart(units[u][i], 1) /\ Apart(units[u][i], 2)
  BY ItemsTyped DEF TypeInv, WaitingOK, Apart
<1>3. ASSUME NEW i \in DOMAIN Rest
      PROVE  /\ Rest[i] \in Items /\ Has(Rest[i])
             /\ Apart(Rest[i], 1) /\ Apart(Rest[i], 2)
  <2>1. i + 2 \in DOMAIN unit.target /\ Rest[i] = unit.target[i + 2] /\ i \in Nat /\ i >= 1
    BY <1>1, RestItems DEF Rest
  <2>2. i + 2 # 1 /\ i + 2 # 2
    BY <2>1
  <2> QED
    BY <2>1, <2>2, ItemsTyped DEF TypeInv, TargetOK, Apart
<1>4. ASSUME NEW i \in DOMAIN MergedNow
      PROVE  /\ MergedNow[i] \in Items /\ Has(MergedNow[i])
             /\ Apart(MergedNow[i], 1) /\ Apart(MergedNow[i], 2)
  <2>1. unit.merged \in Seq(Items) /\ Out \in Items /\ Out[2] = "tmp" /\ Has(Out)
    BY <1>1, ItemsTyped DEF TypeInv, OutOK
  <2>2. \A j \in DOMAIN unit.merged :
          unit.merged[j] \in Items /\ Has(unit.merged[j]) /\ unit.merged[j][2] = "tmp"
    BY ItemsTyped DEF TypeInv, MergedOK, Tmp
  <2>3. (i \in DOMAIN unit.merged /\ MergedNow[i] = unit.merged[i]) \/ MergedNow[i] = Out
    BY <2>1, AppendItems DEF MergedNow
  <2> QED
    BY <2>1, <2>2, <2>3 DEF Apart
<1>5. ASSUME NEW i \in DOMAIN outputs
      PROVE  /\ outputs[i] \in Items /\ Has(outputs[i])
             /\ Apart(outputs[i], 1) /\ Apart(outputs[i], 2)
  BY ItemsTyped DEF TypeInv, OutputsOK, Apart, Tmp
<1> QED
  BY <1>1, <1>2, <1>3, <1>4, <1>5, PairKeeps

LEMMA DrainStays ==
  ASSUME TypeInv, Drain
  PROVE  UnitsStay /\ OutputsStay
BY DrainKeeps DEF UnitsStay, OutputsStay, Stays

\* The outputs of the pass and what is left of its input.
LEMMA NowItems ==
  ASSUME TypeInv, Drain
  PROVE  /\ Len(MergedNow) = unit.pair + 1
         /\ \A i \in DOMAIN MergedNow :
              /\ i \in Nat \ {0}
              /\ MergedNow[i] = Tmp(unit.id, unit.pass, i - 1)
         /\ \A i \in DOMAIN Rest :
              /\ Rest[i][2] = "bin" \/ OwnTmp(Rest[i])
              /\ \A u \in DOMAIN units : \A j \in DOMAIN units[u] : Rest[i] # units[u][j]
              /\ \A j \in DOMAIN unit.consumed : Rest[i] # unit.consumed[j]
              /\ Rest[i] # unit.target[1] /\ Rest[i] # unit.target[2]
         /\ \A i, j \in DOMAIN Rest : Rest[i] = Rest[j] => i = j
<1>1. /\ unit.merged \in Seq(Items) /\ Out \in Items /\ unit.pair \in Nat
      /\ Len(unit.merged) = unit.pair /\ Out = Tmp(unit.id, unit.pass, unit.pair)
      /\ unit.target \in Seq(Items) /\ Len(unit.target) >= 2
  BY ItemsTyped, OutIsTmp DEF Drain, TypeInv, MergedOK, Control
<1>2. ASSUME NEW i \in DOMAIN MergedNow
      PROVE  i \in Nat \ {0} /\ MergedNow[i] = Tmp(unit.id, unit.pass, i - 1)
  <2>1. \/ i \in DOMAIN unit.merged /\ MergedNow[i] = unit.merged[i]
        \/ i = unit.pair + 1 /\ MergedNow[i] = Out
    BY <1>1, AppendItems DEF MergedNow
  <2>2. (unit.pair + 1) - 1 = unit.pair
    BY <1>1
  <2>3. i \in Nat \ {0}
    BY <1>1, <2>1
  <2> QED
    BY <1>1, <2>1, <2>2, <2>3 DEF TypeInv, MergedOK
<1>3. \A i \in DOMAIN Rest :
        /\ i + 2 \in DOMAIN unit.target /\ Rest[i] = unit.target[i + 2]
        /\ i \in Int /\ i + 2 # 1 /\ i + 2 # 2
  BY <1>1, RestItems DEF Rest
<1>4. 1 \in DOMAIN unit.target /\ 2 \in DOMAIN unit.target
  BY <1>1
<1>5. ASSUME NEW i \in DOMAIN Rest
      PROVE  /\ Rest[i][2] = "bin" \/ OwnTmp(Rest[i])
             /\ \A u \in DOMAIN units : \A j \in DOMAIN units[u] : Rest[i] # units[u][j]
             /\ \A j \in DOMAIN unit.consumed : Rest[i] # unit.consumed[j]
             /\ Rest[i] # unit.target[1] /\ Rest[i] # unit.target[2]
  BY <1>3, <1>4 DEF TypeInv, TargetOK, ConsumedOK
<1>6. ASSUME NEW i \in DOMAIN Rest, NEW j \in DOMAIN Rest, Rest[i] = Rest[j]
      PROVE  i = j
  <2>1. i + 2 = j + 2
    BY <1>3, <1>6 DEF TypeInv, TargetOK
  <2> QED
    BY <1>3, <2>1
<1>7. Len(MergedNow) = unit.pair + 1
  BY <1>1, AppendItems DEF MergedNow
<1> QED
  BY <1>2, <1>5, <1>6, <1>7

LEMMA MergedNotRest ==
  ASSUME TypeInv, Drain
  PROVE  \A i \in DOMAIN MergedNow, j \in DOMAIN Rest : MergedNow[i] # Rest[j]
<1> SUFFICES ASSUME NEW i \in DOMAIN MergedNow, NEW j \in DOMAIN Rest, MergedNow[i] = Rest[j]
             PROVE  FALSE
  OBVIOUS
<1>1. Rest[j] = Tmp(unit.id, unit.pass, i - 1) /\ unit.pass \in Nat
  BY NowItems, ItemsTyped DEF TypeInv
<1>2. Rest[j][2] = "bin" \/ OwnTmp(Rest[j])
  BY NowItems
<1>3. Rest[j][2] = "tmp"
  BY <1>1 DEF Tmp
<1>4. PICK b \in Nat, c \in Nat : b < unit.pass /\ Rest[j] = Tmp(unit.id, b, c)
  BY <1>2, <1>3 DEF OwnTmp
<1> QED
  BY <1>1, <1>4, TmpInjective

\* Whatever the unit's input is after a drain, it is there and the unit's own.
DrainTarget(x) ==
  /\ Path(level, x) \in DOMAIN files'
  /\ x[2] = "bin" \/ \E b, c \in Nat : b < unit'.pass /\ x = Tmp(unit.id, b, c)
  /\ \A u \in DOMAIN units : \A j \in DOMAIN units[u] : x # units[u][j]
  /\ \A j \in DOMAIN unit.consumed : x # unit.consumed[j]
  /\ x # Drained(unit.target[1]) /\ x # Drained(unit.target[2])

LEMMA DrainRest ==
  ASSUME TypeInv, Drain, NEW i \in DOMAIN Rest
  PROVE  DrainTarget(Rest[i])
<1> DEFINE x == Rest[i]
<1>1. /\ x[2] = "bin" \/ OwnTmp(x)
      /\ \A u \in DOMAIN units : \A j \in DOMAIN units[u] : x # units[u][j]
      /\ \A j \in DOMAIN unit.consumed : x # unit.consumed[j]
      /\ x # unit.target[1] /\ x # unit.target[2]
  BY NowItems
<1>2. Path(level, x) \in DOMAIN files'
  BY DrainKeeps
<1>3. unit'.pass >= unit.pass /\ unit'.pass \in Nat /\ unit.pass \in Nat
  <2>1. unit.pass \in Nat
    BY ItemsTyped DEF TypeInv
  <2>2. unit'.pass = unit.pass \/ unit'.pass = unit.pass + 1
    BY DrainStep
  <2> QED
    BY <2>1, <2>2
<1>4. unit.target[1] \in Items /\ unit.target[2] \in Items
  BY PairItems
<1> HIDE DEF x
<1>5. x[2] = "bin" \/ \E b, c \in Nat : b < unit'.pass /\ x = Tmp(unit.id, b, c)
  <2>1. ASSUME OwnTmp(x)
        PROVE  \E b, c \in Nat : b < unit'.pass /\ x = Tmp(unit.id, b, c)
    <3>1. PICK b \in Nat, c \in Nat : b < unit.pass /\ x = Tmp(unit.id, b, c)
      BY <2>1 DEF OwnTmp
    <3>2. b < unit'.pass
      BY <1>3, <3>1
    <3> QED
      BY <3>1, <3>2
  <2> QED
    BY <1>1, <2>1
<1>6. x[2] \in {"bin", "tmp"}
  BY <1>1, OwnTmpIsTmp
<1>7. \A n \in 1..2 : x # Drained(unit.target[n])
  BY <1>1, <1>4, <1>6, DrainedType
<1> QED
  BY <1>1, <1>2, <1>5, <1>7 DEF DrainTarget, x

LEMMA DrainMerged ==
  ASSUME TypeInv, Drain, unit'.pass = unit.pass + 1, NEW i \in DOMAIN MergedNow
  PROVE  DrainTarget(MergedNow[i])
<1> DEFINE x == MergedNow[i]
<1>1. i - 1 \in Nat /\ x = Tmp(unit.id, unit.pass, i - 1)
  BY NowItems
<1>2. /\ unit.pass \in Nat /\ unit.pass < unit'.pass
      /\ unit.target[1] \in Items /\ unit.target[2] \in Items
  <2>1. unit.pass \in Nat
    BY ItemsTyped DEF TypeInv
  <2> QED
    BY <2>1, PairItems
<1>3. x[2] = "tmp"
  BY <1>1 DEF Tmp
<1>4. Path(level, x) \in DOMAIN files'
  BY DrainKeeps
<1> HIDE DEF x
<1>5. ~OwnTmp(x)
  <2> SUFFICES ASSUME OwnTmp(x)
               PROVE  FALSE
    OBVIOUS
  <2>1. PICK b \in Nat, c \in Nat : b < unit.pass /\ x = Tmp(unit.id, b, c)
    BY DEF OwnTmp
  <2> QED
    BY <1>1, <1>2, <2>1, TmpInjective
<1>6. \A u \in DOMAIN units : \A j \in DOMAIN units[u] : x # units[u][j]
  BY <1>3 DEF TypeInv, WaitingOK
<1>7. \A j \in DOMAIN unit.consumed : x # unit.consumed[j]
  BY <1>3, <1>5 DEF TypeInv, ConsumedOK
<1>8. ASSUME NEW n \in 1..2
      PROVE  x # Drained(unit.target[n])
  <2>1. unit.target[n] \in Items /\ n \in DOMAIN unit.target
    BY <1>2, DrainStep
  <2>2. unit.target[n][2] = "bin" \/ OwnTmp(unit.target[n])
    BY <2>1 DEF TypeInv, TargetOK
  <2>3. CASE unit.target[n][2] = "bin"
    BY <1>3, <2>1, <2>3, DrainedType
  <2>4. CASE OwnTmp(unit.target[n])
    BY <1>5, <2>1, <2>4, DrainedType, OwnTmpIsTmp
  <2> QED
    BY <2>2, <2>3, <2>4
<1> QED
  BY <1>1, <1>2, <1>4, <1>6, <1>7, <1>8 DEF DrainTarget, x

\* The input of the next step of a unit's work.
LEMMA DrainTargets ==
  ASSUME TypeInv, Drain
  PROVE  /\ \A i \in DOMAIN unit'.target : DrainTarget(unit'.target[i])
         /\ \A i, j \in DOMAIN unit'.target : unit'.target[i] = unit'.target[j] => i = j
<1>1. CASE unit'.target = Rest
  BY <1>1, DrainRest, NowItems
<1>2. CASE unit'.target = MergedNow \o Rest /\ unit'.pass = unit.pass + 1
  <2> DEFINE all == MergedNow \o Rest
  <2>1. MergedNow \in Seq(Items) /\ Rest \in Seq(Items)
    BY DrainStep
  <2>2. \A i \in DOMAIN all : DrainTarget(all[i])
    BY <1>2, <2>1, DrainRest, DrainMerged, ConcatItems
  <2>3. \A i, j \in DOMAIN MergedNow : MergedNow[i] = MergedNow[j] => i = j
    <3> SUFFICES ASSUME NEW i \in DOMAIN MergedNow, NEW j \in DOMAIN MergedNow,
                        MergedNow[i] = MergedNow[j]
                 PROVE  i = j
      OBVIOUS
    <3>1. /\ i \in Nat /\ j \in Nat
          /\ Tmp(unit.id, unit.pass, i - 1) = Tmp(unit.id, unit.pass, j - 1)
      BY NowItems
    <3>2. i - 1 = j - 1
      BY <3>1, TmpInjective
    <3> QED
      BY <3>1, <3>2
  <2>4. \A i, j \in DOMAIN all : all[i] = all[j] => i = j
    BY <2>1, <2>3, NowItems, MergedNotRest, ConcatDistinct
  <2> QED
    BY <1>2, <2>2, <2>4
<1> QED
  BY <1>1, <1>2, DrainStep

\* What a drain consumes is another name of a table, or an earlier output.
LEMMA DrainConsumed ==
  ASSUME TypeInv, Drain, NEW i \in DOMAIN unit'.consumed
  PROVE  /\ \/ unit'.consumed[i][2] = "drain"
            \/ \E b, c \in Nat : b < unit'.pass /\ unit'.consumed[i] = Tmp(unit.id, b, c)
         /\ \A j \in DOMAIN unit'.target : unit'.consumed[i] # unit'.target[j]
<1> DEFINE x == unit'.consumed[i]
<1>1. /\ unit.target[1] \in Items /\ unit.target[2] \in Items
      /\ 1 \in DOMAIN unit.target /\ 2 \in DOMAIN unit.target
      /\ unit.consumed \in Seq(Items) /\ unit.pass \in Nat
  BY DrainStep, ItemsTyped DEF TypeInv
<1>2. DrainedNow \in Seq(Items) /\ unit'.consumed = unit.consumed \o DrainedNow
  BY <1>1, DrainStep, DrainedNowItems
<1>3. \/ \E j \in DOMAIN unit.consumed : x = unit.consumed[j]
      \/ \E n \in 1..2 : x = Drained(unit.target[n])
  <2>1. \/ \E j \in DOMAIN unit.consumed : x = unit.consumed[j]
        \/ \E n \in DOMAIN DrainedNow : x = DrainedNow[n]
    <3> DEFINE s == unit.consumed
               t == DrainedNow
    <3>1. s \in Seq(Items) /\ t \in Seq(Items) /\ i \in DOMAIN (s \o t) /\ x = (s \o t)[i]
      BY <1>1, <1>2
    <3> HIDE DEF s, t, x
    <3>2. (i \in DOMAIN s /\ x = s[i]) \/ (i - Len(s) \in DOMAIN t /\ x = t[i - Len(s)])
      BY <3>1, ConcatItems
    <3> QED
      BY <3>2 DEF s, t
  <2>2. /\ DOMAIN DrainedNow = {1, 2}
        /\ DrainedNow[1] = Drained(unit.target[1]) /\ DrainedNow[2] = Drained(unit.target[2])
    BY <1>1, DrainedNowItems
  <2>3. {1, 2} = 1..2
    OBVIOUS
  <2> QED
    BY <2>1, <2>2, <2>3
<1> HIDE DEF x
<1>4. \A j \in DOMAIN unit'.target : x # unit'.target[j]
  BY <1>3, DrainTargets DEF DrainTarget
<1>5. x[2] = "drain" \/ OwnTmp(x)
  <2>1. CASE \E j \in DOMAIN unit.consumed : x = unit.consumed[j]
    BY <2>1 DEF TypeInv, ConsumedOK
  <2>2. ASSUME NEW n \in 1..2, x = Drained(unit.target[n])
        PROVE  x[2] = "drain" \/ OwnTmp(x)
    <3>1. /\ n \in DOMAIN unit.target /\ unit.target[n] \in Items
      BY <1>1
    <3>2. unit.target[n][2] = "bin" \/ OwnTmp(unit.target[n])
      BY <3>1 DEF TypeInv, TargetOK
    <3> QED
      BY <2>2, <3>1, <3>2, DrainedType, OwnTmpIsTmp
  <2> QED
    BY <1>3, <2>1, <2>2
<1>6. ASSUME OwnTmp(x)
      PROVE  \E b, c \in Nat : b < unit'.pass /\ x = Tmp(unit.id, b, c)
  <2>1. PICK b \in Nat, c \in Nat : b < unit.pass /\ x = Tmp(unit.id, b, c)
    BY <1>6 DEF OwnTmp
  <2>2. unit'.pass \in Nat /\ unit'.pass >= unit.pass
    BY <1>1, DrainStep
  <2>3. b < unit'.pass
    BY <1>1, <2>1, <2>2
  <2> QED
    BY <2>1, <2>3
<1> QED
  BY <1>4, <1>5, <1>6 DEF x

LEMMA DrainTypes ==
  ASSUME TypeInv, Drain
  PROVE  TypeInv'
<1> USE DrainStep
<1>1. Types'
  <2>1. Directory(files', clock')
    BY PairDrainTypes
  <2>2. pc' \in {"join", "frame"}
    OBVIOUS
  <2> QED
    BY <2>1, <2>2 DEF TypeInv, Types
<1>2. TablesNumbered'
  BY PairDrainTypes, NamesRemain DEF TypeInv
<1>3. WaitingOK'
  BY DrainStays, WaitingStays DEF TypeInv
<1>4. OutputsOK'
  <2>1. unit.id \in Nat
    BY ItemsTyped DEF TypeInv
  <2> QED
    BY <2>1, DrainStays, OutputsRemain DEF TypeInv
<1>5. TargetOK'
  BY DrainTargets DEF TargetOK, DrainTarget, Has, OwnTmp
<1>6. MergedOK'
  <2>1. CASE unit'.merged = MergedNow /\ unit'.pair = unit.pair + 1 /\ unit'.pass = unit.pass
    BY <2>1, NowItems, DrainKeeps DEF MergedOK, Has
  <2>2. CASE unit'.merged = <<>> /\ unit'.pair = 0
    <3>1. DOMAIN unit'.merged = {} /\ Len(unit'.merged) = 0
      BY <2>2
    <3> QED
      BY <2>2, <3>1 DEF MergedOK
  <2> QED
    BY <2>1, <2>2
<1>7. Control'
  <2>1. pc' = "join" => Len(unit'.target) >= 2
    OBVIOUS
  <2>2. ASSUME pc' = "frame"
        PROVE  /\ Len(unit'.target) = 1 /\ unit'.target[1][2] = "tmp"
               /\ unit'.merged = <<>>
    <3>1. /\ unit'.target = MergedNow \o Rest /\ unit'.merged = <<>> /\ ~(Len(unit'.target) >= 2)
          /\ MergedNow \in Seq(Items) /\ Rest \in Seq(Items)
      BY <2>2
    <3>2. Len(MergedNow) = unit.pair + 1 /\ unit.pair \in Nat
      BY NowItems, ItemsTyped DEF TypeInv
    <3>3. 1 \in DOMAIN MergedNow /\ Len(unit'.target) = 1
      BY <3>1, <3>2, ConcatItems
    <3>4. unit'.target[1] = MergedNow[1]
      BY <3>1, <3>3, ConcatItems
    <3> QED
      BY <3>1, <3>3, <3>4, NowItems DEF Tmp
  <2>3. pc' \in {"join", "frame"}
    OBVIOUS
  <2> QED
    BY <2>1, <2>2, <2>3 DEF Control
<1>8. OutOK'
  BY DEF OutOK
<1>9. ConsumedOK'
  BY DrainConsumed DEF ConsumedOK, OwnTmp
<1> QED
  BY <1>1, <1>2, <1>3, <1>4, <1>5, <1>6, <1>7, <1>8, <1>9 DEF TypeInv

LEMMA FirstDrainStays ==
  ASSUME TypeInv, 1 \in DOMAIN unit.target, files' = DrainOne(files, unit.target[1])
  PROVE  UnitsStay /\ OutputsStay
<1>1. ASSUME NEW u \in DOMAIN units, NEW i \in DOMAIN units[u]
      PROVE  Stays(Path(level, units[u][i]))
  <2>1. units[u][i] \in Items /\ Has(units[u][i]) /\ Apart(units[u][i], 1)
    BY ItemsTyped DEF TypeInv, WaitingOK, Apart
  <2> QED
    BY <2>1, FirstDrained DEF Stays
<1>2. ASSUME NEW i \in DOMAIN outputs
      PROVE  Stays(Path(level, outputs[i]))
  <2>1. outputs[i] \in Items /\ Has(outputs[i]) /\ Apart(outputs[i], 1)
    BY ItemsTyped DEF TypeInv, OutputsOK, Apart, Tmp
  <2> QED
    BY <2>1, FirstDrained DEF Stays
<1> QED
  BY <1>1, <1>2 DEF UnitsStay, OutputsStay

LEMMA DrainFailsTypes ==
  ASSUME TypeInv, DrainFails
  PROVE  TypeInv'
<1>1. /\ pc = "drain" /\ AbandonUnit
      /\ UNCHANGED <<clock, flushed, writing, store, due, level, rounds, units, outputs>>
      /\ files' = files \/ files' = DrainOne(files, unit.target[1])
  BY DEF DrainFails
<1>2. CASE files' = files
  BY <1>1, <1>2, GiveUpTypes
     DEF TypeInv, Types, TablesNumbered, UnitsStay, OutputsStay, Stays
<1>3. CASE files' = DrainOne(files, unit.target[1])
  <2>1. 1 \in DOMAIN unit.target
    BY <1>1, ItemsTyped, RestItems DEF TypeInv, Control
  <2>2. Directory(files', clock') /\ TablesNumbered' /\ clock' \in Nat \ {0}
    BY <1>1, <1>3, <2>1, FirstDrainTypes, NamesRemain DEF TypeInv, Types
  <2> QED
    BY <1>1, <1>3, <2>1, <2>2, FirstDrainStays, GiveUpTypes
<1> QED
  BY <1>1, <1>2, <1>3

\* The last output is among no other files the coordinator knows of.
LEMMA LastApart ==
  ASSUME TypeInv, pc \in {"frame", "sweep"}
  PROVE  /\ 1 \in DOMAIN unit.target /\ DOMAIN unit.target = {1}
         /\ unit.target[1] \in Items /\ Has(unit.target[1]) /\ OwnTmp(unit.target[1])
         /\ \A u \in DOMAIN units : \A i \in DOMAIN units[u] :
              Path(level, units[u][i]) # Path(level, unit.target[1])
         /\ \A i \in DOMAIN outputs : Path(level, outputs[i]) # Path(level, unit.target[1])
<1>1. Len(unit.target) = 1 /\ unit.target[1][2] = "tmp" /\ unit.target \in Seq(Items)
  BY ItemsTyped DEF TypeInv, Control
<1>2. DOMAIN unit.target = {1}
  BY <1>1
<1>3. unit.target[1] \in Items /\ Has(unit.target[1]) /\ OwnTmp(unit.target[1])
  BY <1>1, <1>2, ItemsTyped DEF TypeInv, TargetOK
<1>4. \A u \in DOMAIN units : \A i \in DOMAIN units[u] :
        Path(level, units[u][i]) # Path(level, unit.target[1])
  BY <1>1, <1>3, ItemsTyped, PathInjective DEF TypeInv, WaitingOK
<1>5. ASSUME NEW i \in DOMAIN outputs
      PROVE  Path(level, outputs[i]) # Path(level, unit.target[1])
  <2>1. PICK a \in Nat, b \in Nat, c \in Nat : a < unit.id /\ outputs[i] = Tmp(a, b, c)
    BY DEF TypeInv, OutputsOK
  <2>2. PICK d \in Nat, e \in Nat : d < unit.pass /\ unit.target[1] = Tmp(unit.id, d, e)
    BY <1>3 DEF OwnTmp
  <2>3. outputs[i] # unit.target[1]
    <3>1. unit.id \in Nat
      BY ItemsTyped DEF TypeInv
    <3> QED
      BY <2>1, <2>2, <3>1, TmpInjective
  <2> QED
    BY <1>3, <2>3, ItemsTyped, PathInjective DEF TypeInv
<1> QED
  BY <1>2, <1>3, <1>4, <1>5

LEMMA LastFormed ==
  ASSUME TypeInv, pc \in {"frame", "sweep"}, NEW form \in Forms, flushed' = flushed,
         files' = [files EXCEPT ![Path(level, unit.target[1])].form = form]
  PROVE  /\ Directory(files', clock) /\ TablesNumbered'
         /\ UnitsStay /\ OutputsStay
         /\ form \in Intact => \A p : Stays(p)
<1> DEFINE last == Path(level, unit.target[1])
<1>1. last \in DOMAIN files
  BY LastApart DEF Has
<1>2. Directory(files, clock)
  BY DEF TypeInv, Types
<1> HIDE DEF last
<1>3. files' = [files EXCEPT ![last].form = form]
  BY DEF last
<1>4. /\ DOMAIN files' = DOMAIN files
      /\ \A p \in DOMAIN files : p # last => files'[p] = files[p]
      /\ files'[last] = [files[last] EXCEPT !.form = form]
  BY <1>1, <1>3
<1>5. files[last] \in FileRecords(clock)
  BY <1>1, <1>2 DEF Directory
<1>6. /\ files'[last] \in FileRecords(clock)
      /\ files'[last].data = files[last].data /\ files'[last].created = files[last].created
      /\ files'[last].form = form
  BY <1>4, <1>5 DEF FileRecords
<1>7. Directory(files', clock)
  <2>1. \A p \in DOMAIN files : files'[p] \in FileRecords(clock) /\ files'[p].created = files[p].created
    BY <1>2, <1>4, <1>6 DEF Directory
  <2>2. files' \in [DOMAIN files -> FileRecords(clock)]
    BY <1>3, <2>1, <1>4
  <2> QED
    BY <1>2, <1>4, <2>1, <2>2 DEF Directory
<1>8. TablesNumbered'
  BY <1>4, NamesRemain DEF TypeInv
<1>9. \A p : p # last => Stays(p)
  BY <1>4 DEF Stays
<1>10. UnitsStay /\ OutputsStay
  BY <1>9, LastApart DEF UnitsStay, OutputsStay, last
<1>11. form \in Intact => Stays(last)
  BY <1>4, <1>6 DEF Stays
<1> QED
  BY <1>7, <1>8, <1>9, <1>10, <1>11

LEMMA FrameTypes ==
  ASSUME TypeInv, Frame
  PROVE  TypeInv'
<1>1. /\ pc = "frame" /\ pc' = "sweep"
      /\ UNCHANGED <<clock, flushed, writing, store, due, level, rounds, units, unit, outputs>>
      /\ files' = [files EXCEPT ![Path(level, unit.target[1])].form = "table"]
  BY DEF Frame
<1>2. /\ Directory(files', clock) /\ TablesNumbered' /\ UnitsStay /\ OutputsStay
      /\ \A p : Stays(p)
  BY <1>1, LastFormed DEF Forms, Intact
<1>3. TargetStays /\ MergedStays
  BY <1>2 DEF TargetStays, MergedStays
<1>4. Types' /\ Control' /\ OutOK'
  BY <1>1, <1>2 DEF TypeInv, Types, Control, OutOK
<1>5. OutputsOK'
  <2>1. unit.id \in Nat
    BY ItemsTyped DEF TypeInv
  <2> QED
    BY <1>1, <1>2, <2>1, OutputsRemain DEF TypeInv
<1> QED
  BY <1>1, <1>2, <1>3, <1>4, <1>5,
     WaitingStays, TargetRemains, MergedRemains, ConsumedRemains DEF TypeInv

LEMMA FrameFailsTypes ==
  ASSUME TypeInv, FrameFails
  PROVE  TypeInv'
<1>1. /\ pc = "frame" /\ AbandonUnit
      /\ UNCHANGED <<clock, flushed, writing, store, due, level, rounds, units, outputs>>
      /\ files' = [files EXCEPT ![Path(level, unit.target[1])].form = "bad"]
  BY DEF FrameFails
<1>2. Directory(files', clock) /\ TablesNumbered' /\ UnitsStay /\ OutputsStay
  BY <1>1, LastFormed DEF Forms
<1> QED
  BY <1>1, <1>2, GiveUpTypes DEF TypeInv, Types

\* What is swept is nothing that waits, is to be promoted, or is to become so.
LEMMA ConsumedApart ==
  ASSUME TypeInv, NEW i \in DOMAIN unit.consumed
  PROVE  /\ \A u \in DOMAIN units : \A j \in DOMAIN units[u] :
              Path(level, units[u][j]) # Path(level, unit.consumed[i])
         /\ \A j \in DOMAIN unit.target :
              Path(level, unit.target[j]) # Path(level, unit.consumed[i])
         /\ \A j \in DOMAIN outputs : Path(level, outputs[j]) # Path(level, unit.consumed[i])
<1> DEFINE x == unit.consumed[i]
<1>1. x \in Items /\ (x[2] = "drain" \/ OwnTmp(x)) /\ \A j \in DOMAIN unit.target : x # unit.target[j]
  BY ItemsTyped DEF TypeInv, ConsumedOK
<1> HIDE DEF x
<1>2. \A u \in DOMAIN units : \A j \in DOMAIN units[u] : Path(level, units[u][j]) # Path(level, x)
  <2>1. x[2] # "bin"
    BY <1>1, OwnTmpIsTmp
  <2> QED
    BY <1>1, <2>1, ItemsTyped, PathInjective DEF TypeInv, WaitingOK
<1>3. \A j \in DOMAIN unit.target : Path(level, unit.target[j]) # Path(level, x)
  BY <1>1, ItemsTyped, PathInjective DEF TypeInv
<1>4. ASSUME NEW j \in DOMAIN outputs
      PROVE  Path(level, outputs[j]) # Path(level, x)
  <2>1. PICK a \in Nat, b \in Nat, c \in Nat : a < unit.id /\ outputs[j] = Tmp(a, b, c)
    BY DEF TypeInv, OutputsOK
  <2>2. outputs[j] # x
    <3>1. CASE x[2] = "drain"
      BY <2>1, <3>1 DEF Tmp
    <3>2. CASE OwnTmp(x)
      <4>1. PICK d \in Nat, e \in Nat : d < unit.pass /\ x = Tmp(unit.id, d, e)
        BY <3>2 DEF OwnTmp
      <4>2. unit.id \in Nat
        BY ItemsTyped DEF TypeInv
      <4> QED
        BY <2>1, <4>1, <4>2, TmpInjective
    <3> QED
      BY <1>1, <3>1, <3>2
  <2> QED
    BY <1>1, <2>2, ItemsTyped, PathInjective DEF TypeInv
<1> QED
  BY <1>2, <1>3, <1>4 DEF x

LEMMA SweptKeeps ==
  ASSUME TypeInv, NEW n \in 0..Len(unit.consumed), NEW p \in DOMAIN files,
         \A i \in DOMAIN unit.consumed : p # Path(level, unit.consumed[i])
  PROVE  p \in DOMAIN Swept(n) /\ Swept(n)[p] = files[p]
<1>1. 1..n \subseteq DOMAIN unit.consumed
  <2>1. unit.consumed \in Seq(Items)
    BY ItemsTyped DEF TypeInv
  <2>2. DOMAIN unit.consumed = 1..Len(unit.consumed) /\ Len(unit.consumed) \in Nat
    BY <2>1
  <2> QED
    BY <2>2
<1> QED
  BY <1>1 DEF Swept, Without

LEMMA SweptTypes ==
  ASSUME TypeInv, NEW n \in 0..Len(unit.consumed), files' = Swept(n), flushed' = flushed
  PROVE  /\ Directory(files', clock) /\ TablesNumbered'
         /\ UnitsStay /\ TargetStays /\ OutputsStay
<1>1. Directory(files', clock)
  BY WithoutType DEF Swept, TypeInv, Types
<1>2. DOMAIN files' \subseteq DOMAIN files
  BY DEF Swept, Without
<1>3. TablesNumbered'
  BY <1>2, NamesRemain DEF TypeInv
<1>4. ASSUME NEW p, \A i \in DOMAIN unit.consumed : p # Path(level, unit.consumed[i])
      PROVE  Stays(p)
  BY <1>4, SweptKeeps DEF Stays
<1>5. UnitsStay
  BY <1>4, ConsumedApart DEF UnitsStay
<1>6. TargetStays
  BY <1>4, ConsumedApart DEF TargetStays
<1>7. OutputsStay
  BY <1>4, ConsumedApart DEF OutputsStay
<1> QED
  BY <1>1, <1>3, <1>5, <1>6, <1>7

LEMMA SweepTypes ==
  ASSUME TypeInv, Sweep
  PROVE  TypeInv'
<1> DEFINE last == unit.target[1]
<1>1. /\ pc = "sweep" /\ AbandonUnit /\ outputs' = Append(outputs, last)
      /\ UNCHANGED <<clock, flushed, writing, store, due, level, rounds, units>>
      /\ files' = Swept(Len(unit.consumed))
  BY DEF Sweep
<1>2. Len(unit.consumed) \in 0..Len(unit.consumed)
  <2>1. Len(unit.consumed) \in Nat
    BY ItemsTyped DEF TypeInv
  <2> QED
    BY <2>1
<1>3. Directory(files', clock) /\ TablesNumbered' /\ UnitsStay /\ TargetStays /\ OutputsStay
  BY <1>1, <1>2, SweptTypes
<1>4. /\ 1 \in DOMAIN unit.target /\ last \in Items /\ Has(last) /\ OwnTmp(last)
      /\ \A i \in DOMAIN outputs : Path(level, outputs[i]) # Path(level, last)
  BY <1>1, LastApart
<1>5. PICK d \in Nat, e \in Nat : last = Tmp(unit.id, d, e)
  BY <1>4 DEF OwnTmp
<1>6. unit.id \in Nat /\ unit'.id = unit.id + 1 /\ outputs \in Seq(Items)
  <2>1. unit.id \in Nat /\ outputs \in Seq(Items)
    BY ItemsTyped DEF TypeInv
  <2> QED
    BY <1>1, <2>1, NoUnitType DEF AbandonUnit
<1>7. Path(level, last) \in DOMAIN files'
  BY <1>3, <1>4 DEF TargetStays, Stays, Has
<1>8. \A i \in DOMAIN outputs : Path(level, outputs[i]) \in DOMAIN files'
  BY <1>3 DEF OutputsStay, Stays, TypeInv, OutputsOK, Has
<1> HIDE DEF last
<1>9. outputs' \in Seq(Items)
  BY <1>1, <1>4, <1>6, AppendItems
<1>10. ASSUME NEW i \in DOMAIN outputs'
       PROVE  \/ i \in DOMAIN outputs /\ outputs'[i] = outputs[i]
              \/ i = Len(outputs) + 1 /\ outputs'[i] = last
  BY <1>1, <1>4, <1>6, AppendItems
<1>11. ASSUME NEW i \in DOMAIN outputs'
       PROVE  /\ Path(level, outputs'[i]) \in DOMAIN files'
              /\ \E a, b, c \in Nat : a < unit'.id /\ outputs'[i] = Tmp(a, b, c)
  <2>1. CASE i \in DOMAIN outputs /\ outputs'[i] = outputs[i]
    <3>1. PICK a \in Nat, b \in Nat, c \in Nat : a < unit.id /\ outputs[i] = Tmp(a, b, c)
      BY <2>1 DEF TypeInv, OutputsOK
    <3>2. a < unit'.id
      BY <1>6, <3>1
    <3> QED
      BY <1>8, <2>1, <3>1, <3>2
  <2>2. CASE outputs'[i] = last
    <3>1. unit.id < unit'.id
      BY <1>6
    <3> QED
      BY <1>5, <1>6, <1>7, <2>2, <3>1
  <2> QED
    BY <1>10, <2>1, <2>2
<1>12. ASSUME NEW i \in DOMAIN outputs', NEW j \in DOMAIN outputs', outputs'[i] = outputs'[j]
       PROVE  i = j
  BY <1>4, <1>10, <1>12 DEF TypeInv, OutputsOK
<1>13. OutputsOK'
  BY <1>1, <1>11, <1>12 DEF OutputsOK, Has
<1> QED
  BY <1>1, <1>3, <1>9, <1>13, AbandonTypes DEF TypeInv, Types

LEMMA SweepFailsTypes ==
  ASSUME TypeInv, SweepFails
  PROVE  TypeInv'
<1>1. /\ pc = "sweep" /\ AbandonUnit
      /\ UNCHANGED <<clock, flushed, writing, store, due, level, rounds, units, outputs>>
  BY DEF SweepFails
<1>2. PICK n \in 1..Len(unit.consumed) : files' = Swept(n - 1)
  BY DEF SweepFails
<1>3. n - 1 \in 0..Len(unit.consumed)
  <2>1. Len(unit.consumed) \in Nat
    BY ItemsTyped DEF TypeInv
  <2> QED
    BY <2>1
<1>4. Directory(files', clock) /\ TablesNumbered' /\ UnitsStay /\ OutputsStay
  BY <1>1, <1>2, <1>3, SweptTypes
<1> QED
  BY <1>1, <1>4, GiveUpTypes DEF TypeInv, Types

\* The output goes to the next level; those after it stay.
LEMMA PromoteStep ==
  ASSUME TypeInv, Promote
  PROVE  LET from == Path(level, outputs[1])
             to == Path(level + 1, <<outputs[1][1], "bin">>)
         IN  /\ pc = "units" /\ units = <<>> /\ outputs # <<>>
             /\ 1 \in DOMAIN outputs /\ from \in DOMAIN files /\ to \in Paths
             /\ from # to /\ to[2] = from[2]
             /\ files' = Rename(files, from, to) /\ outputs' = Tail(outputs)
             /\ UNCHANGED <<clock, flushed, writing, store, due, pc, level, rounds, units, unit>>
             /\ outputs' \in Seq(Items)
             /\ \A i \in DOMAIN outputs' :
                  i \in Nat /\ i + 1 \in DOMAIN outputs /\ i + 1 # 1 /\ outputs'[i] = outputs[i + 1]
             /\ \A i \in DOMAIN outputs' :
                  Path(level, outputs'[i]) # from /\ Path(level, outputs'[i]) # to
<1> DEFINE x == outputs[1]
           y == <<x[1], "bin">>
<1>1. /\ pc = "units" /\ units = <<>> /\ outputs # <<>>
      /\ files' = Rename(files, Path(level, Head(outputs)),
                         Path(level + 1, <<Head(outputs)[1], "bin">>))
      /\ outputs' = Tail(outputs)
      /\ UNCHANGED <<clock, flushed, writing, store, due, pc, level, rounds, units, unit>>
  BY DEF Promote
<1>2. outputs \in Seq(Items) /\ 1 \in DOMAIN outputs /\ Head(outputs) = x
  BY <1>1, ItemsTyped DEF TypeInv
<1>3. x \in Items /\ Path(level, x) \in DOMAIN files
  BY <1>2, ItemsTyped DEF TypeInv, OutputsOK, Has
<1>4. y \in Items
  BY <1>3 DEF Items, Exts
<1>5. level \in 1..(Levels + 1) /\ level + 1 \in 1..(Levels + 1) /\ level # level + 1
  BY ItemsTyped DEF TypeInv
<1>6. /\ outputs' \in Seq(Items)
      /\ \A i \in DOMAIN outputs' :
           i \in Nat /\ i + 1 \in DOMAIN outputs /\ i + 1 # 1 /\ outputs'[i] = outputs[i + 1]
  BY <1>1, <1>2
<1>7. Path(level + 1, y) \in Paths /\ Path(level, x)[2] = Path(level + 1, y)[2]
  BY <1>4, <1>5, PathType, PathExtension
<1> HIDE DEF x, y
<1>8. ASSUME NEW z \in Items
      PROVE  Path(level, z) # Path(level + 1, y)
  BY <1>4, <1>5, PathInjective
<1>9. ASSUME NEW i \in DOMAIN outputs'
      PROVE  Path(level, outputs'[i]) # Path(level, x) /\ Path(level, outputs'[i]) # Path(level + 1, y)
  <2>1. i + 1 \in DOMAIN outputs /\ i + 1 # 1 /\ outputs'[i] = outputs[i + 1]
    BY <1>6
  <2>2. outputs[i + 1] \in Items /\ outputs[i + 1] # x
    BY <1>2, <2>1, ItemsTyped DEF TypeInv, OutputsOK, x
  <2> QED
    BY <1>3, <1>8, <2>1, <2>2, PathInjective
<1> QED
  BY <1>1, <1>2, <1>3, <1>6, <1>7, <1>8, <1>9 DEF x, y

LEMMA PromoteTypes ==
  ASSUME TypeInv, Promote
  PROVE  TypeInv'
<1> DEFINE from == Path(level, outputs[1])
           to == Path(level + 1, <<outputs[1][1], "bin">>)
<1>1. /\ pc = "units" /\ units = <<>> /\ from \in DOMAIN files /\ to \in Paths
      /\ to[2] = from[2] /\ files' = Rename(files, from, to)
      /\ UNCHANGED <<clock, flushed, writing, store, due, pc, level, rounds, units, unit>>
      /\ outputs' \in Seq(Items)
      /\ \A i \in DOMAIN outputs' :
           i \in Nat /\ i + 1 \in DOMAIN outputs /\ i + 1 # 1 /\ outputs'[i] = outputs[i + 1]
      /\ \A i \in DOMAIN outputs' :
           Path(level, outputs'[i]) # from /\ Path(level, outputs'[i]) # to
  BY PromoteStep
<1> HIDE DEF from, to
<1>2. Directory(files', clock)
  BY <1>1, RenameType DEF TypeInv, Types
<1>3. TablesNumbered'
  <2>1. \A q \in DOMAIN files' : \E p \in DOMAIN files : q[2] = p[2]
    BY <1>1, RenameOnly
  <2> QED
    BY <1>1, <2>1, NamesRemain DEF TypeInv
<1>4. OutputsOK'
  <2>1. \A i \in DOMAIN outputs' : Path(level, outputs'[i]) \in DOMAIN files'
    BY <1>1, RenameKeeps DEF TypeInv, OutputsOK, Has
  <2>2. \A i \in DOMAIN outputs' : \E a, b, c \in Nat : a < unit.id /\ outputs'[i] = Tmp(a, b, c)
    BY <1>1 DEF TypeInv, OutputsOK
  <2>3. ASSUME NEW i \in DOMAIN outputs', NEW j \in DOMAIN outputs', outputs'[i] = outputs'[j]
        PROVE  i = j
    <3>1. i + 1 = j + 1
      BY <1>1, <2>3 DEF TypeInv, OutputsOK
    <3> QED
      BY <1>1, <3>1
  <2> QED
    BY <1>1, <2>1, <2>2, <2>3 DEF OutputsOK, Has
<1>5. Types' /\ Control' /\ OutOK'
  BY <1>1, <1>2 DEF TypeInv, Types, Control, OutOK
<1>6. WaitingOK' /\ TargetOK' /\ MergedOK' /\ ConsumedOK'
  <2>1. DOMAIN units' = {}
    BY <1>1
  <2>2. /\ unit'.pair = 0 /\ unit'.target = <<>> /\ unit'.merged = <<>> /\ unit'.consumed = <<>>
    BY <1>1 DEF TypeInv, Control
  <2> QED
    BY <2>1, <2>2, IdleUnit DEF WaitingOK
<1> QED
  BY <1>3, <1>4, <1>5, <1>6 DEF TypeInv

LEMMA PromoteFailsTypes ==
  ASSUME TypeInv, PromoteFails \/ Finish
  PROVE  TypeInv'
<1>1. /\ EndCompaction
      /\ UNCHANGED <<files, clock, flushed, writing, store, rounds>>
  BY DEF PromoteFails, Finish
<1>2. TablesNumbered' /\ level' \in 1..Levels /\ due' \in BOOLEAN
  BY <1>1, NextLevelType DEF EndCompaction, TypeInv, Types, TablesNumbered
<1> QED
  BY <1>1, <1>2, VisitTypes DEF EndCompaction, TypeInv, Types

\* However the process ends, the directory it leaves is one.
LEMMA LeftTypes ==
  ASSUME TypeInv, NEW fs, fs = Written("bad"), NEW gs \in Left(fs)
  PROVE  /\ \/ Directory(gs, clock)
            \/ /\ Directory(gs, clock + 1)
               /\ Path(level, Out) \notin DOMAIN files
               /\ Path(level, Out) \in DOMAIN gs
         /\ \A q \in DOMAIN gs : q = Path(level, Out) \/ \E p \in DOMAIN files : q[2] = p[2]
<1>1. /\ Directory(fs, clock) /\ DOMAIN fs = DOMAIN files /\ level \in 1..Levels
      /\ clock \in Nat \ {0}
  BY WrittenType DEF TypeInv, Types, Written, Forms
<1>2. CASE gs = fs
  BY <1>1, <1>2
<1>3. CASE pc = "join" /\ gs = Create(fs, Path(level, Out), NoContent, "bad")
  <2> DEFINE out == Path(level, Out)
  <2>1. out \in Paths
    BY ItemsTyped, PathType DEF TypeInv
  <2> HIDE DEF out
  <2>2. Directory(gs, IF out \in DOMAIN fs THEN clock ELSE clock + 1)
    BY <1>1, <1>3, <2>1, CreateType, NoContentType DEF Forms, out
  <2>3. out \in DOMAIN gs /\ \A q \in DOMAIN gs : q = out \/ q \in DOMAIN files
    BY <1>1, <1>3, CreateMakes, CreateOnly DEF out
  <2> QED
    BY <1>1, <2>2, <2>3 DEF out
<1>4. CASE pc = "drain" /\ gs = DrainOne(fs, unit.target[1])
  <2>1. 1 \in DOMAIN unit.target
    BY <1>4, ItemsTyped, RestItems DEF TypeInv, Control
  <2>2. unit.target[1] \in Items /\ Path(level, unit.target[1]) \in DOMAIN fs
    BY <1>1, <2>1, ItemsTyped DEF TypeInv, TargetOK, Has
  <2> QED
    BY <1>1, <1>4, <2>2, DrainOneType, DrainOneNames
<1>5. CASE pc = "frame" /\ gs = [fs EXCEPT ![Path(level, unit.target[1])].form = "bad"]
  <2> DEFINE last == Path(level, unit.target[1])
  <2>1. last \in DOMAIN fs
    BY <1>1, <1>5, LastApart DEF Has
  <2> HIDE DEF last
  <2>2. gs = [fs EXCEPT ![last].form = "bad"] /\ DOMAIN gs = DOMAIN fs
    BY <1>5 DEF last
  <2>3. \A p \in DOMAIN fs : fs[p] \in FileRecords(clock)
    BY <1>1 DEF Directory
  <2>4. \A p \in DOMAIN fs : gs[p] \in FileRecords(clock) /\ gs[p].created = fs[p].created
    BY <2>1, <2>2, <2>3 DEF FileRecords, Forms
  <2>5. gs \in [DOMAIN fs -> FileRecords(clock)]
    BY <2>2, <2>4
  <2>6. Directory(gs, clock)
    BY <1>1, <2>2, <2>4, <2>5 DEF Directory
  <2> QED
    BY <1>1, <2>2, <2>6
<1>6. ASSUME NEW ps, gs = Without(fs, ps)
      PROVE  Directory(gs, clock) /\ DOMAIN gs \subseteq DOMAIN files
  BY <1>1, <1>6, WithoutType DEF Without
<1>7. \/ gs = fs
      \/ pc = "join" /\ gs = Create(fs, Path(level, Out), NoContent, "bad")
      \/ pc = "drain" /\ gs = DrainOne(fs, unit.target[1])
      \/ pc = "frame" /\ gs = [fs EXCEPT ![Path(level, unit.target[1])].form = "bad"]
      \/ \E ps : gs = Without(fs, ps)
  BY DEF Left
<1> QED
  BY <1>2, <1>3, <1>4, <1>5, <1>6, <1>7

LEMMA CrashTypes ==
  ASSUME TypeInv, Crash
  PROVE  TypeInv'
<1> DEFINE fs == Written("bad")
           new == DOMAIN files' \ DOMAIN files
<1>1. /\ files' \in Left(fs) /\ clock' = clock + Cardinality(new)
      /\ writing' = NoContent /\ due' = FALSE /\ level' = 1 /\ pc' = "visit"
      /\ units' = <<>> /\ unit' = NoUnit /\ outputs' = <<>>
      /\ UNCHANGED <<flushed, store, rounds>>
  BY DEF Crash
<1>2. /\ \/ Directory(files', clock)
         \/ Directory(files', clock + 1) /\ Path(level, Out) \in new
      /\ \A q \in DOMAIN files' : q = Path(level, Out) \/ \E p \in DOMAIN files : q[2] = p[2]
  BY <1>1, LeftTypes
<1>3. IsFiniteSet(new) /\ Cardinality(new) \in Nat
  <2>1. IsFiniteSet(DOMAIN files')
    BY <1>2 DEF Directory
  <2> QED
    BY <2>1, FS_Difference, FS_CardinalityType
<1>4. Path(level, Out) \in new => Cardinality(new) >= 1
  BY <1>3, FS_EmptySet
<1> HIDE DEF new, fs
<1>5. clock \in Nat \ {0}
  BY DEF TypeInv, Types
<1>6. clock' \in Nat \ {0} /\ Directory(files', clock')
  <2>1. clock' \in Nat \ {0} /\ clock' >= clock
    BY <1>1, <1>3, <1>5
  <2>2. CASE Directory(files', clock)
    BY <1>5, <2>1, <2>2, DirectoryLater
  <2>3. CASE Directory(files', clock + 1) /\ Path(level, Out) \in new
    <3>1. clock + 1 <= clock' /\ clock + 1 \in Nat
      BY <1>1, <1>3, <1>4, <1>5, <2>3
    <3> QED
      BY <2>1, <2>3, <3>1, DirectoryLater
  <2> QED
    BY <1>2, <2>2, <2>3
<1>7. TablesNumbered'
  <2>1. Path(level, Out)[2] = <<"unit", unit.id, unit.pass, unit.pair>>
    BY OutIsTmp, PathExtension DEF Tmp
  <2>2. unit.id \in Nat /\ unit.pass \in Nat /\ unit.pair \in Nat
    BY ItemsTyped DEF TypeInv
  <2> QED
    BY <1>1, <1>2, <2>1, <2>2, NamesRemain DEF TypeInv
<1>8. level' \in 1..Levels
  BY <1>1, LevelsAssumption
<1> QED
  BY <1>1, <1>6, <1>7, <1>8, NoContentType, VisitTypes

LEMMA NextTypes == TypeInv /\ [Next]_vars => TypeInv'
<1> SUFFICES ASSUME TypeInv, [Next]_vars
             PROVE  TypeInv'
  OBVIOUS
<1>1. CASE Coordinator
  BY <1>1, VisitSkipTypes, VisitCompactTypes, BeginUnitTypes, JoinTypes, JoinFailsTypes,
     DrainTypes, DrainFailsTypes, FrameTypes, FrameFailsTypes, SweepTypes, SweepFailsTypes,
     PromoteTypes, PromoteFailsTypes DEF Coordinator
<1>2. CASE UNCHANGED vars
  <2>1. UNCHANGED <<pc, level, rounds, units, unit, outputs>>
        /\ UNCHANGED <<files, clock, flushed, writing, store, due>>
    BY <1>2 DEF vars
  <2>2. TablesNumbered' /\ \A p \in DOMAIN files : Stays(p)
    BY <2>1 DEF TypeInv, TablesNumbered, Stays
  <2> QED
    BY <2>1, <2>2, EnvironmentTypes DEF TypeInv, Types
<1> QED
  BY <1>1, <1>2, FlushBeginTypes, FlushEndTypes, TimerExpiresTypes, CrashTypes DEF Next

LEMMA TypesFollow == TypeInv => TypeOK
<1> SUFFICES ASSUME TypeInv
             PROVE  TypeOK
  OBVIOUS
<1>1. ASSUME NEW p \in DOMAIN files
      PROVE  /\ p[1] \in 1..(Levels + 1) /\ p[3] \in {"bin", "tmp", "drain"}
             /\ files[p].data \in Content /\ files[p].created \in 1..clock
             /\ files[p].form \in Forms
  <2>1. files[p] \in FileRecords(clock) /\ p \in Paths /\ clock \in Nat
    BY DEF TypeInv, Types, Directory
  <2> QED
    BY <2>1 DEF FileRecords, Paths, Exts
<1> QED
  BY <1>1 DEF TypeInv, Types, Control, TypeOK

LEMMA AlwaysTyped == Spec => []TypeInv
BY InitTypes, NextTypes, PTL DEF Spec

\* Every variable keeps its type, and so does every file: through failures and
\* crashes the directory holds nothing but well-formed names and contents, and
\* the coordinator is at a step only with the files of that step in hand.
THEOREM TypeCorrect == Spec => []TypeOK
BY AlwaysTyped, TypesFollow, PTL

\* No operation of the coordinator looks for a file that is gone: the tables that
\* wait, the files to join, the outputs so far and those to promote are there,
\* none of them twice, and what is deleted at the end of a unit is none of them.
THEOREM FilesAreThere ==
  Spec => [](WaitingOK /\ TargetOK /\ MergedOK /\ OutOK /\ ConsumedOK /\ OutputsOK)
<1>1. TypeInv => WaitingOK /\ TargetOK /\ MergedOK /\ OutOK /\ ConsumedOK /\ OutputsOK
  BY DEF TypeInv
<1> QED
  BY <1>1, AlwaysTyped, PTL

-----------------------------------------------------------------------------
(* Where the entries of a key are                                          *)

InFiles(fs, k, e) == \E p \in DOMAIN fs : fs[p].data[k] = e

\* What the coordinator does makes no entries.
Comes(fs, gs) == \A k \in Keys, e \in Entry : InFiles(gs, k, e) => InFiles(fs, k, e)

LEMMA RenameComes ==
  ASSUME NEW fs, NEW from \in DOMAIN fs, NEW to
  PROVE  Comes(fs, Rename(fs, from, to))
<1> SUFFICES ASSUME NEW k, NEW q \in DOMAIN Rename(fs, from, to)
             PROVE  \E p \in DOMAIN fs : fs[p].data[k] = Rename(fs, from, to)[q].data[k]
  BY DEF Comes, InFiles
<1>1. CASE q = to
  BY <1>1, RenameMoves
<1>2. CASE q # to
  BY <1>2, RenameOnly
<1> QED
  BY <1>1, <1>2

LEMMA DrainOneComes ==
  ASSUME NEW fs, NEW x, Path(level, x) \in DOMAIN fs
  PROVE  Comes(fs, DrainOne(fs, x))
BY RenameComes DEF DrainOne, Comes

LEMMA CreateComes ==
  ASSUME NEW fs, NEW p, NEW data, NEW form,
         \A k \in Keys : data[k] # Absent => InFiles(fs, k, data[k])
  PROVE  Comes(fs, Create(fs, p, data, form))
<1> SUFFICES ASSUME NEW k \in Keys, NEW e \in Entry, NEW q \in DOMAIN Create(fs, p, data, form),
                    Create(fs, p, data, form)[q].data[k] = e
             PROVE  InFiles(fs, k, e)
  BY DEF Comes, InFiles
<1>1. CASE q = p
  BY <1>1, CreateMakes, AbsentAssumption
<1>2. CASE q # p
  BY <1>2, CreateOnly DEF InFiles
<1> QED
  BY <1>1, <1>2

LEMMA JoinComes ==
  ASSUME TypeInv, Join
  PROVE  Comes(files, files')
<1>1. 1 \in DOMAIN unit.target /\ 2 \in DOMAIN unit.target
  BY ItemsTyped, RestItems DEF TypeInv, Control, Join
<1>2. Has(unit.target[1]) /\ Has(unit.target[2])
  BY <1>1 DEF TypeInv, TargetOK
<1>3. PICK left \in Takes(unit.target[1]), right \in Takes(unit.target[2]) :
        files' = Create(files, Path(level, Out), Joined(left, right), "raw")
  BY DEF Join
<1>4. ASSUME NEW n \in {1, 2}, NEW d \in Takes(unit.target[n]), NEW k \in Keys, d[k] # Absent
      PROVE  InFiles(files, k, d[k])
  <2>1. d[k] = At(unit.target[n]).data[k]
    BY <1>4 DEF Takes, Part
  <2> QED
    BY <1>2, <2>1 DEF InFiles, Has, At
<1>5. ASSUME NEW k \in Keys, Joined(left, right)[k] # Absent
      PROVE  InFiles(files, k, Joined(left, right)[k])
  <2>1. \/ left[k] # Absent /\ Joined(left, right)[k] = left[k]
        \/ right[k] # Absent /\ Joined(left, right)[k] = right[k]
    BY <1>5 DEF Joined, Over, Alive
  <2> QED
    BY <1>4, <2>1
<1> QED
  BY <1>3, <1>5, CreateComes

LEMMA DrainComesFrom ==
  ASSUME TypeInv, Drain
  PROVE  Comes(files, files')
<1>1. 1 \in DOMAIN unit.target /\ 2 \in DOMAIN unit.target /\ files' = PairDrained
  BY DrainStep
<1>2. /\ Path(level, unit.target[1]) \in DOMAIN files
      /\ unit.target[2] \in Items /\ Has(unit.target[2]) /\ Apart(unit.target[2], 1)
  BY <1>1, ItemsTyped DEF TypeInv, TargetOK, Has, Apart
<1> DEFINE gs == DrainOne(files, unit.target[1])
<1>3. Path(level, unit.target[2]) \in DOMAIN gs
  BY <1>1, <1>2, FirstDrained
<1>4. Comes(files, gs) /\ Comes(gs, DrainOne(gs, unit.target[2]))
  BY <1>2, <1>3, DrainOneComes
<1> QED
  BY <1>1, <1>4 DEF Comes, PairDrained

LEMMA BadOutComes == Comes(files, Create(files, Path(level, Out), NoContent, "bad"))
<1>1. \A k \in Keys : NoContent[k] = Absent
  BY DEF NoContent
<1> QED
  BY <1>1, CreateComes

LEMMA FirstDrainComesFrom ==
  ASSUME TypeInv, pc = "drain"
  PROVE  Comes(files, DrainOne(files, unit.target[1]))
<1>1. 1 \in DOMAIN unit.target
  BY ItemsTyped, RestItems DEF TypeInv, Control
<1> QED
  BY <1>1, DrainOneComes DEF TypeInv, TargetOK, Has

\* What the end of the process leaves was there before.
LEMMA CrashComesFrom ==
  ASSUME TypeInv, Crash
  PROVE  Comes(files, files')
<1> DEFINE fs == Written("bad")
<1>1. files' \in Left(fs)
  BY DEF Crash
<1>2. \A p \in DOMAIN files : fs[p].data = files[p].data
  BY WrittenTurns DEF TypeInv, Types, Forms
<1>3. DOMAIN fs = DOMAIN files
  BY DEF Written
<1> HIDE DEF fs
<1>4. Comes(files, fs)
  BY <1>2, <1>3 DEF Comes, InFiles
<1>5. SUFFICES Comes(fs, files')
  BY <1>4 DEF Comes
<1>6. CASE files' = fs
  BY <1>6 DEF Comes
<1>7. CASE files' = Create(fs, Path(level, Out), NoContent, "bad")
  <2>1. \A k \in Keys : NoContent[k] = Absent
    BY DEF NoContent
  <2> QED
    BY <1>7, <2>1, CreateComes
<1>8. CASE pc = "drain" /\ files' = DrainOne(fs, unit.target[1])
  <2>1. 1 \in DOMAIN unit.target
    BY <1>8, ItemsTyped, RestItems DEF TypeInv, Control
  <2>2. Path(level, unit.target[1]) \in DOMAIN fs
    BY <1>3, <2>1 DEF TypeInv, TargetOK, Has
  <2> QED
    BY <1>8, <2>2, DrainOneComes
<1>9. CASE files' = [fs EXCEPT ![Path(level, unit.target[1])].form = "bad"]
  BY <1>9 DEF Comes, InFiles
<1>10. CASE \E ps : files' = Without(fs, ps)
  BY <1>10 DEF Without, Comes, InFiles
<1> QED
  BY <1>1, <1>6, <1>7, <1>8, <1>9, <1>10 DEF Left

\* Only a flush brings entries into the directory.
LEMMA NextComes ==
  ASSUME TypeInv, [Next]_vars
  PROVE  Comes(files, files') \/ FlushBegin
<1>1. CASE FlushEnd \/ FlushTorn
  <2>1. PICK form \in Forms : files' = Written(form)
    BY <1>1 DEF FlushEnd, FlushTorn, Forms
  <2>2. \A p \in DOMAIN files : Written(form)[p].data = files[p].data
    BY WrittenTurns DEF TypeInv, Types
  <2> QED
    BY <2>1, <2>2 DEF Comes, InFiles, Written
<1>2. CASE \/ TimerExpires \/ VisitSkip \/ VisitCompact \/ BeginUnit
           \/ PromoteFails \/ Finish \/ UNCHANGED vars
  BY <1>2 DEF TimerExpires, VisitSkip, VisitCompact, BeginUnit, PromoteFails, Finish, vars, Comes
<1>3. CASE JoinFails
  BY <1>3, BadOutComes DEF JoinFails, Comes
<1>4. CASE DrainFails
  BY <1>4, FirstDrainComesFrom DEF DrainFails, Comes
<1>5. CASE Frame \/ FrameFails
  <2>1. PICK p, form : files' = [files EXCEPT ![p].form = form]
    BY <1>5 DEF Frame, FrameFails
  <2>2. DOMAIN files' = DOMAIN files /\ \A q \in DOMAIN files : files'[q].data = files[q].data
    BY <2>1
  <2> QED
    BY <2>2 DEF Comes, InFiles
<1>6. CASE Sweep \/ SweepFails
  <2>1. PICK ps : files' = Without(files, ps)
    BY <1>6 DEF Sweep, SweepFails, Swept
  <2>2. \A q \in DOMAIN files' : q \in DOMAIN files /\ files'[q] = files[q]
    BY <2>1 DEF Without
  <2> QED
    BY <2>2 DEF Comes, InFiles
<1>7. CASE Promote
  BY <1>7, PromoteStep, RenameComes
<1> QED
  BY <1>1, <1>2, <1>3, <1>4, <1>5, <1>6, <1>7, JoinComes, DrainComesFrom, CrashComesFrom
     DEF Next, Coordinator

-----------------------------------------------------------------------------
(* A unit keeps the order of its tables                                    *)

WholeReads == "part_read" \notin Faults

\* The files of a unit that hold its entries, the newest first.
Queue == IF pc = "drain" THEN MergedNow \o Rest ELSE unit.merged \o unit.target

AtUnit == pc \in {"join", "drain", "frame", "sweep"}

Ordered ==
  AtUnit => \A k \in LongKeys : OverlayOf(files, level, Queue)[k] = unit.input[k]

LEMMA ConcatHas ==
  ASSUME NEW s \in Seq(Items), NEW t \in Seq(Items),
         \A i \in DOMAIN s : Has(s[i]), \A i \in DOMAIN t : Has(t[i])
  PROVE  s \o t \in Seq(Items) /\ \A i \in DOMAIN (s \o t) : Has((s \o t)[i])
<1> SUFFICES ASSUME NEW i \in DOMAIN (s \o t)
             PROVE  Has((s \o t)[i])
  BY ConcatItems
<1> DEFINE x == (s \o t)[i]
<1>1. (i \in DOMAIN s /\ x = s[i]) \/ (i - Len(s) \in DOMAIN t /\ x = t[i - Len(s)])
  BY ConcatItems
<1> HIDE DEF x
<1>2. Has(x)
  BY <1>1
<1> QED
  BY <1>2 DEF x

LEMMA QueueItems ==
  ASSUME TypeInv, AtUnit
  PROVE  Queue \in Seq(Items) /\ \A i \in DOMAIN Queue : Has(Queue[i])
<1>1. /\ unit.merged \in Seq(Items) /\ unit.target \in Seq(Items) /\ Out \in Items
  BY ItemsTyped DEF TypeInv
<1>2. /\ \A i \in DOMAIN unit.merged : Has(unit.merged[i])
      /\ \A i \in DOMAIN unit.target : Has(unit.target[i])
  BY DEF TypeInv, MergedOK, TargetOK
<1>3. CASE pc = "drain"
  <2>1. /\ Rest \in Seq(Items)
        /\ \A i \in DOMAIN Rest : Has(Rest[i])
    BY <1>1, <1>2, <1>3, RestItems DEF Rest, TypeInv, Control
  <2>2. /\ MergedNow \in Seq(Items)
        /\ \A i \in DOMAIN MergedNow : Has(MergedNow[i])
    BY <1>1, <1>2, <1>3, AppendItems DEF MergedNow, TypeInv, OutOK
  <2> QED
    BY <1>3, <2>1, <2>2, ConcatHas DEF Queue
<1>4. CASE pc # "drain"
  BY <1>1, <1>2, <1>4, ConcatHas DEF Queue
<1> QED
  BY <1>3, <1>4

LEMMA OrderedIs ==
  ASSUME TypeInv
  PROVE  UnitKeepsOrder <=> Ordered
<1>1. unit.merged \o <<Out>> = MergedNow
  <2>1. unit.merged \in Seq(Items) /\ Out \in Items
    BY ItemsTyped DEF TypeInv
  <2> QED
    BY <2>1 DEF MergedNow
<1> QED
  BY <1>1, OverlayIsOf DEF UnitKeepsOrder, Ordered, AtUnit, Queue, Rest

LEMMA FirstOf ==
  ASSUME NEW s \in Seq(Items), Len(s) >= 1
  PROVE  /\ s[1] \in Items /\ Tail(s) \in Seq(Items) /\ Len(Tail(s)) = Len(s) - 1
         /\ s = <<s[1]>> \o Tail(s)
OBVIOUS

LEMMA OverlayFirst ==
  ASSUME NEW fs, NEW l, NEW x \in Items, NEW t \in Seq(Items), NEW k \in Keys
  PROVE  OverlayOf(fs, l, <<x>> \o t)[k] =
           IF fs[Path(l, x)].data[k] # Absent THEN fs[Path(l, x)].data[k]
           ELSE OverlayOf(fs, l, t)[k]
<1> DEFINE s == <<x>>
<1>1. OverlayOf(fs, l, s)[k] = fs[Path(l, x)].data[k] /\ s \in Seq(Items)
  BY OverlaySingle
<1> HIDE DEF s
<1>2. OverlayOf(fs, l, s \o t)[k] =
        IF OverlayOf(fs, l, s)[k] # Absent THEN OverlayOf(fs, l, s)[k] ELSE OverlayOf(fs, l, t)[k]
  BY <1>1, OverlayConcat
<1> QED
  BY <1>1, <1>2 DEF s

\* The first two of some files come before the others.
LEMMA OverlayPair ==
  ASSUME NEW fs, NEW l, NEW s \in Seq(Items), Len(s) >= 2, NEW k \in Keys
  PROVE  OverlayOf(fs, l, s)[k] =
           IF fs[Path(l, s[1])].data[k] # Absent THEN fs[Path(l, s[1])].data[k]
           ELSE IF fs[Path(l, s[2])].data[k] # Absent THEN fs[Path(l, s[2])].data[k]
           ELSE OverlayOf(fs, l, Tail(Tail(s)))[k]
<1> DEFINE t == Tail(s)
           r == Tail(t)
           x == s[1]
           y == s[2]
<1>1. /\ x \in Items /\ t \in Seq(Items) /\ Len(t) >= 1 /\ s = <<x>> \o t
      /\ t[1] = y
  <2>1. t[1] = y
    OBVIOUS
  <2> QED
    BY <2>1, FirstOf
<1> HIDE DEF t, x, y
<1>2. y \in Items /\ r \in Seq(Items) /\ t = <<y>> \o r
  BY <1>1, FirstOf
<1> HIDE DEF r
<1>3. OverlayOf(fs, l, t)[k] =
        IF fs[Path(l, y)].data[k] # Absent THEN fs[Path(l, y)].data[k]
        ELSE OverlayOf(fs, l, r)[k]
  BY <1>2, OverlayFirst
<1>4. OverlayOf(fs, l, s)[k] =
        IF fs[Path(l, x)].data[k] # Absent THEN fs[Path(l, x)].data[k]
        ELSE OverlayOf(fs, l, t)[k]
  BY <1>1, OverlayFirst
<1> QED
  BY <1>3, <1>4 DEF t, r, x, y

LEMMA OrderRemains ==
  ASSUME TypeInv, Ordered, UNCHANGED <<pc, level, unit>>, \A p : Stays(p)
  PROVE  Ordered'
<1> SUFFICES ASSUME AtUnit, NEW k \in LongKeys
             PROVE  OverlayOf(files', level, Queue)[k] = unit.input[k]
  BY DEF Ordered, AtUnit, Queue, MergedNow, Rest, Out, OutName
<1>1. Queue \in Seq(Items) /\ \A i \in DOMAIN Queue : Has(Queue[i])
  BY QueueItems
<1>2. \A i \in DOMAIN Queue :
        files[Path(level, Queue[i])].data = files'[Path(level, Queue[i])].data
  BY <1>1 DEF Has, Stays
<1>3. k \in Keys
  BY DEF LongKeys
<1> QED
  BY <1>1, <1>2, <1>3, OverlaySame DEF Ordered

LEMMA BeginUnitOrdered ==
  ASSUME TypeInv, BeginUnit
  PROVE  Ordered'
<1> DEFINE head == units[1]
<1>1. /\ units # <<>> /\ pc' = "join" /\ UNCHANGED <<files, level>>
      /\ unit' = [NoUnit EXCEPT !.id = unit.id, !.target = Head(units),
                                !.input = Overlay(Head(units))]
  BY DEF BeginUnit
<1>2. 1 \in DOMAIN units /\ Head(units) = head
  BY <1>1 DEF TypeInv, Types
<1>3. head \in Seq(Items)
  BY <1>2, ItemsTyped DEF TypeInv
<1> HIDE DEF head
<1>4. unit'.merged = <<>> /\ unit'.target = head /\ unit'.input = Overlay(head)
  BY <1>1, <1>2 DEF NoUnit
<1>5. Queue' = head
  <2>1. <<>> \o head = head
    BY <1>3
  <2> QED
    BY <1>1, <1>4, <2>1 DEF Queue
<1>6. OverlayOf(files', level', Queue') = unit'.input
  BY <1>1, <1>4, <1>5, OverlayIsOf
<1> QED
  BY <1>6 DEF Ordered

LEMMA TakesWhole ==
  ASSUME WholeReads, NEW x, NEW d \in Takes(x)
  PROVE  d = At(x).data /\ At(x).form \notin {"growing", "bad"}
BY DEF Takes, WholeReads

\* Of long keys a join drops nothing.
LEMMA JoinedLong ==
  ASSUME NEW d, NEW e, NEW k \in LongKeys
  PROVE  Joined(d, e)[k] = IF d[k] # Absent THEN d[k] ELSE e[k]
BY DEF Joined, Over, Alive, LongKeys

LEMMA JoinStep ==
  ASSUME TypeInv, WholeReads, Join
  PROVE  /\ pc = "join" /\ pc' = "drain"
         /\ UNCHANGED <<flushed, writing, store, due, level, rounds, units, unit, outputs>>
         /\ Len(unit.target) >= 2
         /\ 1 \in DOMAIN unit.target /\ 2 \in DOMAIN unit.target
         /\ At(unit.target[1]).form \notin {"growing", "bad"}
         /\ At(unit.target[2]).form \notin {"growing", "bad"}
         /\ clock' = Tick(Path(level, Out))
         /\ files' = Create(files, Path(level, Out),
                            Joined(At(unit.target[1]).data, At(unit.target[2]).data), "raw")
<1>1. /\ pc = "join" /\ pc' = "drain" /\ clock' = Tick(Path(level, Out))
      /\ UNCHANGED <<flushed, writing, store, due, level, rounds, units, unit, outputs>>
      /\ Len(unit.target) >= 2
  BY DEF Join, TypeInv, Control
<1>2. 1 \in DOMAIN unit.target /\ 2 \in DOMAIN unit.target
  BY <1>1, ItemsTyped, RestItems DEF TypeInv
<1>3. PICK left \in Takes(unit.target[1]), right \in Takes(unit.target[2]) :
        files' = Create(files, Path(level, Out), Joined(left, right), "raw")
  BY DEF Join
<1> QED
  BY <1>1, <1>2, <1>3, TakesWhole

\* The output stands for the pair, in its place.
LEMMA JoinOrdered ==
  ASSUME TypeInv, Ordered, WholeReads, Join
  PROVE  Ordered'
<1> DEFINE l == unit.target[1]
           r == unit.target[2]
<1>1. /\ pc = "join" /\ pc' = "drain" /\ UNCHANGED <<level, unit>> /\ Len(unit.target) >= 2
      /\ files' = Create(files, Path(level, Out), Joined(At(l).data, At(r).data), "raw")
  BY JoinStep
<1>2. /\ unit.target \in Seq(Items) /\ unit.merged \in Seq(Items) /\ Out \in Items
      /\ l \in Items /\ r \in Items /\ Rest \in Seq(Items)
      /\ \A i \in DOMAIN Rest : i + 2 \in DOMAIN unit.target /\ Rest[i] = unit.target[i + 2]
  BY <1>1, ItemsTyped, RestItems DEF TypeInv, Rest
<1>3. MergedStays /\ TargetStays
  BY <1>1, OutStays
<1>4. \A i \in DOMAIN unit.merged :
        files[Path(level, unit.merged[i])].data = files'[Path(level, unit.merged[i])].data
  BY <1>3 DEF MergedStays, Stays, TypeInv, MergedOK, Has
<1>5. \A i \in DOMAIN Rest :
        files[Path(level, Rest[i])].data = files'[Path(level, Rest[i])].data
  BY <1>2, <1>3 DEF TargetStays, Stays, TypeInv, TargetOK, Has
<1>6. Queue' = MergedNow \o Rest /\ MergedNow = unit.merged \o <<Out>> /\ <<Out>> \in Seq(Items)
  <2>1. Queue' = MergedNow \o Rest
    BY <1>1 DEF Queue, MergedNow, Rest, Out, OutName
  <2>2. MergedNow = unit.merged \o <<Out>> /\ <<Out>> \in Seq(Items)
    BY <1>2 DEF MergedNow
  <2> QED
    BY <2>1, <2>2
<1> SUFFICES ASSUME NEW k \in LongKeys
             PROVE  OverlayOf(files', level, MergedNow \o Rest)[k] = unit.input[k]
  BY <1>1, <1>6 DEF Ordered
<1>7. k \in Keys
  BY DEF LongKeys
<1>8. unit.input[k] = OverlayOf(files, level, unit.merged \o unit.target)[k]
  BY <1>1 DEF Ordered, AtUnit, Queue
<1> HIDE DEF l, r
<1> DEFINE m == OverlayOf(files, level, unit.merged)[k]
           x == files[Path(level, l)].data[k]
           y == files[Path(level, r)].data[k]
           z == OverlayOf(files, level, Rest)[k]
<1>9. OverlayOf(files, level, unit.merged \o unit.target)[k] =
        IF m # Absent THEN m ELSE IF x # Absent THEN x ELSE IF y # Absent THEN y ELSE z
  <2>1. OverlayOf(files, level, unit.target)[k] =
          IF x # Absent THEN x ELSE IF y # Absent THEN y ELSE z
    <3> DEFINE s == unit.target
    <3>1. s \in Seq(Items) /\ Len(s) >= 2
      BY <1>1, <1>2
    <3> HIDE DEF s, x, y, z
    <3>2. OverlayOf(files, level, s)[k] =
            IF files[Path(level, s[1])].data[k] # Absent THEN files[Path(level, s[1])].data[k]
            ELSE IF files[Path(level, s[2])].data[k] # Absent THEN files[Path(level, s[2])].data[k]
            ELSE OverlayOf(files, level, Tail(Tail(s)))[k]
      BY <1>7, <3>1, OverlayPair
    <3> QED
      BY <3>2 DEF l, r, Rest, s, x, y, z
  <2> QED
    BY <1>2, <1>7, <2>1, OverlayConcat
<1>10. OverlayOf(files', level, MergedNow \o Rest)[k] =
         IF m # Absent THEN m ELSE IF x # Absent THEN x ELSE IF y # Absent THEN y ELSE z
  <2>1. OverlayOf(files', level, unit.merged)[k] = m
    BY <1>2, <1>4, <1>7, OverlaySame
  <2>2. OverlayOf(files', level, Rest)[k] = z
    BY <1>2, <1>5, <1>7, OverlaySame
  <2>3. OverlayOf(files', level, <<Out>>)[k] = IF x # Absent THEN x ELSE y
    <3>1. OverlayOf(files', level, <<Out>>)[k] = files'[Path(level, Out)].data[k]
      BY <1>2, <1>7, OverlaySingle
    <3>2. files'[Path(level, Out)].data = Joined(At(l).data, At(r).data)
      BY <1>1, CreateMakes DEF l, r
    <3> QED
      BY <3>1, <3>2, JoinedLong DEF At
  <2>4. OverlayOf(files', level, MergedNow)[k] =
          IF m # Absent THEN m ELSE IF x # Absent THEN x ELSE y
    <3> DEFINE o == <<Out>>
    <3>1. o \in Seq(Items) /\ MergedNow = unit.merged \o o
      BY <1>6
    <3>2. OverlayOf(files', level, o)[k] = IF x # Absent THEN x ELSE y
      BY <2>3
    <3> HIDE DEF o, m, x, y
    <3>3. OverlayOf(files', level, unit.merged \o o)[k] =
            IF OverlayOf(files', level, unit.merged)[k] # Absent
              THEN OverlayOf(files', level, unit.merged)[k] ELSE OverlayOf(files', level, o)[k]
      BY <1>2, <1>7, <3>1, OverlayConcat
    <3> QED
      BY <2>1, <3>1, <3>2, <3>3
  <2>5. MergedNow \in Seq(Items)
    BY <1>2, AppendItems DEF MergedNow
  <2> HIDE DEF m, x, y, z
  <2>6. OverlayOf(files', level, MergedNow \o Rest)[k] =
          IF OverlayOf(files', level, MergedNow)[k] # Absent
            THEN OverlayOf(files', level, MergedNow)[k]
            ELSE OverlayOf(files', level, Rest)[k]
    BY <1>2, <1>7, <2>5, OverlayConcat
  <2> QED
    BY <2>2, <2>4, <2>6
<1> QED
  BY <1>8, <1>9, <1>10

\* A drain takes from the queue nothing, and changes nothing that is in it.
LEMMA DrainOrdered ==
  ASSUME TypeInv, Ordered, Drain
  PROVE  Ordered'
<1>1. /\ pc = "drain" /\ pc' # "drain" /\ level' = level /\ unit'.input = unit.input
      /\ Rest \in Seq(Items) /\ MergedNow \in Seq(Items)
      /\ \/ unit'.merged = MergedNow /\ unit'.target = Rest
         \/ unit'.merged = <<>> /\ unit'.target = MergedNow \o Rest
  BY DrainStep
<1> DEFINE all == MergedNow \o Rest
<1>2. all \in Seq(Items) /\ <<>> \o all = all
  BY <1>1, ConcatItems
<1>3. Queue' = all /\ Queue = all
  BY <1>1, <1>2 DEF Queue
<1>4. \A i \in DOMAIN all : files'[Path(level, all[i])] = files[Path(level, all[i])]
  BY <1>1, DrainKeeps, ConcatItems
<1> HIDE DEF all
<1>5. ASSUME NEW k \in LongKeys
      PROVE  OverlayOf(files', level', Queue')[k] = unit'.input[k]
  <2>1. k \in Keys
    BY DEF LongKeys
  <2>2. OverlayOf(files, level, all)[k] = unit.input[k]
    BY <1>1, <1>3 DEF Ordered, AtUnit
  <2>3. OverlayOf(files', level, all)[k] = OverlayOf(files, level, all)[k]
    BY <1>2, <1>4, <2>1, OverlaySame
  <2> QED
    BY <1>1, <1>3, <2>2, <2>3
<1> QED
  BY <1>5 DEF Ordered

LEMMA FrameOrdered ==
  ASSUME TypeInv, Ordered, Frame
  PROVE  Ordered'
<1>1. /\ pc = "frame" /\ pc' = "sweep" /\ UNCHANGED <<level, unit>> /\ \A p : Stays(p)
  BY LastFormed DEF Frame, Forms, Intact
<1>2. Queue \in Seq(Items) /\ (\A i \in DOMAIN Queue : Has(Queue[i])) /\ Queue' = Queue
  BY <1>1, QueueItems DEF AtUnit, Queue
<1>3. \A i \in DOMAIN Queue :
        files[Path(level, Queue[i])].data = files'[Path(level, Queue[i])].data
  BY <1>1, <1>2 DEF Has, Stays
<1>4. ASSUME NEW k \in LongKeys
      PROVE  OverlayOf(files', level', Queue')[k] = unit'.input[k]
  <2>1. k \in Keys
    BY DEF LongKeys
  <2>2. OverlayOf(files, level, Queue)[k] = unit.input[k]
    BY <1>1 DEF Ordered, AtUnit
  <2> QED
    BY <1>1, <1>2, <1>3, <2>1, <2>2, OverlaySame
<1> QED
  BY <1>4 DEF Ordered

LEMMA EnvironmentStays ==
  ASSUME TypeInv, FlushBegin \/ FlushEnd \/ FlushTorn \/ TimerExpires \/ UNCHANGED vars
  PROVE  /\ \A p : Stays(p)
         /\ UNCHANGED <<pc, level, rounds, units, unit, outputs>>
<1>1. CASE FlushBegin
  BY <1>1, FlushBeginStays DEF FlushBegin, Stays
<1>2. CASE FlushEnd \/ FlushTorn
  <2>1. PICK form \in Forms : files' = Written(form)
    BY <1>2 DEF FlushEnd, FlushTorn, Forms
  <2>2. \A p \in DOMAIN files : Stays(p)
    BY <2>1, WrittenStays DEF TypeInv, Types
  <2> QED
    BY <1>2, <2>2 DEF FlushEnd, FlushTorn, Stays
<1>3. CASE TimerExpires \/ UNCHANGED vars
  BY <1>3 DEF TimerExpires, vars, Stays
<1> QED
  BY <1>1, <1>2, <1>3

\* After these steps no unit is at work.
LEMMA LeavesUnit ==
  ASSUME \/ VisitSkip \/ VisitCompact \/ JoinFails \/ DrainFails \/ FrameFails \/ Sweep
         \/ SweepFails \/ Promote \/ PromoteFails \/ Finish \/ Crash
  PROVE  pc' \in {"visit", "units"}
BY DEF VisitSkip, VisitCompact, JoinFails, DrainFails, FrameFails, Sweep, SweepFails,
       Promote, PromoteFails, Finish, Crash, AbandonUnit, EndCompaction

LEMMA NextOrdered ==
  ASSUME TypeInv, Ordered, WholeReads, [Next]_vars
  PROVE  Ordered'
<1>1. CASE FlushBegin \/ FlushEnd \/ FlushTorn \/ TimerExpires \/ UNCHANGED vars
  BY <1>1, EnvironmentStays, OrderRemains
<1>2. CASE \/ VisitSkip \/ VisitCompact \/ JoinFails \/ DrainFails \/ FrameFails \/ Sweep
           \/ SweepFails \/ Promote \/ PromoteFails \/ Finish \/ Crash
  BY <1>2, LeavesUnit DEF Ordered, AtUnit
<1> QED
  BY <1>1, <1>2, BeginUnitOrdered, JoinOrdered, DrainOrdered, FrameOrdered
     DEF Next, Coordinator

LEMMA AlwaysOrdered == WholeReads => (Spec => []Ordered)
<1> SUFFICES ASSUME WholeReads
             PROVE  Spec => []Ordered
  OBVIOUS
<1>1. Init => Ordered
  BY DEF Init, Ordered, AtUnit
<1>2. TypeInv /\ Ordered /\ [Next]_vars => Ordered'
  BY NextOrdered
<1> QED
  BY <1>1, <1>2, AlwaysTyped, PTL DEF Spec

\* If joins read only what is whole, then through all its passes a unit's files,
\* in their order, hold for every key of two bytes or more what its tables held.
THEOREM UnitOrder == WholeReads => (Spec => []UnitKeepsOrder)
<1>1. TypeInv /\ Ordered => UnitKeepsOrder
  BY OrderedIs
<1> QED
  BY <1>1, AlwaysOrdered, AlwaysTyped, PTL

=============================================================================
