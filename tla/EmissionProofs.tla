--------------------------- MODULE EmissionProofs ---------------------------
(***************************************************************************)
(* What the audit log and the decision stream promise for any number of    *)
(* records, faults and stops, any limits and any values of max_files, and  *)
(* whatever else fails: order, durability, and a stream without gaps.      *)
(***************************************************************************)
EXTENDS Emission, SumTheorems

-----------------------------------------------------------------------------
(***************************************************************************)
(* The invariant.                                                          *)
(***************************************************************************)
Writable == sink.at \notin {"down", "closed"}
Rotating == sink.at \in {"sync", "clear", "shift", "create"}
Carrying == Rotating \/ At("write")

\* TypeOK, but for the sizes, which are sums: the files, then the sink.
FileTypes ==
  /\ names \in [Slots -> 0..Len(disk)]
  /\ disk \in Seq(Seq(Piece))
  /\ synced \in Seq(Nat) /\ Len(synced) = Len(disk)
  /\ \A f \in DOMAIN disk : synced[f] <= Len(disk[f])

SinkTypes ==
  /\ DOMAIN sink = {"at", "file", "size", "limit", "maxFiles", "n", "syncWrites", "recordAll"}
  /\ sink.at \in SinkAt /\ sink.file \in 0..Len(disk) /\ sink.n \in Slots
  /\ sink.maxFiles \in FileLimits \cup {0}
  /\ next \in 0..MaxRecords
  /\ line \in [rec : 0..next, bytes : Nat]

\* The record in hand is the last one offered, and newer than what is on disk.
InHand ==
  /\ line.rec = IF Carrying THEN next ELSE 0
  /\ Carrying => next > 0

Newest(r) == \A f \in DOMAIN disk : \A i \in DOMAIN disk[f] : disk[f][i].rec <= r
NothingNewer == Newest(next) /\ (Carrying => Newest(next - 1))

\* The order, of every file, and between files that have names.
Increasing ==
  \A f \in DOMAIN disk : \A i, j \in DOMAIN disk[f] : i < j => disk[f][i].rec < disk[f][j].rec
Older(f, g) == \A i \in DOMAIN disk[f], j \in DOMAIN disk[g] : disk[f][i].rec < disk[g][j].rec
Ordered ==
  \A m, n \in Slots : names[m] # 0 /\ names[n] # 0 /\ m < n => Older(names[n], names[m])

OneName == \A m, n \in Slots : names[m] = names[n] /\ names[m] # 0 => m = n

\* Each file but the first was made for a record, so that names do not run out.
FewFiles ==
  /\ Len(disk) <= next + 1
  /\ names[0] = 0 \/ Rotating => Len(disk) <= next
  /\ names[MaxRecords + 2] = 0

\* The file that is written to is the newest, if it has a name at all.
WritesNewest ==
  Writable => /\ sink.file \in DOMAIN disk
           /\ \A m \in Slots : names[m] = sink.file => \A k \in 0..(m - 1) : names[k] = 0

\* What a rotation has done by each of its steps: what it moves goes to a free name, or
\* a Stat has failed.
RotationAt ==
  /\ At("clear") => /\ sink.maxFiles \in 1..sink.n
                    /\ \A k \in sink.maxFiles..(sink.n - 1) : names[k] = 0
  /\ At("shift") => /\ sink.n <= MaxRecords
                    /\ names[sink.n + 1] # 0 => sink.maxFiles \in StatFailsUnder
  /\ At("create") => names[0] = 0

FilesInv == FileTypes /\ OneName /\ Increasing /\ Ordered
LogInv == /\ FilesInv /\ SinkTypes /\ InHand /\ NothingNewer
          /\ FewFiles /\ WritesNewest /\ RotationAt

-----------------------------------------------------------------------------
(***************************************************************************)
(* A rotation under max_files 0 finds a free name: files do not share one, *)
(* and there are fewer files than names.                                   *)
(***************************************************************************)
\* Fewer values than names.
LEMMA Crowded ==
  ASSUME NEW d \in Nat, NEW m \in Nat, d < m, NEW f \in [1..m -> 1..d]
  PROVE  \E x, y \in 1..m : x # y /\ f[x] = f[y]
<1>1. IsFiniteSet(1..m) /\ Cardinality(1..m) = m
  BY FS_Interval
<1>2. IsFiniteSet(1..d) /\ Cardinality(1..d) = d
  BY FS_Interval
<1>3. Cardinality(1..d) < Cardinality(1..m)
  BY <1>1, <1>2
<1> QED BY <1>1, <1>2, <1>3, FS_PigeonHole

LEMMA FreeName ==
  ASSUME FileTypes, SinkTypes, OneName, FewFiles, At("sync")
  PROVE  FirstFree \in 1..(MaxRecords + 1) /\ names[FirstFree] = 0
<1> DEFINE m == MaxRecords + 1
           f == [n \in 1..m |-> names[n]]
           T == {n \in 1..m : names[n] = 0}
<1>1. m \in Nat /\ 1..m \subseteq Slots \ {0} /\ Slots \subseteq Nat
  BY MaxRecordsAssumption DEF Slots
<1>2. Len(disk) \in Nat /\ Len(disk) < m
  BY MaxRecordsAssumption DEF FileTypes, SinkTypes, FewFiles, Rotating, At
<1>3. \A n \in Slots : names[n] \in 0..Len(disk)
  BY DEF FileTypes
<1>4. T # {}
  <2> SUFFICES ASSUME \A n \in 1..m : names[n] # 0 PROVE FALSE
    OBVIOUS
  <2>1. \A n \in 1..m : names[n] \in 1..Len(disk)
    BY <1>1, <1>2, <1>3
  <2>2. f \in [1..m -> 1..Len(disk)]
    BY <2>1
  <2>3. PICK x, y \in 1..m : x # y /\ f[x] = f[y]
    BY <1>1, <1>2, <2>2, Crowded
  <2> QED BY <1>1, <2>3 DEF OneName
<1>5. PICK n \in T : \A k \in T : n <= k
  BY <1>1, <1>4, LeastNatural
<1>6. \A k \in 1..(n - 1) : names[k] # 0
  BY <1>1, <1>5
<1>7. \E x \in Slots \ {0} : names[x] = 0 /\ \A k \in 1..(x - 1) : names[k] # 0
  BY <1>1, <1>5, <1>6
<1>8. /\ FirstFree \in Slots \ {0} /\ names[FirstFree] = 0
      /\ \A k \in 1..(FirstFree - 1) : names[k] # 0
  BY <1>7 DEF FirstFree
<1>9. FirstFree <= n
  BY <1>1, <1>5, <1>8
<1> QED BY <1>1, <1>5, <1>8, <1>9

-----------------------------------------------------------------------------
(***************************************************************************)
(* What is done to the files.                                              *)
(***************************************************************************)
LEMMA SlotsAreNumbers == Slots \subseteq Nat /\ 0 \in Slots
  BY MaxRecordsAssumption DEF Slots

\* The invariant's order is the property.
LEMMA OrderFollows == FilesInv => OrderIsKept
<1> SUFFICES ASSUME FilesInv, NEW m \in Slots, NEW n \in Slots, names[m] # 0, names[n] # 0
             PROVE  /\ m < n => \A r \in RecordsIn(names[m]), k \in RecordsIn(names[n]) : k < r
                    /\ \A i, j \in DOMAIN disk[names[n]] :
                         i < j => disk[names[n]][i].rec < disk[names[n]][j].rec
  BY DEF OrderIsKept
<1>1. names[n] \in DOMAIN disk
  BY DEF FilesInv, FileTypes
<1>2. m < n => Older(names[n], names[m])
  BY DEF FilesInv, Ordered
<1>3. m < n => \A r \in RecordsIn(names[m]), k \in RecordsIn(names[n]) : k < r
  BY <1>2 DEF Older, RecordsIn
<1> QED BY <1>1, <1>3 DEF FilesInv, Increasing

LEMMA Unchanged == ASSUME FilesInv, UNCHANGED <<names, disk, synced>> PROVE FilesInv'
  BY DEF FilesInv, FileTypes, OneName, Increasing, Ordered, Older

\* An fsync.
LEMMA Synced ==
  ASSUME FilesInv, NEW f \in DOMAIN disk, UNCHANGED <<names, disk>>,
         synced' = [synced EXCEPT ![f] = Len(disk[f])]
  PROVE  FilesInv'
<1>1. disk[f] \in Seq(Piece)
  BY DEF FilesInv, FileTypes
<1>2. FileTypes'
  BY <1>1 DEF FilesInv, FileTypes
<1> QED BY <1>2 DEF FilesInv, OneName, Increasing, Ordered, Older

\* A name is taken away.
LEMMA Removed ==
  ASSUME FilesInv, NEW n \in Slots, UNCHANGED <<disk, synced>>, names' = [names EXCEPT ![n] = 0]
  PROVE  FilesInv'
<1>1. \A m \in Slots : names'[m] = IF m = n THEN 0 ELSE names[m]
  BY DEF FilesInv, FileTypes
<1>2. FileTypes'
  BY DEF FilesInv, FileTypes
<1>3. OneName' /\ Ordered'
  BY <1>1 DEF FilesInv, OneName, Ordered, Older
<1> QED BY <1>2, <1>3 DEF FilesInv, Increasing

\* A file moves up to the next name, and replaces what has it.
LEMMA Renamed ==
  ASSUME FilesInv, NEW n \in Slots, n + 1 \in Slots,
         UNCHANGED <<disk, synced>>,
         names' = [names EXCEPT ![n + 1] = names[n], ![n] = 0]
  PROVE  FilesInv'
<1> USE SlotsAreNumbers
<1>1. \A m \in Slots : names'[m] = IF m = n THEN 0 ELSE IF m = n + 1 THEN names[n] ELSE names[m]
  BY DEF FilesInv, FileTypes
<1>2. FileTypes'
  BY DEF FilesInv, FileTypes
<1>3. OneName'
  <2>1. ASSUME NEW k \in Slots, NEW m \in Slots, names'[k] = names'[m], names'[k] # 0
        PROVE  k = m
    <3> DEFINE From(x) == IF x = n + 1 THEN n ELSE x
    <3>1. /\ From(k) \in Slots /\ From(m) \in Slots /\ k # n /\ m # n
          /\ names'[k] = names[From(k)] /\ names'[m] = names[From(m)]
      BY <1>1, <2>1
    <3>2. From(k) = From(m)
      BY <2>1, <3>1 DEF FilesInv, OneName
    <3> QED BY <3>1, <3>2
  <2> QED BY <2>1 DEF OneName
<1>4. ASSUME NEW k \in Slots, NEW m \in Slots, names'[k] # 0, names'[m] # 0, k < m
      PROVE  Older(names'[m], names'[k])
  <2> DEFINE From(x) == IF x = n + 1 THEN n ELSE x
  <2>1. From(k) \in Slots /\ From(m) \in Slots /\ names'[k] = names[From(k)] /\ names'[m] = names[From(m)]
    BY <1>1, <1>4
  <2>2. k # n /\ m # n
    BY <1>1, <1>4
  <2>3. From(k) < From(m)
    BY <1>4, <2>2
  <2> QED BY <1>4, <2>1, <2>3 DEF FilesInv, Ordered
<1>5. Ordered'
  BY <1>4 DEF Ordered, Older
<1> QED BY <1>2, <1>3, <1>5 DEF FilesInv, Increasing

\* A new file, under the name of the current one.
LEMMA Created ==
  ASSUME FilesInv, names[0] = 0,
         disk' = Append(disk, <<>>), synced' = Append(synced, 0),
         names' = [names EXCEPT ![0] = Len(disk) + 1]
  PROVE  FilesInv'
<1> USE SlotsAreNumbers
<1>1. \A m \in Slots : names'[m] = IF m = 0 THEN Len(disk) + 1 ELSE names[m]
  BY DEF FilesInv, FileTypes
<1>2. /\ DOMAIN disk' = 1..(Len(disk) + 1) /\ Len(disk') = Len(disk) + 1
      /\ disk'[Len(disk) + 1] = <<>>
      /\ \A f \in DOMAIN disk : f # Len(disk) + 1 /\ disk'[f] = disk[f]
      /\ Len(disk) \in Nat /\ DOMAIN disk = 1..Len(disk)
  BY DEF FilesInv, FileTypes
<1>3. \A m \in Slots : names[m] \in 0..Len(disk)
  BY DEF FilesInv, FileTypes
<1>4. FileTypes'
  <2>1. names' \in [Slots -> 0..Len(disk')]
    BY <1>2, <1>3 DEF FilesInv, FileTypes
  <2>2. disk' \in Seq(Seq(Piece)) /\ synced' \in Seq(Nat) /\ Len(synced') = Len(disk')
    BY <1>2 DEF FilesInv, FileTypes
  <2>3. ASSUME NEW f \in DOMAIN disk' PROVE synced'[f] <= Len(disk'[f])
    <3>1. CASE f = Len(disk) + 1
      BY <1>2, <3>1 DEF FilesInv, FileTypes
    <3>2. CASE f # Len(disk) + 1
      BY <1>2, <3>2 DEF FilesInv, FileTypes
    <3> QED BY <3>1, <3>2
  <2> QED BY <2>1, <2>2, <2>3 DEF FileTypes
<1>5. OneName'
  BY <1>1, <1>2, <1>3 DEF FilesInv, OneName
<1>6. Increasing'
  BY <1>2 DEF FilesInv, Increasing
<1>7. Ordered'
  BY <1>1, <1>2, <1>3 DEF FilesInv, Ordered, Older
<1> QED BY <1>4, <1>5, <1>6, <1>7 DEF FilesInv

\* A piece goes to the newest file that has a name, or to one without a name.
LEMMA Written ==
  ASSUME FilesInv, NEW f \in DOMAIN disk, NEW p \in Piece, Newest(p.rec - 1),
         \A m \in Slots : names[m] = f => \A k \in 0..(m - 1) : names[k] = 0,
         names' = names, disk' = [disk EXCEPT ![f] = Append(@, p)],
         \/ synced' = synced
         \/ synced' = [synced EXCEPT ![f] = Len(disk[f]) + 1]
  PROVE  FilesInv' /\ \A n \in Nat : p.rec <= n => Newest(n)'
<1> USE SlotsAreNumbers
<1> DEFINE last == Len(disk[f]) + 1
<1>1. /\ disk \in Seq(Seq(Piece)) /\ disk[f] \in Seq(Piece)
      /\ DOMAIN disk' = DOMAIN disk /\ Len(disk') = Len(disk)
      /\ disk'[f] = Append(disk[f], p) /\ \A g \in DOMAIN disk \ {f} : disk'[g] = disk[g]
  BY DEF FilesInv, FileTypes
<1>2. /\ Len(disk[f]) \in Nat /\ DOMAIN disk[f] = 1..(last - 1)
      /\ DOMAIN disk'[f] = 1..last /\ disk'[f][last] = p
      /\ \A i \in DOMAIN disk[f] : disk'[f][i] = disk[f][i]
      /\ Len(disk'[f]) = last
  BY <1>1
<1>3. \A g \in DOMAIN disk : \A i \in DOMAIN disk[g] : disk[g][i] \in Piece /\ disk[g][i].rec \in Nat
  <2>1. \A q \in Piece : q.rec \in Nat
    BY MaxRecordsAssumption DEF Piece, Records
  <2> QED BY <1>1, <2>1
<1>4. p.rec \in Nat
  BY MaxRecordsAssumption DEF Piece, Records
<1>5. FileTypes'
  <2>1. disk' \in Seq(Seq(Piece))
    BY <1>1
  <2>2. synced' \in Seq(Nat) /\ Len(synced') = Len(disk')
    <3>1. synced \in Seq(Nat) /\ Len(synced) = Len(disk) /\ last \in Nat /\ f \in 1..Len(synced)
      BY <1>1, <1>2 DEF FilesInv, FileTypes
    <3>2. [synced EXCEPT ![f] = last] \in Seq(Nat) /\ Len([synced EXCEPT ![f] = last]) = Len(synced)
      BY <3>1
    <3> QED BY <1>1, <3>1, <3>2
  <2>3. ASSUME NEW g \in DOMAIN disk' PROVE synced'[g] <= Len(disk'[g])
    <3>1. g \in DOMAIN synced /\ synced[g] <= Len(disk[g]) /\ synced[g] \in Nat
      BY <1>1 DEF FilesInv, FileTypes
    <3>2. CASE g = f
      BY <1>1, <1>2, <3>1, <3>2
    <3>3. CASE g # f
      BY <1>1, <3>1, <3>3
    <3> QED BY <3>2, <3>3
  <2> QED BY <1>1, <2>1, <2>2, <2>3 DEF FilesInv, FileTypes
<1>6. Increasing'
  <2> SUFFICES ASSUME NEW g \in DOMAIN disk', NEW i \in DOMAIN disk'[g], NEW j \in DOMAIN disk'[g], i < j
               PROVE  disk'[g][i].rec < disk'[g][j].rec
    BY DEF Increasing
  <2>1. CASE g # f
    BY <1>1, <2>1 DEF FilesInv, Increasing
  <2>2. CASE g = f /\ j # last
    <3>1. i \in DOMAIN disk[f] /\ j \in DOMAIN disk[f]
      BY <1>2, <2>2
    <3> QED BY <1>2, <2>2, <3>1 DEF FilesInv, Increasing
  <2>3. CASE g = f /\ j = last
    <3>1. i \in DOMAIN disk[f]
      BY <1>2, <2>3
    <3>2. disk[f][i].rec <= p.rec - 1 /\ disk[f][i].rec \in Nat
      BY <1>3, <3>1 DEF Newest
    <3> QED BY <1>2, <1>4, <2>3, <3>1, <3>2
  <2> QED BY <2>1, <2>2, <2>3
<1>7. Ordered'
  <2> SUFFICES ASSUME NEW m \in Slots, NEW n \in Slots, names[m] # 0, names[n] # 0, m < n,
                      NEW i \in DOMAIN disk'[names[n]], NEW j \in DOMAIN disk'[names[m]]
               PROVE  disk'[names[n]][i].rec < disk'[names[m]][j].rec
    BY DEF Ordered, Older
  <2>1. names[m] \in DOMAIN disk /\ names[n] \in DOMAIN disk
    BY DEF FilesInv, FileTypes
  <2>2. names[n] # f
    <3>1. m \in 0..(n - 1)
      OBVIOUS
    <3> QED BY <3>1
  <2>3. i \in DOMAIN disk[names[n]] /\ disk'[names[n]][i] = disk[names[n]][i]
    BY <1>1, <2>1, <2>2
  <2>4. CASE j \in DOMAIN disk[names[m]] /\ disk'[names[m]][j] = disk[names[m]][j]
    BY <2>3, <2>4 DEF FilesInv, Ordered, Older
  <2>5. CASE names[m] = f /\ j = last
    <3>1. disk[names[n]][i].rec <= p.rec - 1 /\ disk[names[n]][i].rec \in Nat
      BY <1>3, <2>1, <2>3 DEF Newest
    <3> QED BY <1>2, <1>4, <2>3, <2>5, <3>1
  <2>6. CASE names[m] = f
    <3>1. j \in 1..last /\ (j # last => j \in DOMAIN disk[f] /\ disk'[f][j] = disk[f][j])
      BY <1>2, <2>6
    <3> QED BY <2>4, <2>5, <2>6, <3>1
  <2>7. CASE names[m] # f
    <3>1. disk'[names[m]] = disk[names[m]]
      BY <1>1, <2>1, <2>7
    <3> QED BY <2>4, <3>1
  <2> QED BY <2>6, <2>7
<1>8. OneName'
  BY DEF FilesInv, OneName
<1>9. ASSUME NEW n \in Nat, p.rec <= n,
             NEW g \in DOMAIN disk', NEW i \in DOMAIN disk'[g]
      PROVE  disk'[g][i].rec <= n
  <2>1. CASE g # f \/ i # last
    <3>1. g \in DOMAIN disk /\ i \in DOMAIN disk[g] /\ disk'[g][i] = disk[g][i]
      BY <1>1, <1>2, <2>1
    <3>2. disk[g][i].rec <= p.rec - 1 /\ disk[g][i].rec \in Nat
      BY <1>3, <3>1 DEF Newest
    <3> QED BY <1>4, <1>9, <3>1, <3>2
  <2>2. CASE g = f /\ i = last
    BY <1>2, <1>9, <2>2
  <2> QED BY <2>1, <2>2
<1> QED BY <1>5, <1>6, <1>7, <1>8, <1>9 DEF FilesInv, Newest

LEMMA FunctionIsSeq == ASSUME NEW n \in Nat, NEW S, NEW f \in [1..n -> S] PROVE f \in Seq(S)
  BY SMT

\* Every file is cut, not before what is synced.
LEMMA Cut ==
  ASSUME FilesInv, NEW kept \in [DOMAIN disk -> Nat], names' = names, synced' = kept,
         disk' \in Seq(Seq(Piece)), Len(disk') = Len(disk),
         \A f \in DOMAIN disk : /\ kept[f] = Len(disk'[f]) /\ Len(disk'[f]) <= Len(disk[f])
                                /\ \A i \in 1..Len(disk'[f]) : disk'[f][i] = disk[f][i]
  PROVE  FilesInv' /\ \A n \in Nat : Newest(n) => Newest(n)'
<1> USE SlotsAreNumbers
<1>1. /\ disk \in Seq(Seq(Piece)) /\ Len(disk) \in Nat /\ DOMAIN disk = 1..Len(disk)
      /\ DOMAIN disk' = DOMAIN disk
  BY DEF FilesInv, FileTypes
<1>2. ASSUME NEW f \in DOMAIN disk
      PROVE  /\ DOMAIN disk'[f] = 1..Len(disk'[f]) /\ DOMAIN disk'[f] \subseteq DOMAIN disk[f]
             /\ \A i \in DOMAIN disk'[f] : disk'[f][i] = disk[f][i]
  <2>1. disk[f] \in Seq(Piece) /\ disk'[f] \in Seq(Piece)
    BY <1>1
  <2>2. /\ DOMAIN disk[f] = 1..Len(disk[f]) /\ DOMAIN disk'[f] = 1..Len(disk'[f])
        /\ Len(disk[f]) \in Nat /\ Len(disk'[f]) \in Nat
    BY <2>1
  <2> QED BY <2>2
<1>4. synced' \in Seq(Nat) /\ Len(synced') = Len(disk')
  <2>1. kept \in [1..Len(disk) -> Nat]
    BY <1>1
  <2>2. kept \in Seq(Nat)
    BY <1>1, <2>1, FunctionIsSeq
  <2> QED BY <1>1, <2>1, <2>2
<1>3. \A f \in DOMAIN disk' : synced'[f] <= Len(disk'[f])
  BY <1>1
<1>5. FileTypes'
  BY <1>3, <1>4 DEF FilesInv, FileTypes
<1>6. Increasing'
  BY <1>1, <1>2 DEF FilesInv, Increasing
<1>7. Ordered'
  <2> SUFFICES ASSUME NEW m \in Slots, NEW n \in Slots, names[m] # 0, names[n] # 0, m < n,
                      NEW i \in DOMAIN disk'[names[n]], NEW j \in DOMAIN disk'[names[m]]
               PROVE  disk'[names[n]][i].rec < disk'[names[m]][j].rec
    BY DEF Ordered, Older
  <2>1. names[m] \in DOMAIN disk /\ names[n] \in DOMAIN disk
    BY <1>1 DEF FilesInv, FileTypes
  <2> QED BY <1>2, <2>1 DEF FilesInv, Ordered, Older
<1>8. OneName'
  BY DEF FilesInv, OneName
<1>9. \A n \in Nat : Newest(n) => Newest(n)'
  BY <1>1, <1>2 DEF Newest
<1> QED BY <1>5, <1>6, <1>7, <1>8, <1>9 DEF FilesInv

-----------------------------------------------------------------------------
(***************************************************************************)
(* The log, step by step.                                                  *)
(***************************************************************************)

\* A step that changes no file but what is synced of it.
LEMMA Quiet ==
  ASSUME LogInv, FilesInv', UNCHANGED <<names, disk>>,
         SinkTypes', InHand', RotationAt', Writable' => Writable /\ sink'.file = sink.file,
         \/ next' = next /\ (Carrying' => Carrying) /\ (Rotating' => Rotating)
         \/ next' = next + 1
  PROVE  LogInv'
<1>1. next \in Nat /\ next' \in Nat /\ Len(disk) \in Nat
  BY MaxRecordsAssumption DEF LogInv, SinkTypes, FilesInv, FileTypes
<1>2. ASSUME NEW f \in DOMAIN disk, NEW i \in DOMAIN disk[f] PROVE disk[f][i].rec \in Nat
  <2>1. \A q \in Piece : q.rec \in Nat
    BY MaxRecordsAssumption DEF Piece, Records
  <2>2. disk[f][i] \in Piece
    BY DEF LogInv, FilesInv, FileTypes
  <2> QED BY <2>1, <2>2
<1>3. NothingNewer'
  BY <1>1, <1>2 DEF LogInv, NothingNewer, Newest
<1>4. FewFiles'
  BY <1>1 DEF LogInv, FewFiles
<1>5. WritesNewest'
  BY DEF LogInv, WritesNewest
<1> QED BY <1>3, <1>4, <1>5 DEF LogInv

LEMMA EmitLog ==
  ASSUME LogInv, NEW kind, NEW bytes \in LineBytes, Emit(kind, bytes)
  PROVE  LogInv'
<1>1. /\ UNCHANGED <<names, disk, synced>> /\ next \in 0..(MaxRecords - 1) /\ next' = next + 1
      /\ DOMAIN sink' = DOMAIN sink /\ sink'.file = sink.file /\ sink'.n = sink.n
      /\ sink'.maxFiles = sink.maxFiles /\ sink.at = "idle"
  BY MaxRecordsAssumption DEF Emit, Goto, At, UntouchedFiles, LogInv, SinkTypes
<1>2. \/ line' = line /\ sink'.at = "idle"
      \/ line' = [rec |-> next', bytes |-> bytes] /\ sink'.at \in {"sync", "write"}
  BY <1>1 DEF Emit, Goto, At, LogInv, SinkTypes
<1>3. SinkTypes'
  BY <1>1, <1>2, LineBytesAssumption, MaxRecordsAssumption DEF LogInv, SinkTypes, SinkAt
<1>4. InHand'
  BY <1>1, <1>2 DEF LogInv, InHand, Carrying, Rotating, At
<1>5. RotationAt'
  BY <1>2 DEF RotationAt, At
<1>6. FilesInv'
  BY <1>1, Unchanged DEF LogInv
<1>7. Writable' => Writable /\ sink'.file = sink.file
  BY <1>1 DEF Writable
<1> QED BY <1>1, <1>3, <1>4, <1>5, <1>6, <1>7, Quiet

LEMMA ClosedLog == ASSUME LogInv, EmitClosed PROVE LogInv'
<1>1. /\ UNCHANGED <<names, disk, synced, sink, line>> /\ sink.at = "closed"
      /\ next \in 0..(MaxRecords - 1) /\ next' = next + 1
  BY MaxRecordsAssumption DEF EmitClosed, At, UntouchedFiles, LogInv, SinkTypes
<1>2. SinkTypes'
  BY <1>1, MaxRecordsAssumption DEF LogInv, SinkTypes
<1>3. InHand'
  BY <1>1 DEF LogInv, InHand, Carrying, Rotating, At
<1>4. RotationAt' /\ ~Writable'
  BY <1>1 DEF RotationAt, At, Writable
<1>5. FilesInv'
  BY <1>1, Unchanged DEF LogInv
<1> QED BY <1>1, <1>2, <1>3, <1>4, <1>5, Quiet

\* Putting a rotation off: the record goes to the file there is.
LEMMA PutOffLog ==
  ASSUME LogInv, Rotating, PutOff, UNCHANGED <<names, disk, synced, line, next>>
  PROVE  LogInv'
<1>1. /\ DOMAIN sink' = DOMAIN sink /\ sink'.file = sink.file /\ sink'.n = sink.n
      /\ sink'.maxFiles = sink.maxFiles /\ sink'.at = "write"
  BY DEF PutOff, LogInv, SinkTypes
<1>2. SinkTypes'
  BY <1>1 DEF LogInv, SinkTypes, SinkAt
<1>3. InHand'
  BY <1>1 DEF LogInv, InHand, Carrying, Rotating, At
<1>4. RotationAt' /\ ~Rotating' /\ Carrying /\ Writable
  BY <1>1 DEF RotationAt, At, Rotating, Carrying, Writable
<1>5. FilesInv'
  BY Unchanged DEF LogInv
<1> QED BY <1>1, <1>2, <1>3, <1>4, <1>5, Quiet

LEMMA MaxFilesRange == ASSUME SinkTypes PROVE sink.maxFiles \in 0..MaxRecords
<1>1. sink.maxFiles \in FileLimits \/ sink.maxFiles = 0
  BY DEF SinkTypes
<1>2. 0 \in 0..MaxRecords
  BY MaxRecordsAssumption
<1> QED BY <1>1, <1>2, FileLimitsAssumption, Zenon

\* The search for a free name, or the choice of the first to be deleted.
LEMMA RoomMade ==
  ASSUME LogInv, sink.at = "sync", MakesRoom
  PROVE  /\ DOMAIN sink' = DOMAIN sink /\ sink'.file = sink.file /\ sink'.maxFiles = sink.maxFiles
         /\ \/ /\ sink'.at = "shift" /\ sink'.n \in 0..MaxRecords
               /\ names[sink'.n + 1] # 0 => sink.maxFiles \in StatFailsUnder
            \/ sink.maxFiles \in 1..MaxRecords /\ sink'.at = "clear" /\ sink'.n = sink.maxFiles
<1>1. FirstFree \in 1..(MaxRecords + 1) /\ names[FirstFree] = 0
  BY FreeName DEF LogInv, FilesInv, At
<1>2. sink.maxFiles \in 0..MaxRecords
  BY MaxFilesRange DEF LogInv
<1>3. CASE sink.maxFiles = 0 /\ sink' = [sink EXCEPT !.at = "shift", !.n = FirstFree - 1]
  <2>1. /\ DOMAIN sink' = DOMAIN sink /\ sink'.file = sink.file /\ sink'.maxFiles = sink.maxFiles
        /\ sink'.at = "shift" /\ sink'.n = FirstFree - 1
    BY <1>3 DEF LogInv, SinkTypes
  <2> QED BY <1>1, <2>1, MaxRecordsAssumption
<1>4. CASE /\ sink.maxFiles \in StatFailsUnder
           /\ \E n \in 1..(FirstFree - 1) : sink' = [sink EXCEPT !.at = "shift", !.n = n - 1]
  <2>1. PICK n \in 1..(FirstFree - 1) : sink' = [sink EXCEPT !.at = "shift", !.n = n - 1]
    BY <1>4
  <2>2. /\ DOMAIN sink' = DOMAIN sink /\ sink'.file = sink.file /\ sink'.maxFiles = sink.maxFiles
        /\ sink'.at = "shift" /\ sink'.n = n - 1
    BY <2>1 DEF LogInv, SinkTypes
  <2> QED BY <1>1, <1>4, <2>2, MaxRecordsAssumption
<1>5. CASE sink.maxFiles # 0 /\ sink' = [sink EXCEPT !.at = "clear", !.n = sink.maxFiles]
  <2>1. /\ DOMAIN sink' = DOMAIN sink /\ sink'.file = sink.file /\ sink'.maxFiles = sink.maxFiles
        /\ sink'.at = "clear" /\ sink'.n = sink.maxFiles
    BY <1>5 DEF LogInv, SinkTypes
  <2> QED BY <1>2, <1>5, <2>1
<1> QED BY <1>3, <1>4, <1>5 DEF MakesRoom, StatFails

LEMMA SyncLog == ASSUME LogInv, RotateSync PROVE LogInv'
<1>1. sink.at = "sync" /\ next' = next /\ UNCHANGED <<names, disk, line>>
  BY DEF RotateSync, GiveUp, At, UntouchedFiles, UntouchedRecords
<1>2. Rotating /\ Carrying /\ Writable
  BY <1>1 DEF Rotating, Carrying, Writable
<1>3. CASE GiveUp
  BY <1>1, <1>2, <1>3, PutOffLog DEF GiveUp, UntouchedFiles
<1>4. CASE synced' = [synced EXCEPT ![sink.file] = Len(disk[sink.file])] /\ MakesRoom
  <2>1. /\ DOMAIN sink' = DOMAIN sink /\ sink'.file = sink.file /\ sink'.maxFiles = sink.maxFiles
        /\ \/ /\ sink'.at = "shift" /\ sink'.n \in 0..MaxRecords
              /\ names[sink'.n + 1] # 0 => sink.maxFiles \in StatFailsUnder
           \/ sink.maxFiles \in 1..MaxRecords /\ sink'.at = "clear" /\ sink'.n = sink.maxFiles
    BY <1>1, <1>4, RoomMade
  <2>4. sink'.n \in Slots
    BY <2>1, MaxRecordsAssumption DEF Slots
  <2>5. SinkTypes'
    BY <1>1, <2>1, <2>4 DEF LogInv, SinkTypes, SinkAt
  <2>6. InHand'
    BY <1>1, <2>1 DEF LogInv, InHand, Carrying, Rotating, At
  <2>7. RotationAt'
    BY <1>1, <2>1, MaxRecordsAssumption DEF RotationAt, At
  <2>8. FilesInv'
    BY <1>1, <1>2, <1>4, Synced DEF LogInv, WritesNewest
  <2> QED BY <1>1, <1>2, <2>1, <2>5, <2>6, <2>7, <2>8, Quiet
<1> QED BY <1>1, <1>3, <1>4 DEF RotateSync

LEMMA ClearLog == ASSUME LogInv, RotateClear PROVE LogInv'
<1>1. /\ sink.at = "clear" /\ next' = next /\ UNCHANGED <<disk, synced, line>>
      /\ sink.n \in Slots /\ sink.n \in Nat /\ sink.maxFiles \in 1..sink.n /\ sink.maxFiles \in 1..MaxRecords
  BY FileLimitsAssumption, MaxRecordsAssumption
     DEF RotateClear, GiveUp, At, UntouchedFiles, UntouchedRecords, LogInv, SinkTypes, RotationAt, Slots
<1>2. Rotating /\ Carrying /\ Writable
  BY <1>1 DEF Rotating, Carrying, Writable
<1>3. CASE GiveUp
  BY <1>1, <1>2, <1>3, PutOffLog DEF GiveUp, UntouchedFiles
<1>4. CASE /\ names[sink.n] # 0 /\ names' = [names EXCEPT ![sink.n] = 0]
           /\ sink' = [sink EXCEPT !.n = @ + 1]
  <2>1. /\ DOMAIN sink' = DOMAIN sink /\ sink'.file = sink.file /\ sink'.maxFiles = sink.maxFiles
        /\ sink'.at = "clear" /\ sink'.n = sink.n + 1
    BY <1>1, <1>4 DEF LogInv, SinkTypes
  <2>2. \A m \in Slots : names'[m] = IF m = sink.n THEN 0 ELSE names[m]
    BY <1>4 DEF LogInv, FilesInv, FileTypes
  <2>3. sink'.n \in Slots
    BY <1>1, <1>4, <2>1, MaxRecordsAssumption DEF LogInv, FewFiles, Slots
  <2>4. SinkTypes'
    BY <1>1, <2>1, <2>3 DEF LogInv, SinkTypes, SinkAt
  <2>5. InHand'
    BY <1>1, <2>1 DEF LogInv, InHand, Carrying, Rotating, At
  <2>6. RotationAt'
    <3>1. sink'.maxFiles \in 1..sink'.n
      BY <1>1, <2>1
    <3>2. ASSUME NEW k \in sink.maxFiles..sink.n PROVE names'[k] = 0
      <4>1. k \in Slots
        BY <1>1, MaxRecordsAssumption DEF Slots
      <4>2. k = sink.n \/ k \in sink.maxFiles..(sink.n - 1)
        BY <1>1
      <4> QED BY <1>1, <2>2, <4>1, <4>2 DEF LogInv, RotationAt, At
    <3> QED BY <1>1, <2>1, <3>1, <3>2 DEF RotationAt, At
  <2>7. FilesInv'
    BY <1>1, <1>4, Removed DEF LogInv
  <2>8. NothingNewer'
    BY <1>1, <1>2 DEF LogInv, NothingNewer, Newest
  <2>9. FewFiles'
    BY <1>1, <1>2, <2>2, MaxRecordsAssumption DEF LogInv, FewFiles, Slots
  <2>10. WritesNewest'
    <3>1. sink.file \in DOMAIN disk /\ sink.file # 0
      BY <1>2 DEF LogInv, WritesNewest, FilesInv, FileTypes
    <3>2. ASSUME NEW m \in Slots, names'[m] = sink.file, NEW k \in 0..(m - 1) PROVE names'[k] = 0
      <4>1. k \in Slots /\ names[m] = sink.file
        BY <2>2, <3>1, <3>2, MaxRecordsAssumption DEF Slots
      <4> QED BY <1>2, <2>2, <3>2, <4>1 DEF LogInv, WritesNewest
    <3> QED BY <1>1, <2>1, <3>1, <3>2 DEF WritesNewest
  <2> QED BY <2>4, <2>5, <2>6, <2>7, <2>8, <2>9, <2>10 DEF LogInv
<1>5. CASE /\ IF names[sink.n] = 0 THEN UNCHANGED faults ELSE StatFails
           /\ UntouchedFiles
           /\ sink' = [sink EXCEPT !.at = "shift", !.n = sink.maxFiles - 1]
  <2>1. /\ DOMAIN sink' = DOMAIN sink /\ sink'.file = sink.file /\ sink'.maxFiles = sink.maxFiles
        /\ sink'.at = "shift" /\ sink'.n = sink.maxFiles - 1
    BY <1>5 DEF LogInv, SinkTypes
  <2>2. /\ names' = names /\ sink'.n \in Slots
        /\ names[sink.maxFiles] # 0 => sink.maxFiles \in StatFailsUnder
    BY <1>1, <1>5, <2>1, MaxRecordsAssumption
       DEF UntouchedFiles, StatFails, LogInv, RotationAt, At, Slots
  <2>3. SinkTypes'
    BY <1>1, <2>1, <2>2 DEF LogInv, SinkTypes, SinkAt
  <2>4. InHand'
    BY <1>1, <2>1 DEF LogInv, InHand, Carrying, Rotating, At
  <2>5. RotationAt'
    BY <1>1, <2>1, <2>2, MaxRecordsAssumption DEF RotationAt, At
  <2>6. FilesInv'
    BY <1>1, <2>2, Unchanged DEF LogInv
  <2> QED BY <1>1, <1>2, <2>1, <2>2, <2>3, <2>4, <2>5, <2>6, Quiet
<1> QED BY <1>1, <1>3, <1>4, <1>5 DEF RotateClear

LEMMA ShiftLog == ASSUME LogInv, RotateShift PROVE LogInv'
<1>1. /\ sink.at = "shift" /\ next' = next /\ UNCHANGED <<disk, synced, line>>
      /\ sink.n \in Slots /\ sink.n \in 0..MaxRecords /\ sink.n + 1 \in Slots
  BY MaxRecordsAssumption
     DEF RotateShift, GiveUp, At, UntouchedFiles, UntouchedRecords, LogInv, SinkTypes, RotationAt, Slots
<1>2. Rotating /\ Carrying /\ Writable
  BY <1>1 DEF Rotating, Carrying, Writable
<1>3. CASE PutOff /\ UntouchedFiles
  BY <1>1, <1>2, <1>3, PutOffLog DEF UntouchedFiles
<1>4. CASE /\ names[sink.n] # 0
           /\ names' = [names EXCEPT ![sink.n + 1] = names[sink.n], ![sink.n] = 0]
           /\ sink' = IF sink.n = 0 THEN [sink EXCEPT !.at = "create"] ELSE [sink EXCEPT !.n = @ - 1]
  <2>1. /\ DOMAIN sink' = DOMAIN sink /\ sink'.file = sink.file /\ sink'.maxFiles = sink.maxFiles
        /\ \/ sink.n = 0 /\ sink'.at = "create" /\ sink'.n = sink.n
           \/ sink.n # 0 /\ sink'.at = "shift" /\ sink'.n = sink.n - 1
    BY <1>1, <1>4 DEF LogInv, SinkTypes
  <2>2. \A m \in Slots : names'[m] = IF m = sink.n THEN 0
                                     ELSE IF m = sink.n + 1 THEN names[sink.n] ELSE names[m]
    BY <1>1, <1>4 DEF LogInv, FilesInv, FileTypes
  <2>3. sink'.n \in Slots
    BY <1>1, <2>1, MaxRecordsAssumption DEF Slots
  <2>4. SinkTypes'
    BY <1>1, <2>1, <2>3 DEF LogInv, SinkTypes, SinkAt
  <2>5. InHand'
    BY <1>1, <2>1 DEF LogInv, InHand, Carrying, Rotating, At
  <2>6. RotationAt'
    <3>1. sink'.at = "shift" => sink'.n + 1 = sink.n /\ sink'.n <= MaxRecords
      BY <1>1, <2>1, MaxRecordsAssumption
    <3>2. names'[sink.n] = 0
      BY <1>1, <2>2
    <3> QED BY <2>1, <3>1, <3>2 DEF RotationAt, At
  <2>7. FilesInv'
    BY <1>1, <1>4, Renamed DEF LogInv
  <2>8. NothingNewer'
    BY <1>1, <1>2 DEF LogInv, NothingNewer, Newest
  <2>9. FewFiles'
    BY <1>1, <1>2, <2>2, MaxRecordsAssumption DEF LogInv, FewFiles, Slots
  <2>10. WritesNewest'
    <3>1. sink'.file \in DOMAIN disk'
      BY <1>1, <1>2, <2>1 DEF LogInv, WritesNewest
    <3>2. ASSUME NEW m \in Slots, names'[m] = sink.file, NEW k \in 0..(m - 1) PROVE names'[k] = 0
      <4>1. m \in Nat /\ k \in Slots /\ k \in Nat /\ k < m /\ sink.file # 0
        BY <1>1, <2>1, <3>1, MaxRecordsAssumption DEF Slots, LogInv, FilesInv, FileTypes
      <4>2. \A x \in Slots : names[x] = sink.file => \A y \in 0..(x - 1) : names[y] = 0
        BY <1>2 DEF LogInv, WritesNewest
      <4>3. CASE m = sink.n + 1
        <5>1. names[sink.n] = sink.file
          BY <1>1, <2>2, <3>2, <4>3
        <5>2. k = sink.n \/ k \in 0..(sink.n - 1)
          BY <1>1, <4>1, <4>3
        <5> QED BY <1>1, <2>2, <4>1, <4>2, <5>1, <5>2
      <4>4. CASE m # sink.n + 1
        <5>1. m # sink.n /\ names[m] = sink.file
          BY <2>2, <3>2, <4>1, <4>4
        <5>2. names[k] = 0 /\ (sink.n < m => names[sink.n] = 0)
          BY <1>1, <4>1, <4>2, <5>1
        <5>3. k # sink.n + 1
          BY <1>1, <1>4, <4>1, <5>2
        <5> QED BY <2>2, <4>1, <5>2, <5>3
      <4> QED BY <4>3, <4>4
    <3> QED BY <2>1, <3>1, <3>2 DEF WritesNewest
  <2> QED BY <2>4, <2>5, <2>6, <2>7, <2>8, <2>9, <2>10 DEF LogInv
<1>5. CASE /\ names[sink.n] = 0 /\ sink.n > 0 /\ UntouchedFiles
           /\ sink' = [sink EXCEPT !.n = @ - 1]
  <2>1. /\ DOMAIN sink' = DOMAIN sink /\ sink'.file = sink.file /\ sink'.maxFiles = sink.maxFiles
        /\ sink'.at = "shift" /\ sink'.n = sink.n - 1
    BY <1>1, <1>5 DEF LogInv, SinkTypes
  <2>2. names' = names /\ sink'.n \in Slots
    BY <1>1, <1>5, <2>1, MaxRecordsAssumption DEF UntouchedFiles, Slots
  <2>3. SinkTypes'
    BY <1>1, <2>1, <2>2 DEF LogInv, SinkTypes, SinkAt
  <2>4. InHand'
    BY <1>1, <2>1 DEF LogInv, InHand, Carrying, Rotating, At
  <2>5. RotationAt'
    <3>1. sink'.n + 1 = sink.n /\ sink'.n <= MaxRecords
      BY <1>1, <2>1, MaxRecordsAssumption
    <3> QED BY <1>5, <2>1, <2>2, <3>1 DEF RotationAt, At
  <2>6. FilesInv'
    BY <1>1, <2>2, Unchanged DEF LogInv
  <2> QED BY <1>1, <1>2, <2>1, <2>2, <2>3, <2>4, <2>5, <2>6, Quiet
<1> QED BY <1>1, <1>3, <1>4, <1>5 DEF RotateShift, GiveUp

\* What a new file under path leaves.
Opened ==
  /\ Len(disk') = Len(disk) + 1 /\ Len(disk) + 1 \in DOMAIN disk'
  /\ Len(disk) \in Nat
  /\ \A m \in Slots : names'[m] = Len(disk) + 1 => \A k \in 0..(m - 1) : names'[k] = 0
  /\ names'[0] # 0 /\ names'[MaxRecords + 2] = names[MaxRecords + 2]
  /\ \A n \in Nat : Newest(n) => Newest(n)'

LEMMA NewFile ==
  ASSUME FilesInv, disk' = Append(disk, <<>>), names' = [names EXCEPT ![0] = Len(disk) + 1]
  PROVE  Opened
<1>1. \A m \in Slots : names'[m] = IF m = 0 THEN Len(disk) + 1 ELSE names[m]
  BY SlotsAreNumbers DEF FilesInv, FileTypes
<1>2. /\ DOMAIN disk' = 1..(Len(disk) + 1) /\ Len(disk') = Len(disk) + 1
      /\ disk'[Len(disk) + 1] = <<>> /\ Len(disk) \in Nat /\ DOMAIN disk = 1..Len(disk)
      /\ \A f \in DOMAIN disk : disk'[f] = disk[f]
  BY DEF FilesInv, FileTypes
<1>3. \A m \in Slots : names'[m] = Len(disk) + 1 => m = 0
  BY <1>1, <1>2 DEF FilesInv, FileTypes
<1>4. MaxRecords + 2 \in Slots /\ MaxRecords + 2 # 0 /\ 0 \in Slots
  BY MaxRecordsAssumption DEF Slots
<1>5. ASSUME NEW n \in Nat, Newest(n), NEW f \in DOMAIN disk', NEW i \in DOMAIN disk'[f]
      PROVE  disk'[f][i].rec <= n
  <2>1. f \in DOMAIN disk
    BY <1>2
  <2> QED BY <1>2, <1>5, <2>1 DEF Newest
<1> QED BY <1>1, <1>2, <1>3, <1>4, <1>5 DEF Opened, Newest

LEMMA CreateLog == ASSUME LogInv, RotateCreate PROVE LogInv'
<1>1. /\ sink.at = "create" /\ next' = next /\ line' = line /\ names[0] = 0
  BY DEF RotateCreate, At, UntouchedRecords, LogInv, RotationAt
<1>2. Rotating /\ Carrying /\ next \in Nat /\ next - 1 \in Nat
  BY <1>1, MaxRecordsAssumption DEF Rotating, Carrying, LogInv, InHand, SinkTypes
<1>3. CASE PutOff /\ UNCHANGED <<names, disk, synced>>
  BY <1>1, <1>2, <1>3, PutOffLog
<1>4. CASE /\ disk' = Append(disk, <<>>) /\ synced' = Append(synced, 0)
           /\ names' = [names EXCEPT ![0] = Len(disk) + 1]
           /\ sink' = [sink EXCEPT !.at = "write", !.file = Len(disk) + 1, !.size = 0,
                         !.limit = MaxBytes]
  <2>1. /\ DOMAIN sink' = DOMAIN sink /\ sink'.file = Len(disk) + 1 /\ sink'.n = sink.n
        /\ sink'.maxFiles = sink.maxFiles /\ sink'.at = "write"
    BY <1>4 DEF LogInv, SinkTypes
  <2>2. FilesInv'
    BY <1>1, <1>4, Created DEF LogInv
  <2>3. Opened
    BY <1>4, NewFile DEF LogInv
  <2>4. SinkTypes'
    BY <1>1, <2>1, <2>3 DEF LogInv, SinkTypes, SinkAt, Opened
  <2>5. InHand'
    BY <1>1, <2>1 DEF LogInv, InHand, Carrying, Rotating, At
  <2>6. RotationAt'
    BY <2>1 DEF RotationAt, At
  <2>7. NothingNewer'
    BY <1>1, <1>2, <2>3 DEF LogInv, NothingNewer, Opened
  <2>8. FewFiles'
    BY <1>1, <1>2, <2>1, <2>3 DEF LogInv, FewFiles, Opened, Rotating, At
  <2>9. WritesNewest'
    BY <2>1, <2>3 DEF WritesNewest, Opened
  <2> QED BY <2>2, <2>4, <2>5, <2>6, <2>7, <2>8, <2>9 DEF LogInv
<1> QED BY <1>1, <1>3, <1>4 DEF RotateCreate

LEMMA OpenLog ==
  ASSUME LogInv, NEW n \in FileLimits, NEW sync, NEW all, Open(n, sync, all)
  PROVE  LogInv'
<1> DEFINE f == IF names[0] = 0 THEN Len(disk) + 1 ELSE names[0]
<1>1. /\ sink.at = "down" /\ next' = next /\ line' = line
      /\ sink'.at = "idle" /\ sink'.file = f /\ sink'.maxFiles = n /\ sink'.n = 0
      /\ DOMAIN sink' = {"at", "file", "size", "limit", "maxFiles", "n", "syncWrites", "recordAll"}
  BY DEF Open, Down, At, UntouchedRecords
<1>2. /\ names' = [names EXCEPT ![0] = f]
      /\ IF names[0] = 0 THEN disk' = Append(disk, <<>>) /\ synced' = Append(synced, 0)
                         ELSE disk' = disk /\ synced' = synced
  BY DEF Open
<1>3. InHand' /\ next \in Nat
  BY <1>1, MaxRecordsAssumption DEF LogInv, InHand, Carrying, Rotating, At, SinkTypes
<1>4. RotationAt' /\ ~Carrying' /\ ~Rotating'
  BY <1>1 DEF RotationAt, At, Carrying, Rotating
<1>5. CASE names[0] = 0
  <2>1. FilesInv' /\ Opened
    BY <1>2, <1>5, Created, NewFile DEF LogInv
  <2>2. SinkTypes'
    BY <1>1, <1>5, <2>1, SlotsAreNumbers DEF LogInv, SinkTypes, SinkAt, Opened
  <2>3. NothingNewer'
    BY <1>1, <1>3, <1>4, <2>1 DEF LogInv, NothingNewer, Opened
  <2>4. FewFiles'
    BY <1>1, <1>3, <1>4, <1>5, <2>1 DEF LogInv, FewFiles, Opened
  <2>5. WritesNewest'
    BY <1>1, <1>5, <2>1 DEF WritesNewest, Opened
  <2> QED BY <1>3, <1>4, <2>1, <2>2, <2>3, <2>4, <2>5 DEF LogInv
<1>6. CASE names[0] # 0
  <2>1. names' = names /\ disk' = disk /\ synced' = synced
    BY <1>2, <1>6 DEF LogInv, FilesInv, FileTypes
  <2>2. FilesInv'
    BY <2>1, Unchanged DEF LogInv
  <2>3. names[0] \in DOMAIN disk
    BY <1>6, SlotsAreNumbers DEF LogInv, FilesInv, FileTypes
  <2>4. SinkTypes'
    BY <1>1, <1>6, <2>1, <2>3, SlotsAreNumbers DEF LogInv, SinkTypes, SinkAt
  <2>5. NothingNewer'
    BY <1>1, <2>1 DEF LogInv, NothingNewer, Newest, Carrying, Rotating, At
  <2>6. FewFiles'
    BY <1>1, <1>6, <2>1 DEF LogInv, FewFiles, Rotating, At
  <2>7. WritesNewest'
    <3>1. ASSUME NEW m \in Slots, names[m] = names[0] PROVE m = 0
      BY <1>6, <3>1, SlotsAreNumbers DEF LogInv, FilesInv, OneName
    <3> QED BY <1>1, <1>6, <2>1, <2>3, <3>1 DEF WritesNewest
  <2> QED BY <1>3, <1>4, <2>2, <2>4, <2>5, <2>6, <2>7 DEF LogInv
<1> QED BY <1>5, <1>6

LEMMA WriteLog == ASSUME LogInv, Write PROVE LogInv'
<1>1. sink.at = "write" /\ next' = next /\ names' = names
  BY DEF Write, At
<1>2. Carrying /\ Writable /\ line.rec = next /\ next \in 1..MaxRecords /\ line.bytes \in Nat
  BY <1>1, MaxRecordsAssumption DEF Carrying, Writable, At, LogInv, InHand, SinkTypes
<1>3. CASE Goto("idle") /\ line' = NoLine /\ UNCHANGED <<disk, synced>>
  <2>1. /\ DOMAIN sink' = DOMAIN sink /\ sink'.file = sink.file /\ sink'.n = sink.n
        /\ sink'.maxFiles = sink.maxFiles /\ sink'.at = "idle" /\ line' = [rec |-> 0, bytes |-> 0]
    BY <1>3 DEF Goto, NoLine, LogInv, SinkTypes
  <2>2. SinkTypes'
    BY <1>1, <1>3, <2>1, MaxRecordsAssumption DEF LogInv, SinkTypes, SinkAt
  <2>3. InHand' /\ RotationAt' /\ ~Rotating' /\ ~Carrying'
    BY <2>1 DEF InHand, RotationAt, Carrying, Rotating, At
  <2>4. FilesInv'
    BY <1>1, <1>3, Unchanged DEF LogInv
  <2> QED BY <1>1, <1>2, <1>3, <2>1, <2>2, <2>3, <2>4, Quiet
<1>4. CASE \E b \in Nat, w \in BOOLEAN :
             /\ Put(b, w)
             /\ \/ synced' = synced
                \/ synced' = [synced EXCEPT ![sink.file] = Len(disk[sink.file]) + 1]
  <2>1. PICK b \in Nat, w \in BOOLEAN :
          /\ Put(b, w)
          /\ \/ synced' = synced
             \/ synced' = [synced EXCEPT ![sink.file] = Len(disk[sink.file]) + 1]
    BY <1>4
  <2> DEFINE p == [rec |-> line.rec, bytes |-> b, whole |-> w]
  <2>2. /\ DOMAIN sink' = DOMAIN sink /\ sink'.file = sink.file /\ sink'.n = sink.n
        /\ sink'.maxFiles = sink.maxFiles /\ sink'.at = "idle" /\ line' = [rec |-> 0, bytes |-> 0]
        /\ disk' = [disk EXCEPT ![sink.file] = Append(@, p)]
    BY <2>1 DEF Put, NoLine, LogInv, SinkTypes
  <2>3. p \in Piece /\ p.rec = next
    BY <1>2 DEF Piece, Records
  <2>4. /\ sink.file \in DOMAIN disk
        /\ \A m \in Slots : names[m] = sink.file => \A k \in 0..(m - 1) : names[k] = 0
    BY <1>2 DEF LogInv, WritesNewest
  <2>5. Newest(next - 1)
    BY <1>2 DEF LogInv, NothingNewer
  <2>6. FilesInv' /\ \A n \in Nat : p.rec <= n => Newest(n)'
    BY <1>1, <2>1, <2>2, <2>3, <2>4, <2>5, Written DEF LogInv
  <2>7. /\ Len(disk') = Len(disk) /\ DOMAIN disk' = DOMAIN disk
    BY <2>2 DEF LogInv, FilesInv, FileTypes
  <2>8. SinkTypes'
    BY <1>1, <2>2, <2>7, MaxRecordsAssumption DEF LogInv, SinkTypes, SinkAt
  <2>9. InHand' /\ RotationAt' /\ ~Rotating' /\ ~Carrying'
    BY <2>2 DEF InHand, RotationAt, Carrying, Rotating, At
  <2>10. NothingNewer'
    BY <1>1, <1>2, <2>3, <2>6, <2>9 DEF NothingNewer
  <2>11. FewFiles'
    BY <1>1, <2>7, <2>9 DEF LogInv, FewFiles
  <2>12. WritesNewest'
    BY <1>1, <2>2, <2>4, <2>7 DEF WritesNewest
  <2> QED BY <2>6, <2>8, <2>9, <2>10, <2>11, <2>12 DEF LogInv
<1>5. \A n \in 1..(line.bytes - 1) : n \in Nat
  BY <1>2
<1> QED BY <1>2, <1>3, <1>4, <1>5 DEF Write

LEMMA FlushLog ==
  ASSUME LogInv, NEW then \in {"idle", "closed"}, Sync(then)
  PROVE  LogInv'
<1>1. /\ sink.at = "idle" /\ next' = next /\ UNCHANGED <<names, disk, line>>
      /\ DOMAIN sink' = DOMAIN sink /\ sink'.file = sink.file /\ sink'.n = sink.n
      /\ sink'.maxFiles = sink.maxFiles /\ sink'.at = then
  BY DEF Sync, Goto, At, UntouchedRecords, LogInv, SinkTypes
<1>2. Writable /\ ~Rotating' /\ ~Carrying' /\ RotationAt'
  BY <1>1 DEF Writable, Rotating, Carrying, RotationAt, At
<1>3. SinkTypes'
  BY <1>1 DEF LogInv, SinkTypes, SinkAt
<1>4. InHand'
  BY <1>1 DEF LogInv, InHand, Carrying, Rotating, At
<1>5. FilesInv'
  BY <1>1, <1>2, Synced, Unchanged DEF Sync, LogInv, WritesNewest
<1> QED BY <1>1, <1>2, <1>3, <1>4, <1>5, Quiet

\* A daemon that is down has no sink and no record in hand.
LEMMA DownLog ==
  ASSUME FilesInv', NothingNewer', FewFiles', sink' = Down, line' = NoLine, next' \in 0..MaxRecords
  PROVE  LogInv'
<1>1. Len(disk') \in Nat
  BY DEF FilesInv, FileTypes
<1>2. SinkTypes'
  BY <1>1, MaxRecordsAssumption DEF SinkTypes, Down, NoLine, SinkAt, Slots
<1>3. InHand' /\ WritesNewest' /\ RotationAt'
  BY DEF InHand, WritesNewest, RotationAt, Carrying, Rotating, Writable, At, Down, NoLine
<1> QED BY <1>2, <1>3 DEF LogInv

LEMMA StopLog == ASSUME LogInv, Stop PROVE LogInv'
<1>1. /\ UNCHANGED <<names, disk, synced>> /\ next' = next /\ sink' = Down /\ line' = NoLine
      /\ next \in 0..MaxRecords /\ ~Rotating' /\ ~Carrying'
  BY DEF Stop, UntouchedFiles, LogInv, SinkTypes, Rotating, Carrying, At, Down
<1>2. FilesInv' /\ NothingNewer' /\ FewFiles'
  BY <1>1, Unchanged DEF LogInv, NothingNewer, Newest, FewFiles
<1> QED BY <1>1, <1>2, DownLog

LEMMA PowerLog == ASSUME LogInv, PowerLoss PROVE LogInv'
<1>1. /\ names' = names /\ next' = next /\ sink' = Down /\ line' = NoLine
      /\ next \in 0..MaxRecords /\ ~Rotating' /\ ~Carrying'
  BY DEF PowerLoss, LogInv, SinkTypes, Rotating, Carrying, At, Down
<1>2. PICK kept \in [DOMAIN disk -> 0..MaxRecords] :
        /\ \A f \in DOMAIN disk : kept[f] \in synced[f]..Len(disk[f])
        /\ disk' = [f \in DOMAIN disk |-> SubSeq(disk[f], 1, kept[f])]
        /\ synced' = kept
  BY DEF PowerLoss
<1>3. /\ disk \in Seq(Seq(Piece)) /\ Len(disk) \in Nat /\ DOMAIN disk = 1..Len(disk)
      /\ kept \in [DOMAIN disk -> Nat]
  BY <1>2, MaxRecordsAssumption DEF LogInv, FilesInv, FileTypes
<1>4. ASSUME NEW f \in DOMAIN disk
      PROVE  /\ disk'[f] \in Seq(Piece) /\ kept[f] = Len(disk'[f]) /\ Len(disk'[f]) <= Len(disk[f])
             /\ \A i \in 1..Len(disk'[f]) : disk'[f][i] = disk[f][i]
  <2>1. disk'[f] = SubSeq(disk[f], 1, kept[f]) /\ disk[f] \in Seq(Piece)
    BY <1>2, <1>3
  <2>2. kept[f] \in Nat /\ kept[f] <= Len(disk[f]) /\ Len(disk[f]) \in Nat
    BY <1>2, <1>3, <2>1 DEF LogInv, FilesInv, FileTypes
  <2> QED BY <2>1, <2>2
<1>5. disk' \in [1..Len(disk) -> Seq(Piece)]
  BY <1>2, <1>3, <1>4
<1>6. disk' \in Seq(Seq(Piece)) /\ Len(disk') = Len(disk)
  <2>1. DOMAIN disk' = 1..Len(disk)
    BY <1>5
  <2>2. disk' \in Seq(Seq(Piece))
    BY <1>3, <1>5, FunctionIsSeq, Zenon
  <2> QED BY <1>3, <2>1, <2>2
<1>7. FilesInv' /\ \A n \in Nat : Newest(n) => Newest(n)'
  BY <1>1, <1>2, <1>3, <1>4, <1>6, Cut DEF LogInv
<1>8. NothingNewer'
  BY <1>1, <1>7 DEF LogInv, NothingNewer
<1>9. FewFiles'
  BY <1>1, <1>6 DEF LogInv, FewFiles
<1> QED BY <1>1, <1>7, <1>8, <1>9, DownLog

LEMMA InitLog == Init => LogInv
<1> SUFFICES ASSUME Init PROVE LogInv
  OBVIOUS
<1>1. /\ names = [n \in Slots |-> 0] /\ disk = <<>> /\ synced = <<>> /\ next = 0
      /\ sink = Down /\ line = NoLine
  BY DEF Init, AuditInit
<1>2. FileTypes /\ OneName /\ Increasing /\ Ordered /\ NothingNewer
  BY <1>1 DEF FileTypes, OneName, Increasing, Ordered, NothingNewer, Newest
<1>3. SinkTypes
  BY <1>1, MaxRecordsAssumption DEF SinkTypes, Down, NoLine, SinkAt, Slots
<1>4. InHand /\ WritesNewest /\ RotationAt
  BY <1>1 DEF InHand, WritesNewest, RotationAt, Carrying, Rotating, Writable, At, Down, NoLine
<1>5. FewFiles
  BY <1>1, MaxRecordsAssumption DEF FewFiles, Slots, Rotating, Down
<1> QED BY <1>2, <1>3, <1>4, <1>5 DEF LogInv, FilesInv

\* What a step does to the log.
LogStep ==
  \/ \E b \in LineBytes : \E kind \in {"record", "routine", "notable"} : Emit(kind, b)
  \/ EmitClosed
  \/ RotateSync \/ RotateClear \/ RotateShift \/ RotateCreate
  \/ Write \/ (\E then \in {"idle", "closed"} : Sync(then))
  \/ \E n \in FileLimits, sync, all \in BOOLEAN : Open(n, sync, all)
  \/ Stop \/ PowerLoss

LEMMA LogSteps == Next => LogStep \/ UNCHANGED auditVars
  BY DEF Next, LogStep, Record, EmitDecision, PublishEmitted, Flush, Close, Ends

LEMMA LogKept == LogInv /\ [Next]_vars => LogInv'
<1> SUFFICES ASSUME LogInv, [Next]_vars PROVE LogInv'
  OBVIOUS
<1>1. CASE UNCHANGED auditVars
  BY <1>1 DEF auditVars, LogInv, FilesInv, FileTypes, OneName, Increasing, Ordered, Older, SinkTypes,
              InHand, NothingNewer, Newest, FewFiles, WritesNewest, RotationAt, Carrying, Rotating,
              Writable, At
<1>2. CASE LogStep
  BY <1>2, EmitLog, ClosedLog, SyncLog, ClearLog, ShiftLog, CreateLog, WriteLog, FlushLog, OpenLog,
     StopLog, PowerLog DEF LogStep
<1> QED BY <1>1, <1>2, LogSteps DEF vars

LEMMA LogAlways == Spec => []LogInv
  BY InitLog, LogKept, PTL DEF Spec

\* The log is read in the order it was written, whatever rotation fails or is
\* interrupted, for any number of records, faults and stops (jsonl.go, rotate).
THEOREM LogIsInOrder == Spec => []OrderIsKept
<1>1. LogInv => OrderIsKept
  BY OrderFollows DEF LogInv
<1> QED BY <1>1, LogAlways, PTL

-----------------------------------------------------------------------------
(***************************************************************************)
(* The stream.                                                             *)
(***************************************************************************)
Subscription(s) ==
  /\ DOMAIN s = {"registered", "queue", "offered", "sent", "closes", "handler"}
  /\ s.queue \in Seq(Nat) /\ s.offered \in Nat /\ s.sent \in Nat

\* StreamHasNoGap, of one subscriber; before it subscribes nothing is published for it.
NoGap(s) ==
  /\ \A i \in 1..Len(s.queue) : s.queue[i] = s.sent + i
  /\ s.registered => s.sent + Len(s.queue) = s.offered
  /\ s.handler = "none" => ~s.registered /\ s.queue = <<>> /\ s.sent = s.offered

HubInv ==
  /\ subs = [c \in Subscribers |-> subs[c]]
  /\ \A c \in Subscribers : Subscription(subs[c]) /\ NoGap(subs[c])

LEMMA AbsentIsSound == Subscription(Absent) /\ NoGap(Absent)
  BY DEF Absent, Subscription, NoGap

LEMMA DroppedIsSound ==
  ASSUME NEW s, Subscription(s), NoGap(s)
  PROVE  Subscription(Dropped(s)) /\ NoGap(Dropped(s))
<1>1. CASE ~s.registered
  BY <1>1 DEF Dropped
<1>2. CASE s.registered
  <2> DEFINE d == [s EXCEPT !.registered = FALSE, !.closes = s.closes + 1]
  <2>1. Dropped(s) = d
    BY <1>2 DEF Dropped
  <2>2. /\ DOMAIN d = DOMAIN s /\ ~d.registered /\ d.queue = s.queue
        /\ d.offered = s.offered /\ d.sent = s.sent /\ d.handler = s.handler
    BY DEF Subscription
  <2> HIDE DEF d
  <2> QED BY <1>2, <2>1, <2>2 DEF Subscription, NoGap
<1> QED BY <1>1, <1>2 DEF Subscription

LEMMA OfferIsSound ==
  ASSUME NEW s, Subscription(s), s.registered, NoGap(s)
  PROVE  Subscription(Offer(s)) /\ NoGap(Offer(s))
<1>1. /\ s.queue \in Seq(Nat) /\ s.offered \in Nat /\ s.sent \in Nat /\ Len(s.queue) \in Nat
      /\ s.sent + Len(s.queue) = s.offered /\ s.handler # "none"
  BY DEF Subscription, NoGap
<1>2. CASE Len(s.queue) < HubCap
  <2> DEFINE q == Append(s.queue, s.offered + 1)
             o == [s EXCEPT !.queue = q, !.offered = s.offered + 1]
  <2>1. /\ q \in Seq(Nat) /\ Len(q) = Len(s.queue) + 1
        /\ \A i \in 1..Len(s.queue) : q[i] = s.queue[i]
        /\ q[Len(s.queue) + 1] = s.offered + 1
    BY <1>1
  <2>2. Offer(s) = o
    BY <1>2 DEF Offer
  <2>3. /\ DOMAIN o = DOMAIN s /\ o.registered /\ o.queue = q
        /\ o.offered = s.offered + 1 /\ o.sent = s.sent /\ o.handler = s.handler
    BY DEF Subscription
  <2> HIDE DEF q, o
  <2>4. ASSUME NEW i \in 1..Len(q) PROVE q[i] = s.sent + i
    <3>1. CASE i = Len(s.queue) + 1
      <4>1. s.offered + 1 = s.sent + (Len(s.queue) + 1)
        BY <1>1
      <4> QED BY <2>1, <3>1, <4>1
    <3>2. CASE i # Len(s.queue) + 1
      <4>1. i \in 1..Len(s.queue)
        BY <1>1, <2>1, <3>2
      <4> QED BY <2>1, <4>1 DEF NoGap
    <3> QED BY <3>1, <3>2
  <2>5. Subscription(o)
    BY <1>1, <2>1, <2>3 DEF Subscription
  <2>6. s.sent + (Len(s.queue) + 1) = s.offered + 1
    BY <1>1
  <2>7. o.sent + Len(o.queue) = o.offered /\ o.handler # "none"
    BY <1>1, <2>1, <2>3, <2>6
  <2>8. NoGap(o)
    BY <2>3, <2>4, <2>7 DEF NoGap
  <2> QED BY <2>2, <2>5, <2>8
<1>3. CASE ~(Len(s.queue) < HubCap)
  <2> DEFINE d == [s EXCEPT !.registered = FALSE, !.closes = s.closes + 1]
             o == [d EXCEPT !.offered = d.offered + 1]
  <2>1. Offer(s) = o
    BY <1>3 DEF Offer, Dropped
  <2>2. /\ DOMAIN o = DOMAIN s /\ ~o.registered /\ o.queue = s.queue
        /\ o.offered = s.offered + 1 /\ o.sent = s.sent /\ o.handler = s.handler
    BY DEF Subscription
  <2> HIDE DEF o
  <2>3. Subscription(o)
    BY <1>1, <2>2 DEF Subscription
  <2>4. NoGap(o)
    BY <1>1, <2>2 DEF NoGap
  <2> QED BY <2>1, <2>3, <2>4
<1> QED BY <1>2, <1>3

LEMMA UnsubscribedIsSound ==
  ASSUME NEW c
  PROVE  Subscription(Unsubscribed(c)) /\ NoGap(Unsubscribed(c))
<1> DEFINE u == Unsubscribed(c)
<1>1. /\ DOMAIN u = DOMAIN Absent /\ ~u.registered /\ u.queue = <<>>
      /\ u.offered = 0 /\ u.sent = 0 /\ u.handler = "done"
  BY DEF Unsubscribed, Absent
<1> HIDE DEF u
<1>2. DOMAIN u = {"registered", "queue", "offered", "sent", "closes", "handler"}
  BY <1>1 DEF Absent
<1>3. Subscription(u)
  BY <1>1, <1>2 DEF Subscription
<1>4. Len(u.queue) = 0
  BY <1>1
<1>5. NoGap(u)
  BY <1>1, <1>4 DEF NoGap
<1> QED BY <1>3, <1>5 DEF u

\* A step of one subscriber.
LEMMA OneSub ==
  ASSUME HubInv, NEW c \in Subscribers, NEW s, Subscription(s), NoGap(s),
         subs' = [subs EXCEPT ![c] = s]
  PROVE  HubInv'
<1>1. \A d \in Subscribers : subs'[d] = IF d = c THEN s ELSE subs[d]
  BY DEF HubInv
<1>2. subs' = [d \in Subscribers |-> subs'[d]]
  BY DEF HubInv
<1> QED BY <1>1, <1>2 DEF HubInv

LEMMA SubscribeIsSound == ASSUME HubInv, NEW c \in Subscribers, Subscribe(c) PROVE HubInv'
<1> DEFINE s == subs[c]
           t == [s EXCEPT !.registered = TRUE, !.handler = "running"]
<1>1. Subscription(s) /\ NoGap(s) /\ s.handler = "none"
  BY DEF HubInv, Subscribe
<1>2. subs' = [subs EXCEPT ![c] = t]
  BY <1>1 DEF Subscribe
<1>3. /\ DOMAIN t = DOMAIN s /\ t.registered /\ t.queue = s.queue
      /\ t.offered = s.offered /\ t.sent = s.sent /\ t.handler = "running"
  BY <1>1 DEF Subscription
<1> HIDE DEF s, t
<1>4. Subscription(t)
  BY <1>1, <1>3 DEF Subscription
<1>5. NoGap(t)
  BY <1>1, <1>3 DEF Subscription, NoGap
<1> QED BY <1>2, <1>4, <1>5, OneSub

LEMMA SendIsSound == ASSUME HubInv, NEW c \in Subscribers, Send(c) PROVE HubInv'
<1> DEFINE s == subs[c]
           q == s.queue
           t == [s EXCEPT !.queue = Tail(q), !.sent = Head(q)]
<1>1. /\ Subscription(s) /\ NoGap(s) /\ q \in Seq(Nat) /\ q # <<>> /\ s.sent \in Nat
      /\ s.handler # "none"
  BY DEF HubInv, Send, Subscription
<1>2. subs' = [subs EXCEPT ![c] = t]
  BY <1>1 DEF Send
<1>3. /\ DOMAIN t = DOMAIN s /\ (t.registered <=> s.registered) /\ t.queue = Tail(q)
      /\ t.offered = s.offered /\ t.sent = Head(q) /\ t.handler = s.handler
  BY <1>1 DEF Subscription
<1>4. /\ Tail(q) \in Seq(Nat) /\ Len(Tail(q)) = Len(q) - 1 /\ Len(q) \in Nat /\ Len(q) > 0
      /\ Head(q) = q[1] /\ \A i \in 1..(Len(q) - 1) : Tail(q)[i] = q[i + 1]
  BY <1>1
<1>5. \A i \in 1..Len(q) : q[i] = s.sent + i
  BY <1>1 DEF NoGap
<1> HIDE DEF s, q, t
<1>6. Head(q) = s.sent + 1
  BY <1>4, <1>5
<1>7. Subscription(t)
  BY <1>1, <1>3, <1>4, <1>6 DEF Subscription
<1>8. ASSUME NEW i \in 1..Len(t.queue) PROVE t.queue[i] = t.sent + i
  <2>1. i \in 1..(Len(q) - 1) /\ i + 1 \in 1..Len(q)
    BY <1>3, <1>4
  <2>2. t.queue[i] = q[i + 1] /\ q[i + 1] = s.sent + (i + 1)
    BY <1>3, <1>4, <1>5, <2>1
  <2>3. s.sent + (i + 1) = (s.sent + 1) + i
    BY <1>1, <2>1
  <2> QED BY <1>3, <1>6, <2>2, <2>3
<1>9. t.registered => t.sent + Len(t.queue) = t.offered
  <2>1. (s.sent + 1) + (Len(q) - 1) = s.sent + Len(q)
    BY <1>1, <1>4
  <2>2. s.registered => s.sent + Len(q) = s.offered
    BY <1>1 DEF NoGap, q
  <2> QED BY <1>3, <1>4, <1>6, <2>1, <2>2
<1>10. NoGap(t)
  BY <1>1, <1>3, <1>8, <1>9 DEF NoGap
<1> QED BY <1>2, <1>7, <1>10, OneSub

LEMMA HubKept == HubInv /\ [Next]_vars => HubInv'
<1> SUFFICES ASSUME HubInv, [Next]_vars PROVE HubInv'
  OBVIOUS
<1>1. CASE UNCHANGED subs
  BY <1>1 DEF HubInv
<1>2. ASSUME NEW c \in Subscribers, HandlerReturns(c) PROVE HubInv'
  BY <1>2, UnsubscribedIsSound, OneSub DEF HandlerReturns
<1>3. CASE CloseAll
  BY <1>3, DroppedIsSound DEF CloseAll, HubInv
<1>4. ASSUME NEW accepting, Publish(accepting) PROVE HubInv'
  BY <1>4, OfferIsSound DEF Publish, HubInv
<1>5. CASE subs' = [c \in Subscribers |-> IF subs[c].handler = "running" THEN Unsubscribed(c) ELSE subs[c]]
  BY <1>5, UnsubscribedIsSound DEF HubInv
<1> QED BY <1>1, <1>2, <1>3, <1>4, <1>5, SubscribeIsSound, SendIsSound
        DEF Next, vars, Record, EmitDecision, EmitClosed, PublishEmitted, Ends

\* A stream has no gap, however many subscribers there are, and however slow
\* (hub.go, publish).
THEOREM StreamsHaveNoGap == Spec => []StreamHasNoGap
<1>1. Init => HubInv
  BY AbsentIsSound DEF Init, HubInit, HubInv
<1>2. HubInv => StreamHasNoGap
  BY DEF HubInv, NoGap, Subscription, StreamHasNoGap
<1> QED BY <1>1, <1>2, HubKept, PTL DEF Spec

-----------------------------------------------------------------------------
(***************************************************************************)
(* Durability.                                                             *)
(***************************************************************************)

\* A file that is left has been synced, and is not written to again unless it is
\* stranded.
LeftSynced ==
  \A n \in Slots \ {0} :
    names[n] # 0 /\ names[n] \notin stranded => synced[names[n]] = Len(disk[names[n]])
LeavesSynced == sink.at \in {"clear", "shift", "create"} => synced[sink.file] = Len(disk[sink.file])
WritesCurrent ==
  Writable /\ ~At("create") => names[0] = sink.file \/ (names[0] = 0 /\ sink.file \in stranded)

Stable == LeftSynced /\ LeavesSynced /\ WritesCurrent

\* The records, and those that were forced out.
AckedSoFar == \A r \in acked : r \in Nat /\ r <= next /\ (Carrying => r < next)
Books == forced \subseteq acked /\ lost \subseteq acked /\ lost \cap forced = {} /\ AckedSoFar
ForcedSynced == \A f \in DOMAIN disk : \A i \in DOMAIN disk[f] : disk[f][i].rec \in forced => i <= synced[f]

Durable == LogInv /\ Stable /\ Books /\ ForcedSynced

\* A step that leaves the files as they are.
LEMMA QuietStable ==
  ASSUME LogInv, Stable, UNCHANGED <<names, disk>>, stranded \subseteq stranded',
         \/ synced' = synced
         \/ synced' = [synced EXCEPT ![sink.file] = Len(disk[sink.file])] /\ Writable,
         LeavesSynced', WritesCurrent'
  PROVE  Stable'
<1>1. ASSUME NEW n \in Slots \ {0}, names[n] # 0, names[n] \notin stranded
      PROVE  synced'[names[n]] = Len(disk[names[n]])
  <2>1. synced[names[n]] = Len(disk[names[n]])
    BY <1>1 DEF Stable, LeftSynced
  <2>2. names[n] \in DOMAIN synced
    BY <1>1 DEF LogInv, FilesInv, FileTypes
  <2> QED BY <2>1, <2>2
<1> QED BY <1>1 DEF Stable, LeftSynced

LEMMA QuietBooks ==
  ASSUME Books, LogInv, UNCHANGED <<acked, forced, lost>>,
         \/ next' = next /\ (Carrying' => Carrying)
         \/ next' = next + 1
  PROVE  Books'
<1>1. next \in Nat
  BY MaxRecordsAssumption DEF LogInv, SinkTypes
<1> QED BY <1>1 DEF Books, AckedSoFar

LEMMA QuietForced ==
  ASSUME ForcedSynced, LogInv, UNCHANGED <<disk, forced>>,
         \/ synced' = synced
         \/ synced' = [synced EXCEPT ![sink.file] = Len(disk[sink.file])] /\ Writable
  PROVE  ForcedSynced'
<1> SUFFICES ASSUME NEW f \in DOMAIN disk, NEW i \in DOMAIN disk[f], disk[f][i].rec \in forced
             PROVE  i <= synced'[f]
  BY DEF ForcedSynced
<1>1. i <= synced[f] /\ f \in DOMAIN synced
  BY DEF ForcedSynced, LogInv, FilesInv, FileTypes
<1>2. i <= Len(disk[f])
  <2>1. disk[f] \in Seq(Piece)
    BY DEF LogInv, FilesInv, FileTypes
  <2> QED BY <2>1
<1> QED BY <1>1, <1>2

LEMMA EmitDurable ==
  ASSUME Durable, NEW kind, NEW bytes \in LineBytes, Emit(kind, bytes)
  PROVE  Durable'
<1>1. LogInv'
  BY EmitLog DEF Durable
<1>2. /\ UNCHANGED <<names, disk, synced, stranded, acked, forced, lost>> /\ next' = next + 1
      /\ sink'.file = sink.file /\ sink.at = "idle" /\ sink'.at \in {"idle", "sync", "write"}
  BY DEF Emit, Goto, At, UntouchedFiles, Durable, LogInv, SinkTypes
<1>3. LeavesSynced' /\ WritesCurrent'
  BY <1>2 DEF Durable, Stable, LeavesSynced, WritesCurrent, Writable, At
<1> QED BY <1>1, <1>2, <1>3, QuietStable, QuietBooks, QuietForced DEF Durable

LEMMA ClosedDurable == ASSUME Durable, EmitClosed PROVE Durable'
<1>1. LogInv'
  BY ClosedLog DEF Durable
<1>2. /\ UNCHANGED <<names, disk, synced, stranded, acked, forced, lost, sink>> /\ next' = next + 1
      /\ sink.at = "closed"
  BY DEF EmitClosed, At, UntouchedFiles
<1>3. LeavesSynced' /\ WritesCurrent'
  BY <1>2 DEF LeavesSynced, WritesCurrent, Writable
<1> QED BY <1>1, <1>2, <1>3, QuietStable, QuietBooks, QuietForced DEF Durable

LEMMA PutOffDurable ==
  ASSUME Durable, Rotating, PutOff, UNCHANGED <<names, disk, synced, line, next, acked, forced, lost>>,
         stranded \subseteq stranded',
         At("create") => sink.file \in stranded'
  PROVE  Durable'
<1>1. LogInv'
  BY PutOffLog DEF Durable
<1>2. sink'.file = sink.file /\ sink'.at = "write" /\ Carrying /\ Writable
  BY DEF PutOff, Durable, LogInv, SinkTypes, Carrying, Rotating, Writable
<1>3. LeavesSynced'
  BY <1>2 DEF LeavesSynced
<1>4. WritesCurrent'
  BY <1>2 DEF Durable, Stable, WritesCurrent, LogInv, RotationAt, At
<1> QED BY <1>1, <1>2, <1>3, <1>4, QuietStable, QuietBooks, QuietForced DEF Durable

LEMMA SyncDurable == ASSUME Durable, RotateSync PROVE Durable'
<1>1. LogInv'
  BY SyncLog DEF Durable
<1>2. /\ sink.at = "sync" /\ next' = next /\ UNCHANGED <<names, disk, line, acked, forced, lost>>
      /\ stranded' = stranded
  BY DEF RotateSync, GiveUp, At, UntouchedFiles, UntouchedRecords
<1>3. Rotating /\ Carrying /\ Writable /\ sink.file \in DOMAIN disk
  BY <1>2 DEF Rotating, Carrying, Writable, Durable, LogInv, WritesNewest
<1>4. CASE GiveUp
  BY <1>2, <1>3, <1>4, PutOffDurable DEF GiveUp, UntouchedFiles, At
<1>5. CASE synced' = [synced EXCEPT ![sink.file] = Len(disk[sink.file])] /\ MakesRoom
  <2>1. sink'.file = sink.file /\ sink'.at \in {"clear", "shift"}
    BY <1>2, <1>5, RoomMade DEF Durable
  <2>2. sink.file \in DOMAIN synced
    BY <1>3 DEF Durable, LogInv, FilesInv, FileTypes
  <2>3. LeavesSynced'
    BY <1>2, <1>5, <2>1, <2>2 DEF LeavesSynced
  <2>4. WritesCurrent'
    BY <1>2, <1>3, <2>1 DEF Durable, Stable, WritesCurrent, At
  <2> QED BY <1>1, <1>2, <1>3, <1>5, <2>3, <2>4, QuietStable, QuietBooks, QuietForced DEF Durable
<1> QED BY <1>2, <1>4, <1>5 DEF RotateSync

LEMMA ClearDurable == ASSUME Durable, RotateClear PROVE Durable'
<1>1. LogInv'
  BY ClearLog DEF Durable
<1>2. /\ sink.at = "clear" /\ next' = next
      /\ UNCHANGED <<disk, synced, line, acked, forced, lost, stranded>>
      /\ sink.n \in Slots /\ sink.n # 0
  BY DEF RotateClear, GiveUp, At, UntouchedFiles, UntouchedRecords, Durable, LogInv, SinkTypes, RotationAt
<1>3. Rotating /\ Carrying /\ Writable
  BY <1>2 DEF Rotating, Carrying, Writable
<1>4. CASE GiveUp
  BY <1>2, <1>3, <1>4, PutOffDurable DEF GiveUp, UntouchedFiles, At
<1>5. CASE \/ /\ names' = [names EXCEPT ![sink.n] = 0]
              /\ sink' = [sink EXCEPT !.n = @ + 1]
           \/ /\ UntouchedFiles
              /\ sink' = [sink EXCEPT !.at = "shift", !.n = sink.maxFiles - 1]
  <2>1. sink'.file = sink.file /\ sink'.at \in {"clear", "shift"}
    BY <1>2, <1>5 DEF Durable, LogInv, SinkTypes
  <2>2. \A m \in Slots : names'[m] = names[m] \/ (m # 0 /\ names'[m] = 0)
    BY <1>2, <1>5 DEF UntouchedFiles, Durable, LogInv, FilesInv, FileTypes
  <2>3. LeftSynced'
    BY <1>2, <2>2 DEF Durable, Stable, LeftSynced
  <2>4. LeavesSynced'
    BY <1>2, <2>1 DEF Durable, Stable, LeavesSynced
  <2>5. WritesCurrent'
    BY <1>2, <1>3, <2>1, <2>2, SlotsAreNumbers DEF Durable, Stable, WritesCurrent, At
  <2>6. ForcedSynced'
    BY <1>2 DEF Durable, ForcedSynced
  <2>7. Books'
    BY <1>2, <1>3, QuietBooks DEF Durable
  <2> QED BY <1>1, <2>3, <2>4, <2>5, <2>6, <2>7 DEF Durable, Stable
<1> QED BY <1>2, <1>4, <1>5 DEF RotateClear

\* The record in hand is in no file.
LEMMA Before ==
  ASSUME LogInv, Carrying, NEW f \in DOMAIN disk, NEW i \in DOMAIN disk[f]
  PROVE  disk[f][i].rec # next
<1>1. disk[f][i].rec <= next - 1 /\ next \in Nat
  BY MaxRecordsAssumption DEF LogInv, NothingNewer, Newest, SinkTypes
<1>2. disk[f][i] \in Piece
  BY DEF LogInv, FilesInv, FileTypes
<1>3. disk[f][i].rec \in Nat
  BY <1>2, MaxRecordsAssumption DEF Piece, Records
<1> QED BY <1>1, <1>3

LEMMA ShiftDurable == ASSUME Durable, RotateShift PROVE Durable'
<1>1. LogInv'
  BY ShiftLog DEF Durable
<1>2. /\ sink.at = "shift" /\ next' = next
      /\ UNCHANGED <<disk, synced, line, acked, forced, lost, stranded>>
      /\ sink.n \in Slots /\ sink.n \in Nat /\ sink.n + 1 \in Slots
  BY MaxRecordsAssumption
     DEF RotateShift, GiveUp, At, UntouchedFiles, UntouchedRecords, Durable, LogInv, SinkTypes,
         RotationAt, Slots
<1>3. Rotating /\ Carrying /\ Writable
  BY <1>2 DEF Rotating, Carrying, Writable
<1>4. CASE PutOff /\ UntouchedFiles
  BY <1>2, <1>3, <1>4, PutOffDurable DEF UntouchedFiles, At
<1>5. CASE /\ names[sink.n] # 0
           /\ names' = [names EXCEPT ![sink.n + 1] = names[sink.n], ![sink.n] = 0]
           /\ sink' = IF sink.n = 0 THEN [sink EXCEPT !.at = "create"] ELSE [sink EXCEPT !.n = @ - 1]
  <2>1. /\ sink'.file = sink.file
        /\ \/ sink.n = 0 /\ sink'.at = "create"
           \/ sink.n # 0 /\ sink'.at = "shift"
    BY <1>2, <1>5 DEF Durable, LogInv, SinkTypes
  <2>2. \A m \in Slots : names'[m] = IF m = sink.n THEN 0
                                     ELSE IF m = sink.n + 1 THEN names[sink.n] ELSE names[m]
    BY <1>2, <1>5 DEF Durable, LogInv, FilesInv, FileTypes
  <2>3. LeftSynced'
    <3>1. sink.n = 0 => synced[names[sink.n]] = Len(disk[names[sink.n]])
      BY <1>2, <1>3, <1>5 DEF Durable, Stable, WritesCurrent, LeavesSynced, At
    <3>2. sink.n # 0 /\ names[sink.n] \notin stranded => synced[names[sink.n]] = Len(disk[names[sink.n]])
      BY <1>2, <1>5 DEF Durable, Stable, LeftSynced
    <3> QED BY <1>2, <2>2, <3>1, <3>2 DEF Durable, Stable, LeftSynced
  <2>4. LeavesSynced'
    BY <1>2, <2>1 DEF Durable, Stable, LeavesSynced
  <2>5. WritesCurrent'
    BY <1>2, <1>3, <2>1, <2>2, SlotsAreNumbers DEF Durable, Stable, WritesCurrent, At
  <2>6. ForcedSynced'
    BY <1>2 DEF Durable, ForcedSynced
  <2>7. Books'
    BY <1>2, <1>3, QuietBooks DEF Durable
  <2> QED BY <1>1, <2>3, <2>4, <2>5, <2>6, <2>7 DEF Durable, Stable
<1>6. CASE UntouchedFiles /\ sink' = [sink EXCEPT !.n = @ - 1]
  <2>1. sink'.file = sink.file /\ sink'.at = "shift" /\ names' = names
    BY <1>2, <1>6 DEF Durable, LogInv, SinkTypes, UntouchedFiles
  <2>2. LeavesSynced' /\ WritesCurrent'
    BY <1>2, <1>3, <2>1 DEF Durable, Stable, LeavesSynced, WritesCurrent, At
  <2> QED BY <1>1, <1>2, <1>3, <2>1, <2>2, QuietStable, QuietBooks, QuietForced DEF Durable
<1> QED BY <1>2, <1>4, <1>5, <1>6 DEF RotateShift, GiveUp

\* A new file under path disturbs no other.
LEMMA NewStable ==
  ASSUME Durable, disk' = Append(disk, <<>>), synced' = Append(synced, 0),
         names' = [names EXCEPT ![0] = Len(disk) + 1], UNCHANGED <<stranded, forced>>
  PROVE  LeftSynced' /\ ForcedSynced' /\ names'[0] = Len(disk) + 1
<1>1. /\ \A f \in DOMAIN disk : disk'[f] = disk[f] /\ synced'[f] = synced[f]
      /\ disk'[Len(disk) + 1] = <<>> /\ DOMAIN disk' = DOMAIN disk \cup {Len(disk) + 1}
      /\ \A n \in Slots \ {0} : names'[n] = names[n] /\ (names[n] # 0 => names[n] \in DOMAIN disk)
      /\ names'[0] = Len(disk) + 1
  BY SlotsAreNumbers DEF Durable, LogInv, FilesInv, FileTypes
<1>2. ASSUME NEW n \in Slots \ {0}, names'[n] # 0, names'[n] \notin stranded
      PROVE  synced'[names'[n]] = Len(disk'[names'[n]])
  <2>1. names'[n] = names[n] /\ names[n] \in DOMAIN disk
    BY <1>1, <1>2
  <2>2. synced[names[n]] = Len(disk[names[n]])
    BY <1>2, <2>1 DEF Durable, Stable, LeftSynced
  <2> QED BY <1>1, <2>1, <2>2
<1>3. ASSUME NEW f \in DOMAIN disk', NEW i \in DOMAIN disk'[f], disk'[f][i].rec \in forced
      PROVE  i <= synced'[f]
  <2>1. f \in DOMAIN disk
    BY <1>1, <1>3
  <2> QED BY <1>1, <1>3, <2>1 DEF Durable, ForcedSynced
<1> QED BY <1>1, <1>2, <1>3 DEF LeftSynced, ForcedSynced

LEMMA CreateDurable == ASSUME Durable, RotateCreate PROVE Durable'
<1>1. LogInv'
  BY CreateLog DEF Durable
<1>2. /\ sink.at = "create" /\ next' = next /\ line' = line /\ UNCHANGED <<acked, forced, lost>>
  BY DEF RotateCreate, At, UntouchedRecords
<1>3. Rotating /\ Carrying
  BY <1>2 DEF Rotating, Carrying
<1>4. CASE PutOff /\ UNCHANGED <<names, disk, synced>> /\ stranded' = stranded \cup {sink.file}
  BY <1>2, <1>3, <1>4, PutOffDurable
<1>5. CASE /\ disk' = Append(disk, <<>>) /\ synced' = Append(synced, 0)
           /\ names' = [names EXCEPT ![0] = Len(disk) + 1] /\ stranded' = stranded
           /\ sink' = [sink EXCEPT !.at = "write", !.file = Len(disk) + 1, !.size = 0,
                         !.limit = MaxBytes]
  <2>1. sink'.file = Len(disk) + 1 /\ sink'.at = "write"
    BY <1>5 DEF Durable, LogInv, SinkTypes
  <2>2. LeftSynced' /\ ForcedSynced' /\ names'[0] = Len(disk) + 1
    BY <1>2, <1>5, NewStable
  <2>3. LeavesSynced' /\ WritesCurrent'
    BY <2>1, <2>2 DEF LeavesSynced, WritesCurrent
  <2>4. Books'
    BY <1>2, <1>3, QuietBooks DEF Durable
  <2> QED BY <1>1, <2>2, <2>3, <2>4 DEF Durable, Stable
<1> QED BY <1>2, <1>4, <1>5 DEF RotateCreate

LEMMA OpenDurable ==
  ASSUME Durable, NEW n \in FileLimits, NEW sync, NEW all, Open(n, sync, all)
  PROVE  Durable'
<1> DEFINE f == IF names[0] = 0 THEN Len(disk) + 1 ELSE names[0]
<1>1. /\ sink.at = "down" /\ next' = next /\ UNCHANGED <<acked, forced, lost, stranded>>
      /\ sink'.at = "idle" /\ sink'.file = f
  BY DEF Open, Down, At, UntouchedRecords
<1>2. /\ names' = [names EXCEPT ![0] = f]
      /\ IF names[0] = 0 THEN disk' = Append(disk, <<>>) /\ synced' = Append(synced, 0)
                         ELSE disk' = disk /\ synced' = synced
  BY DEF Open
<1>3. LogInv'
  BY OpenLog DEF Durable
<1>4. Books'
  BY <1>1, QuietBooks DEF Durable, Carrying, Rotating, At
<1>5. LeavesSynced'
  BY <1>1 DEF LeavesSynced
<1>6. CASE names[0] = 0
  <2>1. LeftSynced' /\ ForcedSynced' /\ names'[0] = f
    BY <1>1, <1>2, <1>6, NewStable
  <2>2. WritesCurrent'
    BY <1>1, <2>1 DEF WritesCurrent
  <2> QED BY <1>3, <1>4, <1>5, <2>1, <2>2 DEF Durable, Stable
<1>7. CASE names[0] # 0
  <2>1. names' = names /\ disk' = disk /\ synced' = synced
    BY <1>2, <1>7 DEF Durable, LogInv, FilesInv, FileTypes
  <2>2. WritesCurrent'
    BY <1>1, <1>7, <2>1 DEF WritesCurrent
  <2>3. Stable' /\ ForcedSynced'
    BY <1>1, <1>5, <2>1, <2>2, QuietStable, QuietForced DEF Durable
  <2> QED BY <1>3, <1>4, <2>3 DEF Durable
<1> QED BY <1>6, <1>7

LEMMA WriteDurable == ASSUME Durable, Write PROVE Durable'
<1>1. LogInv'
  BY WriteLog DEF Durable
<1>2. sink.at = "write" /\ next' = next /\ names' = names /\ UNCHANGED <<stranded, lost>>
  BY DEF Write, At
<1>3. /\ Carrying /\ Writable /\ line.rec = next /\ next \in Nat
      /\ sink.file \in DOMAIN disk /\ sink.file \in DOMAIN synced
  BY <1>2, MaxRecordsAssumption DEF Carrying, Writable, At, Durable, LogInv, InHand, SinkTypes,
     WritesNewest, FilesInv, FileTypes
<1>4. sink'.file = sink.file /\ sink'.at = "idle" /\ ~Carrying'
  <2>1. (\E b, w : Put(b, w)) \/ Goto("idle")
    BY DEF Write
  <2>2. sink'.file = sink.file /\ sink'.at = "idle"
    BY <2>1 DEF Put, Goto, Durable, LogInv, SinkTypes
  <2> QED BY <2>2 DEF Carrying, Rotating, At
<1>5. LeavesSynced' /\ WritesCurrent'
  BY <1>2, <1>3, <1>4 DEF Durable, Stable, LeavesSynced, WritesCurrent, At
<1>6. CASE UNCHANGED <<disk, synced, acked, forced>>
  BY <1>1, <1>2, <1>4, <1>5, <1>6, QuietStable, QuietBooks, QuietForced DEF Durable
<1>7. CASE \E b, w :
             /\ Put(b, w)
             /\ \/ /\ synced' = [synced EXCEPT ![sink.file] = Len(disk[sink.file]) + 1]
                   /\ forced' = forced \cup {line.rec} /\ acked' = acked \cup {line.rec}
                \/ synced' = synced /\ forced' = forced /\ acked' \in {acked, acked \cup {line.rec}}
  <2>1. PICK b, w :
          /\ Put(b, w)
          /\ \/ /\ synced' = [synced EXCEPT ![sink.file] = Len(disk[sink.file]) + 1]
                /\ forced' = forced \cup {line.rec} /\ acked' = acked \cup {line.rec}
             \/ synced' = synced /\ forced' = forced /\ acked' \in {acked, acked \cup {line.rec}}
    BY <1>7
  <2> DEFINE p == [rec |-> line.rec, bytes |-> b, whole |-> w]
             last == Len(disk[sink.file]) + 1
  <2>2. disk' = [disk EXCEPT ![sink.file] = Append(@, p)] /\ p.rec = next
    BY <1>3, <2>1 DEF Put
  <2>3. /\ disk[sink.file] \in Seq(Piece) /\ DOMAIN disk' = DOMAIN disk
        /\ disk'[sink.file] = Append(disk[sink.file], p)
        /\ \A f \in DOMAIN disk \ {sink.file} : disk'[f] = disk[f]
    BY <1>3, <2>2 DEF Durable, LogInv, FilesInv, FileTypes
  <2>4. /\ Len(disk[sink.file]) \in Nat /\ DOMAIN disk'[sink.file] = 1..last
        /\ DOMAIN disk[sink.file] = 1..(last - 1)
        /\ disk'[sink.file][last].rec = next
        /\ \A i \in DOMAIN disk[sink.file] : disk'[sink.file][i] = disk[sink.file][i]
    BY <2>2, <2>3
  <2> HIDE DEF p
  <2>5. \A f \in DOMAIN disk \ {sink.file} : synced'[f] = synced[f]
    BY <2>1 DEF Durable, LogInv, FilesInv, FileTypes
  <2>6. LeftSynced'
    <3> SUFFICES ASSUME NEW n \in Slots \ {0}, names[n] # 0, names[n] \notin stranded
                 PROVE  synced'[names[n]] = Len(disk'[names[n]])
      BY <1>2 DEF LeftSynced
    <3>1. names[n] # sink.file
      BY <1>2, <1>3, SlotsAreNumbers
         DEF Durable, Stable, WritesCurrent, At, LogInv, FilesInv, OneName
    <3>2. names[n] \in DOMAIN disk
      BY DEF Durable, LogInv, FilesInv, FileTypes
    <3> QED BY <2>3, <2>5, <3>1, <3>2 DEF Durable, Stable, LeftSynced
  <2>7. Books'
    <3>1. next \notin acked /\ \A r \in acked : r \in Nat /\ r <= next
      BY <1>3 DEF Durable, Books, AckedSoFar
    <3> QED BY <1>2, <1>3, <1>4, <2>1, <3>1 DEF Durable, Books, AckedSoFar
  <2>8. ASSUME NEW f \in DOMAIN disk', NEW i \in DOMAIN disk'[f], disk'[f][i].rec \in forced'
        PROVE  i <= synced'[f]
    <3>1. CASE f # sink.file
      <4>1. f \in DOMAIN disk /\ i \in DOMAIN disk[f] /\ disk'[f][i] = disk[f][i]
        BY <2>3, <3>1
      <4>2. disk[f][i].rec # next
        BY <1>3, <4>1, Before DEF Durable
      <4>3. disk[f][i].rec \in forced
        BY <1>3, <2>1, <2>8, <4>1, <4>2
      <4> QED BY <2>5, <3>1, <4>1, <4>3 DEF Durable, ForcedSynced
    <3>2. CASE f = sink.file /\ i # last
      <4>1. i \in DOMAIN disk[f] /\ disk'[f][i] = disk[f][i] /\ i \in 1..(last - 1)
        BY <2>4, <3>2
      <4>2. disk[f][i].rec # next
        BY <1>3, <3>2, <4>1, Before DEF Durable
      <4>3. disk[f][i].rec \in forced
        BY <1>3, <2>1, <2>8, <4>1, <4>2
      <4>4. i <= synced[f]
        BY <1>3, <3>2, <4>1, <4>3 DEF Durable, ForcedSynced
      <4> QED BY <1>3, <2>1, <2>4, <3>2, <4>1, <4>4
    <3>3. CASE f = sink.file /\ i = last
      <4>1. next \notin forced
        BY <1>3 DEF Durable, Books, AckedSoFar
      <4>2. synced' = [synced EXCEPT ![sink.file] = last]
        BY <2>1, <2>4, <2>8, <3>3, <4>1
      <4> QED BY <1>3, <2>4, <3>3, <4>2
    <3> QED BY <3>1, <3>2, <3>3
  <2>9. ForcedSynced'
    BY <2>8 DEF ForcedSynced
  <2> QED BY <1>1, <1>5, <2>6, <2>7, <2>9 DEF Durable, Stable
<1> QED BY <1>6, <1>7 DEF Write

LEMMA FlushDurable ==
  ASSUME Durable, NEW then \in {"idle", "closed"}, Sync(then)
  PROVE  Durable'
<1>1. LogInv'
  BY FlushLog DEF Durable
<1>2. /\ sink.at = "idle" /\ next' = next /\ UNCHANGED <<names, disk, line, acked, forced, lost, stranded>>
      /\ sink'.file = sink.file /\ sink'.at = then
  BY DEF Sync, Goto, At, UntouchedRecords, Durable, LogInv, SinkTypes
<1>3. Writable /\ ~Carrying'
  BY <1>2 DEF Writable, Carrying, Rotating, At
<1>4. LeavesSynced' /\ WritesCurrent'
  BY <1>2, <1>3 DEF Durable, Stable, LeavesSynced, WritesCurrent, At
<1>5. synced' = synced \/ synced' = [synced EXCEPT ![sink.file] = Len(disk[sink.file])]
  BY DEF Sync
<1> QED BY <1>1, <1>2, <1>3, <1>4, <1>5, QuietStable, QuietBooks, QuietForced DEF Durable

LEMMA StopDurable == ASSUME Durable, Stop PROVE Durable'
<1>1. LogInv'
  BY StopLog DEF Durable
<1>2. /\ UNCHANGED <<names, disk, synced, acked, forced, lost, stranded>> /\ next' = next
      /\ sink'.at = "down" /\ ~Carrying'
  BY DEF Stop, UntouchedFiles, Down, Carrying, Rotating, At
<1>3. LeavesSynced' /\ WritesCurrent'
  BY <1>2 DEF LeavesSynced, WritesCurrent, Writable
<1> QED BY <1>1, <1>2, <1>3, QuietStable, QuietBooks, QuietForced DEF Durable

\* A power loss keeps what is synced of every file, and its order.
LEMMA PowerKeeps ==
  ASSUME LogInv, PowerLoss, NEW f \in DOMAIN disk
  PROVE  /\ f \in DOMAIN disk' /\ DOMAIN disk'[f] = 1..synced'[f] /\ Len(disk'[f]) = synced'[f]
         /\ synced[f] \in Nat /\ synced'[f] \in Nat /\ synced[f] <= synced'[f] /\ synced'[f] <= Len(disk[f])
         /\ Len(disk[f]) \in Nat /\ DOMAIN disk[f] = 1..Len(disk[f])
         /\ \A i \in 1..synced'[f] : disk'[f][i] = disk[f][i]
<1>1. PICK kept \in [DOMAIN disk -> 0..MaxRecords] :
        /\ \A g \in DOMAIN disk : kept[g] \in synced[g]..Len(disk[g])
        /\ disk' = [g \in DOMAIN disk |-> SubSeq(disk[g], 1, kept[g])]
        /\ synced' = kept
  BY DEF PowerLoss
<1>2. disk[f] \in Seq(Piece) /\ synced[f] \in Nat /\ synced[f] <= Len(disk[f])
  BY DEF LogInv, FilesInv, FileTypes
<1>3. disk'[f] = SubSeq(disk[f], 1, kept[f]) /\ f \in DOMAIN disk' /\ synced'[f] = kept[f]
  BY <1>1
<1>4. kept[f] \in synced[f]..Len(disk[f]) /\ Len(disk[f]) \in Nat
  BY <1>1, <1>2
<1> QED BY <1>2, <1>3, <1>4

LEMMA PowerDurable == ASSUME Durable, PowerLoss PROVE Durable'
<1>1. LogInv'
  BY PowerLog DEF Durable
<1>2. /\ UNCHANGED <<names, acked, forced, stranded>> /\ next' = next /\ sink'.at = "down" /\ ~Carrying'
  BY DEF PowerLoss, Down, Carrying, Rotating, At
<1>3. LeavesSynced' /\ WritesCurrent'
  BY <1>2 DEF LeavesSynced, WritesCurrent, Writable
<1>4. LogInv
  BY DEF Durable
<1>5. ASSUME NEW n \in Slots \ {0}, names[n] # 0, names[n] \notin stranded
      PROVE  synced'[names[n]] = Len(disk'[names[n]])
  <2>1. names[n] \in DOMAIN disk
    BY <1>5 DEF Durable, LogInv, FilesInv, FileTypes
  <2> QED BY <1>4, <2>1, PowerKeeps
<1>6. LeftSynced'
  BY <1>2, <1>5 DEF LeftSynced
<1>7. ASSUME NEW f \in DOMAIN disk', NEW i \in DOMAIN disk'[f], disk'[f][i].rec \in forced
      PROVE  i <= synced'[f]
  <2>1. f \in DOMAIN disk
    BY DEF PowerLoss
  <2> QED BY <1>4, <2>1, PowerKeeps
<1>8. ForcedSynced'
  BY <1>2, <1>7 DEF ForcedSynced
<1>9. ASSUME NEW r \in lost', r \notin lost PROVE r \in acked /\ r \notin forced
  <2>1. r \in acked /\ r \in OnDisk /\ \A f \in Named : \A i \in DOMAIN disk'[f] : disk'[f][i].rec # r
    BY <1>9 DEF PowerLoss
  <2>2. PICK f \in Named : r \in RecordsIn(f)
    BY <2>1 DEF OnDisk
  <2>3. f \in DOMAIN disk
    BY DEF Named
  <2>4. PICK i \in DOMAIN disk[f] : disk[f][i].rec = r
    BY <2>2 DEF RecordsIn
  <2>5. ASSUME r \in forced PROVE FALSE
    <3>1. i <= synced[f]
      BY <2>3, <2>4, <2>5 DEF Durable, ForcedSynced
    <3>2. i \in 1..synced'[f] /\ i \in DOMAIN disk'[f] /\ disk'[f][i] = disk[f][i]
      BY <1>4, <2>3, <3>1, PowerKeeps
    <3> QED BY <2>1, <2>4, <3>2
  <2> QED BY <2>1, <2>5
<1>10. Books'
  BY <1>2, <1>9 DEF Durable, Books, AckedSoFar
<1> QED BY <1>1, <1>3, <1>6, <1>8, <1>10 DEF Durable, Stable

LEMMA DurableInit == Init => Durable
<1> SUFFICES ASSUME Init PROVE Durable
  OBVIOUS
<1>1. /\ names = [n \in Slots |-> 0] /\ disk = <<>> /\ sink.at = "down"
      /\ acked = {} /\ forced = {} /\ lost = {}
  BY DEF Init, AuditInit, Down
<1> QED BY <1>1, InitLog DEF Durable, Stable, LeftSynced, LeavesSynced, WritesCurrent, Writable,
            Books, AckedSoFar, ForcedSynced

LEMMA DurableKept == Durable /\ [Next]_vars => Durable'
<1> SUFFICES ASSUME Durable, [Next]_vars PROVE Durable'
  OBVIOUS
<1>1. CASE UNCHANGED auditVars
  <2>1. LogInv'
    BY LogKept DEF Durable
  <2> QED BY <1>1, <2>1 DEF auditVars, Durable, Stable, LeftSynced, LeavesSynced, WritesCurrent, Writable,
              At, Books, AckedSoFar, Carrying, Rotating, ForcedSynced
<1>2. CASE LogStep
  BY <1>2, EmitDurable, ClosedDurable, SyncDurable, ClearDurable, ShiftDurable, CreateDurable, WriteDurable,
     FlushDurable, OpenDurable, StopDurable, PowerDurable DEF LogStep
<1> QED BY <1>1, <1>2, LogSteps DEF vars

\* Among the files that are not stranded only the current one can lose records, and
\* of that the newest.
LEMMA TailLost ==
  ASSUME Durable, PowerLoss, NEW f \in Named \ stranded,
         NEW r \in RecordsIn(f) \cap (lost' \ lost), NEW k \in acked \cap OnDisk'
  PROVE  k < r
<1>1. LogInv /\ names' = names /\ DOMAIN disk' = DOMAIN disk
  BY DEF Durable, PowerLoss
<1>2. \A g \in Named : \A i \in DOMAIN disk'[g] : disk'[g][i].rec # r
  BY DEF PowerLoss
<1>3. PICK i \in DOMAIN disk[f] : disk[f][i].rec = r
  BY DEF RecordsIn
<1>4. PICK n \in Slots : names[n] = f
  BY DEF Named
<1>5. f \in DOMAIN disk /\ f # 0
  BY DEF Named, Durable, LogInv, FilesInv, FileTypes
<1>6. i \in Nat /\ synced'[f] < i
  BY SMTT(60), <1>1, <1>2, <1>3, <1>5, PowerKeeps
<1>7. n = 0
  <2> SUFFICES ASSUME n # 0 PROVE FALSE
    OBVIOUS
  <2>1. synced[f] = Len(disk[f])
    BY <1>4, <1>5 DEF Durable, Stable, LeftSynced
  <2> QED BY <1>1, <1>3, <1>5, <1>6, <2>1, PowerKeeps
<1>8. PICK g \in Named' : k \in RecordsIn(g)'
  BY DEF OnDisk
<1>9. PICK m \in Slots : names[m] = g
  BY <1>1 DEF Named
<1>10. PICK j \in DOMAIN disk'[g] : disk'[g][j].rec = k
  BY <1>8 DEF RecordsIn
<1>11. g \in DOMAIN disk /\ g # 0
  BY <1>1 DEF Named, Durable, LogInv, FilesInv, FileTypes
<1>12. j \in 1..synced'[g] /\ j \in DOMAIN disk[g] /\ disk[g][j].rec = k
  BY <1>1, <1>10, <1>11, PowerKeeps
<1>13. CASE g = f
  <2>1. j < i
    BY <1>1, <1>5, <1>6, <1>12, <1>13, PowerKeeps
  <2> QED BY <1>1, <1>3, <1>5, <1>12, <1>13, <2>1 DEF LogInv, FilesInv, Increasing
<1>14. CASE g # f
  <2>1. 0 < m
    BY <1>4, <1>7, <1>9, <1>14, SlotsAreNumbers
  <2>2. Older(g, f)
    BY <1>1, <1>4, <1>5, <1>7, <1>9, <1>11, <2>1 DEF LogInv, FilesInv, Ordered
  <2> QED BY <1>3, <1>12, <2>2 DEF Older
<1> QED BY <1>13, <1>14

\* A power loss takes the newest records and none that was forced out, for any
\* number of records, faults and stops (jsonl.go, rotate; sync_writes).
THEOREM LossesAreTheTail == Spec => PowerLossTakesTheTail
<1> DEFINE Loss == /\ \A f \in Named \ stranded : \A r \in RecordsIn(f) \cap (lost' \ lost) :
                         \A k \in acked \cap OnDisk' : k < r
                   /\ lost' \cap forced = {}
<1>1. Durable /\ Next => Loss
  <2> SUFFICES ASSUME Durable, Next PROVE Loss
    OBVIOUS
  <2>1. PowerLoss \/ lost' = lost
    BY LogSteps DEF LogStep, auditVars, Emit, EmitClosed, RotateSync, RotateClear, RotateShift, RotateCreate,
       Write, Sync, Open, Stop, UntouchedRecords
  <2>2. lost' \cap forced = {}
    <3>1. Durable' /\ (PowerLoss => forced' = forced)
      BY DurableKept DEF PowerLoss
    <3> QED BY <2>1, <3>1 DEF Durable, Books
  <2> QED BY <2>1, <2>2, TailLost
<1>2. Durable /\ UNCHANGED vars => [Loss]_vars
  OBVIOUS
<1> QED BY <1>1, <1>2, DurableInit, DurableKept, PTL DEF Spec, PowerLossTakesTheTail

-----------------------------------------------------------------------------
(***************************************************************************)
(* Keeping.  The property of the violated run: it holds where a rotation's *)
(* new file can be opened whenever rotated files are limited, and where a  *)
(* Stat tells which names are free when they are not.                      *)
(***************************************************************************)
Reachable(r) == \E n \in Slots : names[n] # 0 /\ r \in RecordsIn(names[n])

\* The file that is written to has a name, and where old ones are deleted, the first.
SinkNamed ==
  Writable => /\ \E m \in Slots : names[m] = sink.file
              /\ sink.maxFiles # 0 => names[IF At("create") THEN 1 ELSE 0] = sink.file
AckedKept == \A r \in acked : r \in removed \/ r \in lost \/ Reachable(r)
RemovedOlder == names[0] # 0 => \A r \in removed, k \in RecordsIn(names[0]) : r < k

Keeping == SinkNamed /\ removed \subseteq acked /\ AckedKept /\ RemovedOlder

LEMMA ReachableIsOnDisk == ASSUME LogInv, NEW r PROVE Reachable(r) <=> r \in OnDisk
<1>1. \A n \in Slots : names[n] # 0 => names[n] \in DOMAIN disk
  BY DEF LogInv, FilesInv, FileTypes
<1>2. 0 \notin DOMAIN disk
  BY DEF LogInv, FilesInv, FileTypes
<1>3. ASSUME Reachable(r) PROVE r \in OnDisk
  <2>1. PICK n \in Slots : names[n] # 0 /\ r \in RecordsIn(names[n])
    BY <1>3 DEF Reachable
  <2>2. names[n] \in Named
    BY <1>1, <2>1 DEF Named
  <2> QED BY <2>1, <2>2 DEF OnDisk
<1>4. ASSUME r \in OnDisk PROVE Reachable(r)
  <2>1. PICK f \in Named : r \in RecordsIn(f)
    BY <1>4 DEF OnDisk
  <2>2. f # 0 /\ \E n \in Slots : names[n] = f
    BY <1>2 DEF Named
  <2> QED BY <2>1, <2>2 DEF Reachable
<1> QED BY <1>3, <1>4

LEMMA KeepingKeeps == ASSUME LogInv, Keeping PROVE NothingLost
<1>1. \A r : Reachable(r) <=> r \in OnDisk
  BY ReachableIsOnDisk
<1> QED BY <1>1 DEF Keeping, AckedKept, RemovedOlder, NothingLost

LEMMA QuietKeeping ==
  ASSUME Keeping, UNCHANGED <<names, disk, acked, removed, lost>>, SinkNamed'
  PROVE  Keeping'
  BY DEF Keeping, AckedKept, Reachable, RemovedOlder, RecordsIn

\* The sink goes on with the file it had.
LEMMA SameSink ==
  ASSUME SinkNamed, names' = names, sink'.file = sink.file, sink'.maxFiles = sink.maxFiles,
         Writable' => Writable, ~At("create"), ~At("create")'
  PROVE  SinkNamed'
  BY DEF SinkNamed

LEMMA PutOffKeeping ==
  ASSUME LogInv, Keeping, Rotating, PutOff, UNCHANGED <<names, disk, acked, removed, lost>>,
         At("create") => sink.maxFiles = 0
  PROVE  Keeping'
<1>1. /\ sink'.file = sink.file /\ sink'.maxFiles = sink.maxFiles /\ sink'.at = "write" /\ Writable
  BY DEF PutOff, LogInv, SinkTypes, Writable, Rotating
<1>2. SinkNamed'
  BY <1>1 DEF Keeping, SinkNamed, At
<1> QED BY <1>2, QuietKeeping

LEMMA SyncKeeping == ASSUME LogInv, Keeping, RotateSync PROVE Keeping'
<1>1. At("sync") /\ Rotating /\ UNCHANGED <<names, disk, acked, removed, lost>>
  BY DEF RotateSync, GiveUp, At, UntouchedFiles, UntouchedRecords, Rotating
<1>2. CASE PutOff
  BY <1>1, <1>2, PutOffKeeping DEF At
<1>3. CASE MakesRoom
  <2>1. /\ sink'.file = sink.file /\ sink'.maxFiles = sink.maxFiles /\ sink'.at \in {"shift", "clear"}
    BY <1>1, <1>3, RoomMade DEF At
  <2>2. SinkNamed'
    BY <1>1, <2>1, SameSink DEF Keeping, Writable, At
  <2> QED BY <1>1, <2>2, QuietKeeping
<1> QED BY <1>2, <1>3 DEF RotateSync, GiveUp

LEMMA ClearKeeping == ASSUME LogInv, Keeping, RotateClear PROVE Keeping'
<1>1. /\ At("clear") /\ Rotating /\ Writable /\ UNCHANGED <<disk, acked, lost>>
      /\ sink.maxFiles # 0 /\ sink.n \in Slots /\ 0 < sink.n
  BY MaxRecordsAssumption DEF RotateClear, GiveUp, At, UntouchedFiles, UntouchedRecords, Rotating,
     Writable, LogInv, RotationAt, SinkTypes, Slots
<1>2. CASE PutOff /\ UntouchedFiles
  BY <1>1, <1>2, PutOffKeeping DEF At, UntouchedFiles
<1>3. CASE /\ names[sink.n] # 0 /\ names' = [names EXCEPT ![sink.n] = 0]
           /\ removed' = removed \cup (RecordsIn(names[sink.n]) \cap acked)
           /\ sink' = [sink EXCEPT !.n = @ + 1]
  <2>1. sink'.file = sink.file /\ sink'.maxFiles = sink.maxFiles /\ sink'.at = "clear"
    BY <1>1, <1>3 DEF LogInv, SinkTypes, At
  <2>2. /\ \A m \in Slots : names'[m] = IF m = sink.n THEN 0 ELSE names[m]
        /\ names'[0] = names[0]
    BY <1>1, <1>3, SlotsAreNumbers DEF LogInv, FilesInv, FileTypes
  <2>3. SinkNamed'
    BY <1>1, <2>1, <2>2, SlotsAreNumbers DEF Keeping, SinkNamed, At
  <2>4. AckedKept'
    <3> SUFFICES ASSUME NEW r \in acked, r \notin removed', r \notin lost
                 PROVE  \E m \in Slots : names'[m] # 0 /\ \E i \in DOMAIN disk[names'[m]] : disk[names'[m]][i].rec = r
      BY <1>1 DEF AckedKept, Reachable, RecordsIn
    <3>1. PICK m \in Slots : names[m] # 0 /\ r \in RecordsIn(names[m])
      BY <1>3 DEF Keeping, AckedKept, Reachable
    <3>2. m # sink.n
      BY <1>3, <3>1
    <3> QED BY <2>2, <3>1, <3>2 DEF RecordsIn
  <2>5. RemovedOlder'
    <3> SUFFICES ASSUME names[0] # 0, NEW r \in removed', NEW k \in RecordsIn(names[0]) PROVE r < k
      BY <1>1, <2>2 DEF RemovedOlder, RecordsIn
    <3>1. CASE r \in removed
      BY <3>1 DEF Keeping, RemovedOlder
    <3>2. CASE r \in RecordsIn(names[sink.n])
      <4>1. Older(names[sink.n], names[0])
        BY <1>1, <1>3, SlotsAreNumbers DEF LogInv, FilesInv, Ordered
      <4> QED BY <3>2, <4>1 DEF Older, RecordsIn
    <3> QED BY <1>3, <3>1, <3>2
  <2> QED BY <1>1, <1>3, <2>3, <2>4, <2>5 DEF Keeping
<1>4. CASE UntouchedFiles /\ sink' = [sink EXCEPT !.at = "shift", !.n = sink.maxFiles - 1]
  <2>1. /\ sink'.file = sink.file /\ sink'.maxFiles = sink.maxFiles /\ sink'.at = "shift"
        /\ UNCHANGED <<names, disk, acked, removed, lost>>
    BY <1>1, <1>4 DEF LogInv, SinkTypes, UntouchedFiles
  <2>2. SinkNamed'
    BY <1>1, <2>1, SameSink DEF Keeping, At
  <2> QED BY <2>1, <2>2, QuietKeeping
<1> QED BY <1>2, <1>3, <1>4 DEF RotateClear, GiveUp

LEMMA ShiftKeeping ==
  ASSUME LogInv, Keeping, RotateShift, 0 \notin StatFailsUnder
  PROVE  Keeping'
<1>1. /\ At("shift") /\ Rotating /\ Writable /\ UNCHANGED <<disk, acked, lost>>
      /\ sink.n \in Slots /\ sink.n \in Nat /\ sink.n + 1 \in Slots
      /\ sink.maxFiles = 0 => names[sink.n + 1] = 0
  BY MaxRecordsAssumption DEF RotateShift, GiveUp, At, UntouchedFiles, UntouchedRecords, Rotating,
     Writable, LogInv, RotationAt, SinkTypes, Slots
<1>2. CASE PutOff /\ UntouchedFiles
  BY <1>1, <1>2, PutOffKeeping DEF At, UntouchedFiles
<1>3. CASE /\ names[sink.n] # 0
           /\ names' = [names EXCEPT ![sink.n + 1] = names[sink.n], ![sink.n] = 0]
           /\ removed' = removed \cup Replaced
           /\ sink' = IF sink.n = 0 THEN [sink EXCEPT !.at = "create"] ELSE [sink EXCEPT !.n = @ - 1]
  <2>1. /\ sink'.file = sink.file /\ sink'.maxFiles = sink.maxFiles
        /\ \/ sink.n = 0 /\ sink'.at = "create"
           \/ sink.n # 0 /\ sink'.at = "shift"
    BY <1>1, <1>3 DEF LogInv, SinkTypes, At
  <2>2. \A m \in Slots : names'[m] = IF m = sink.n THEN 0
                                     ELSE IF m = sink.n + 1 THEN names[sink.n] ELSE names[m]
    BY <1>1, <1>3 DEF LogInv, FilesInv, FileTypes
  <2>3. \A m \in Slots : names[m] # 0 /\ m # sink.n + 1 => \E k \in Slots : names'[k] = names[m]
    BY <1>1, <2>2
  <2>4. SinkNamed'
    <3>2. sink.maxFiles # 0 => names[0] = sink.file
      BY <1>1 DEF Keeping, SinkNamed, At
    <3>3. /\ 0 \in Slots /\ (sink.n = 0 => names'[sink.n + 1] = names[0] /\ sink.n + 1 = 1)
          /\ sink.n # 0 => names'[0] = names[0]
      BY <1>1, <2>2, SlotsAreNumbers
    <3>1. \E m \in Slots : names'[m] = sink.file
      <4>1. sink.file # 0
        BY <1>1 DEF LogInv, WritesNewest, FilesInv, FileTypes
      <4>2. CASE sink.maxFiles # 0
        BY <1>1, <3>2, <3>3, <4>2
      <4>3. CASE sink.maxFiles = 0
        BY <1>1, <2>3, <4>1, <4>3 DEF Keeping, SinkNamed
      <4> QED BY <4>2, <4>3
    <3> QED BY <2>1, <3>1, <3>2, <3>3 DEF SinkNamed, At
  <2>5. AckedKept'
    <3> SUFFICES ASSUME NEW r \in acked, r \notin removed', r \notin lost
                 PROVE  \E m \in Slots : names'[m] # 0 /\ \E i \in DOMAIN disk[names'[m]] : disk[names'[m]][i].rec = r
      BY <1>1 DEF AckedKept, Reachable, RecordsIn
    <3>1. PICK m \in Slots : names[m] # 0 /\ r \in RecordsIn(names[m])
      BY <1>3 DEF Keeping, AckedKept, Reachable
    <3>4. m # sink.n + 1
      BY <1>1, <1>3, <3>1 DEF Replaced
    <3>2. PICK k \in Slots : names'[k] = names[m]
      BY <2>3, <3>1, <3>4
    <3> QED BY <3>1, <3>2 DEF RecordsIn
  <2>6. RemovedOlder'
    <3>1. names'[0] = 0 \/ (names'[0] = names[0] /\ sink.n # 0)
      BY <1>1, <2>2, SlotsAreNumbers
    <3> SUFFICES ASSUME names'[0] = names[0], names[0] # 0, NEW r \in removed', NEW k \in RecordsIn(names[0])
                 PROVE  r < k
      BY <1>1, <3>1 DEF RemovedOlder, RecordsIn
    <3>2. CASE r \in removed
      BY <3>2 DEF Keeping, RemovedOlder
    <3>3. CASE r \in RecordsIn(names[sink.n + 1]) /\ names[sink.n + 1] # 0
      <4>1. Older(names[sink.n + 1], names[0])
        BY <1>1, <3>3, SlotsAreNumbers DEF LogInv, FilesInv, Ordered
      <4> QED BY <3>3, <4>1 DEF Older, RecordsIn
    <3> QED BY <1>3, <3>2, <3>3 DEF Replaced
  <2>7. removed' \subseteq acked
    BY <1>3 DEF Replaced, Keeping
  <2> QED BY <1>1, <2>4, <2>5, <2>6, <2>7 DEF Keeping
<1>4. CASE UntouchedFiles /\ sink' = [sink EXCEPT !.n = @ - 1]
  <2>1. /\ sink'.file = sink.file /\ sink'.maxFiles = sink.maxFiles /\ sink'.at = "shift"
        /\ UNCHANGED <<names, disk, acked, removed, lost>>
    BY <1>1, <1>4 DEF LogInv, SinkTypes, UntouchedFiles, At
  <2>2. SinkNamed'
    BY <1>1, <2>1, SameSink DEF Keeping, At
  <2> QED BY <2>1, <2>2, QuietKeeping
<1> QED BY <1>2, <1>3, <1>4 DEF RotateShift, GiveUp

\* A new file under path hides nothing.
LEMMA NewKeeping ==
  ASSUME LogInv, Keeping, names[0] = 0, disk' = Append(disk, <<>>),
         names' = [names EXCEPT ![0] = Len(disk) + 1], UNCHANGED <<acked, removed, lost>>,
         sink'.file = Len(disk) + 1, sink'.at # "create"
  PROVE  Keeping'
<1>1. /\ \A f \in DOMAIN disk : disk'[f] = disk[f]
      /\ disk'[Len(disk) + 1] = <<>>
      /\ \A n \in Slots : names[n] # 0 => names'[n] = names[n] /\ names[n] \in DOMAIN disk
      /\ names'[0] = Len(disk) + 1 /\ 0 \in Slots
  BY SlotsAreNumbers DEF LogInv, FilesInv, FileTypes
<1>2. SinkNamed'
  BY <1>1 DEF SinkNamed, At
<1>3. ASSUME NEW r \in acked, r \notin removed, r \notin lost PROVE Reachable(r)'
  <2>1. PICK m \in Slots : names[m] # 0 /\ \E i \in DOMAIN disk[names[m]] : disk[names[m]][i].rec = r
    BY <1>3 DEF Keeping, AckedKept, Reachable, RecordsIn
  <2>2. names'[m] = names[m] /\ disk'[names[m]] = disk[names[m]]
    BY <1>1, <2>1
  <2> QED BY <2>1, <2>2 DEF Reachable, RecordsIn
<1>4. AckedKept'
  BY <1>3 DEF AckedKept
<1>5. RecordsIn(names[0])' = {}
  BY <1>1 DEF RecordsIn
<1>6. RemovedOlder'
  BY <1>5 DEF RemovedOlder
<1> QED BY <1>2, <1>4, <1>6 DEF Keeping

LEMMA CreateKeeping ==
  ASSUME LogInv, Keeping, CreateFailsUnder \subseteq {0}, RotateCreate PROVE Keeping'
<1>1. At("create") /\ Rotating /\ names[0] = 0 /\ UNCHANGED <<acked, lost, removed>>
  BY DEF RotateCreate, At, UntouchedRecords, Rotating, LogInv, RotationAt
<1>2. CASE sink.maxFiles \in CreateFailsUnder /\ PutOff /\ UNCHANGED <<names, disk>>
  BY <1>1, <1>2, PutOffKeeping
<1>3. CASE /\ disk' = Append(disk, <<>>)
           /\ names' = [names EXCEPT ![0] = Len(disk) + 1]
           /\ sink' = [sink EXCEPT !.at = "write", !.file = Len(disk) + 1, !.size = 0,
                         !.limit = MaxBytes]
  <2>1. sink'.file = Len(disk) + 1 /\ sink'.at = "write"
    BY <1>3 DEF LogInv, SinkTypes
  <2> QED BY <1>1, <1>3, <2>1, NewKeeping
<1> QED BY <1>2, <1>3 DEF RotateCreate

LEMMA OpenKeeping ==
  ASSUME LogInv, Keeping, NEW n \in FileLimits, NEW sync, NEW all, Open(n, sync, all)
  PROVE  Keeping'
<1> DEFINE f == IF names[0] = 0 THEN Len(disk) + 1 ELSE names[0]
<1>1. UNCHANGED <<acked, lost, removed>> /\ sink'.at = "idle" /\ sink'.file = f
  BY DEF Open, Down, At, UntouchedRecords
<1>2. /\ names' = [names EXCEPT ![0] = f]
      /\ IF names[0] = 0 THEN disk' = Append(disk, <<>>) ELSE disk' = disk
  BY DEF Open
<1>3. CASE names[0] = 0
  BY <1>1, <1>2, <1>3, NewKeeping
<1>4. CASE names[0] # 0
  <2>1. names' = names /\ disk' = disk
    BY <1>2, <1>4 DEF LogInv, FilesInv, FileTypes
  <2>2. SinkNamed'
    BY <1>1, <1>4, <2>1, SlotsAreNumbers DEF SinkNamed, At
  <2> QED BY <1>1, <2>1, <2>2, QuietKeeping
<1> QED BY <1>3, <1>4

LEMMA WriteKeeping == ASSUME Durable, Keeping, Write PROVE Keeping'
<1>1. /\ At("write") /\ UNCHANGED <<names, removed, lost>>
      /\ sink'.file = sink.file /\ sink'.maxFiles = sink.maxFiles /\ sink'.at = "idle"
  <2>1. (\E b, w : Put(b, w)) \/ Goto("idle")
    BY DEF Write
  <2>2. sink'.file = sink.file /\ sink'.maxFiles = sink.maxFiles /\ sink'.at = "idle"
    BY <2>1 DEF Put, Goto, Durable, LogInv, SinkTypes
  <2> QED BY <2>2 DEF Write
<1>2. /\ Writable /\ Carrying /\ line.rec = next /\ next \in Nat /\ sink.file \in DOMAIN disk
  BY <1>1, MaxRecordsAssumption
     DEF Writable, Carrying, At, Durable, LogInv, InHand, SinkTypes, WritesNewest
<1>3. SinkNamed'
  BY <1>1, <1>2, SameSink DEF Keeping, At
<1>4. CASE UNCHANGED <<disk, acked>>
  BY <1>1, <1>3, <1>4, QuietKeeping
<1>5. CASE \E b, w : Put(b, w) /\ acked' \in {acked, acked \cup {line.rec}}
  <2>1. PICK b, w : Put(b, w) /\ acked' \in {acked, acked \cup {line.rec}}
    BY <1>5
  <2> DEFINE p == [rec |-> line.rec, bytes |-> b, whole |-> w]
  <2>2. disk' = [disk EXCEPT ![sink.file] = Append(@, p)] /\ p.rec = next
    BY <1>2, <2>1 DEF Put
  <2>3. /\ disk[sink.file] \in Seq(Piece)
        /\ disk'[sink.file] = Append(disk[sink.file], p)
        /\ \A g \in DOMAIN disk \ {sink.file} : disk'[g] = disk[g]
    BY <1>2, <2>2 DEF Durable, LogInv, FilesInv, FileTypes
  <2>4. RecordsIn(sink.file)' = RecordsIn(sink.file) \cup {next}
    <3>1. /\ DOMAIN disk'[sink.file] = DOMAIN disk[sink.file] \cup {Len(disk[sink.file]) + 1}
          /\ disk'[sink.file][Len(disk[sink.file]) + 1] = p
          /\ \A i \in DOMAIN disk[sink.file] : disk'[sink.file][i] = disk[sink.file][i]
      BY <2>3
    <3> HIDE DEF p
    <3>2. \A x : x \in {disk'[sink.file][i].rec : i \in DOMAIN disk'[sink.file]}
                 <=> x = next \/ x \in {disk[sink.file][i].rec : i \in DOMAIN disk[sink.file]}
      BY <2>2, <3>1
    <3> QED BY ZenonT(60), <1>1, <3>2 DEF RecordsIn
  <2>5. \A g \in DOMAIN disk \ {sink.file} : RecordsIn(g)' = RecordsIn(g)
    BY <2>3 DEF RecordsIn
  <2>6. \A m \in Slots : names[m] # 0 => names[m] \in DOMAIN disk
    BY DEF Durable, LogInv, FilesInv, FileTypes
  <2>7. AckedKept'
    <3> SUFFICES ASSUME NEW r \in acked', r \notin removed, r \notin lost PROVE Reachable(r)'
      BY <1>1 DEF AckedKept
    <3>1. CASE r = next
      <4>1. PICK m \in Slots : names[m] = sink.file
        BY <1>2 DEF Keeping, SinkNamed
      <4>2. names[m] # 0
        BY <1>2, <4>1 DEF Durable, LogInv, FilesInv, FileTypes
      <4> QED BY <1>1, <2>4, <3>1, <4>1, <4>2 DEF Reachable
    <3>2. CASE r # next
      <4>1. r \in acked
        BY <1>2, <2>1, <3>2
      <4>2. PICK m \in Slots : names[m] # 0 /\ r \in RecordsIn(names[m])
        BY <4>1 DEF Keeping, AckedKept, Reachable
      <4>3. r \in RecordsIn(names[m])'
        BY <1>1, <2>4, <2>5, <2>6, <4>2
      <4> QED BY <1>1, <4>2, <4>3 DEF Reachable
    <3> QED BY <3>1, <3>2
  <2>8. RemovedOlder'
    <3> SUFFICES ASSUME names[0] # 0, NEW r \in removed, NEW k \in RecordsIn(names[0])' PROVE r < k
      BY <1>1 DEF RemovedOlder
    <3>1. r < next
      BY <1>2 DEF Keeping, Durable, Books, AckedSoFar
    <3>2. k = next \/ k \in RecordsIn(names[0])
      BY <1>1, <2>4, <2>5, <2>6, SlotsAreNumbers
    <3> QED BY <3>1, <3>2 DEF Keeping, RemovedOlder
  <2> QED BY <1>1, <1>3, <2>1, <2>7, <2>8 DEF Keeping
<1> QED BY <1>4, <1>5 DEF Write

LEMMA PowerKeeping == ASSUME LogInv, Keeping, PowerLoss PROVE Keeping'
<1>1. /\ UNCHANGED <<names, acked, removed>> /\ sink'.at = "down"
      /\ lost' = lost \cup {r \in acked \cap OnDisk :
                              \A f \in Named : \A i \in DOMAIN disk'[f] : disk'[f][i].rec # r}
  BY DEF PowerLoss, Down
<1>2. SinkNamed'
  BY <1>1 DEF SinkNamed, Writable
<1>3. AckedKept'
  <2> SUFFICES ASSUME NEW r \in acked, r \notin removed, r \notin lost' PROVE Reachable(r)'
    BY <1>1 DEF AckedKept
  <2>1. r \in OnDisk
    BY <1>1, ReachableIsOnDisk DEF Keeping, AckedKept
  <2>2. PICK f \in Named : \E i \in DOMAIN disk'[f] : disk'[f][i].rec = r
    BY <1>1, <2>1
  <2>3. PICK n \in Slots : names[n] = f
    BY DEF Named
  <2>4. f # 0
    BY DEF Named, LogInv, FilesInv, FileTypes
  <2> QED BY <1>1, <2>2, <2>3, <2>4 DEF Reachable, RecordsIn
<1>4. RemovedOlder'
  <2> SUFFICES ASSUME names[0] # 0, NEW r \in removed, NEW k \in RecordsIn(names[0])' PROVE r < k
    BY <1>1 DEF RemovedOlder
  <2>1. names[0] \in DOMAIN disk
    BY SlotsAreNumbers DEF LogInv, FilesInv, FileTypes
  <2>2. PICK i \in DOMAIN disk'[names[0]] : disk'[names[0]][i].rec = k
    BY <1>1 DEF RecordsIn
  <2>3. i \in DOMAIN disk[names[0]] /\ disk[names[0]][i].rec = k
    BY <2>1, <2>2, PowerKeeps
  <2> QED BY <2>3 DEF Keeping, RemovedOlder, RecordsIn
<1> QED BY <1>1, <1>2, <1>3, <1>4 DEF Keeping

LEMMA KeepingKept ==
  ASSUME CreateFailsUnder \subseteq {0}, 0 \notin StatFailsUnder
  PROVE  Durable /\ Keeping /\ [Next]_vars => Keeping'
<1> SUFFICES ASSUME Durable, Keeping, [Next]_vars PROVE Keeping'
  OBVIOUS
<1>1. LogInv
  BY DEF Durable
<1>2. ASSUME NEW kind, NEW bytes, Emit(kind, bytes) PROVE Keeping'
  <2>1. /\ UNCHANGED <<names, disk, acked, removed, lost>> /\ At("idle") /\ sink'.file = sink.file
        /\ sink'.maxFiles = sink.maxFiles /\ sink'.at \in {"idle", "sync", "write"}
    BY <1>1, <1>2 DEF Emit, Goto, At, UntouchedFiles, LogInv, SinkTypes
  <2> QED BY <2>1, SameSink, QuietKeeping DEF Keeping, Writable, At
<1>3. CASE EmitClosed \/ UNCHANGED auditVars
  <2>1. UNCHANGED <<names, disk, acked, removed, lost, sink>>
    BY <1>3 DEF EmitClosed, UntouchedFiles, auditVars
  <2> QED BY <2>1, QuietKeeping DEF Keeping, SinkNamed, Writable, At
<1>4. ASSUME NEW then \in {"idle", "closed"}, Sync(then) PROVE Keeping'
  <2>1. /\ UNCHANGED <<names, disk, acked, removed, lost>> /\ At("idle") /\ sink'.file = sink.file
        /\ sink'.maxFiles = sink.maxFiles /\ sink'.at = then
    BY <1>1, <1>4 DEF Sync, Goto, At, UntouchedRecords, LogInv, SinkTypes
  <2> QED BY <2>1, SameSink, QuietKeeping DEF Keeping, Writable, At
<1>5. CASE Stop
  <2>1. UNCHANGED <<names, disk, acked, removed, lost>> /\ sink'.at = "down"
    BY <1>5 DEF Stop, UntouchedFiles, Down
  <2> QED BY <2>1, QuietKeeping DEF SinkNamed, Writable
<1>6. CASE LogStep
  BY <1>1, <1>2, <1>3, <1>4, <1>5, <1>6, SyncKeeping, ClearKeeping, ShiftKeeping, CreateKeeping,
     WriteKeeping, OpenKeeping, PowerKeeping DEF LogStep
<1> QED BY <1>3, <1>6, LogSteps DEF vars

\* An acknowledged record is in a file that has a name, was deleted to keep to
\* max_files before anything newer, or went with a power loss; provided that a
\* rotation's new file can be opened where max_files limits them, and that no Stat of an
\* existing file fails where it does not (jsonl.go, rotate and exists).
THEOREM NothingIsLost ==
  ASSUME CreateFailsUnder \subseteq {0}, 0 \notin StatFailsUnder
  PROVE  Spec => []NothingLost
<1>1. Init => Keeping
  <2> SUFFICES ASSUME Init PROVE Keeping
    OBVIOUS
  <2>1. /\ names = [n \in Slots |-> 0] /\ sink.at = "down" /\ acked = {} /\ removed = {} /\ 0 \in Slots
    BY SlotsAreNumbers DEF Init, AuditInit, Down
  <2> QED BY <2>1 DEF Keeping, SinkNamed, Writable, AckedKept, RemovedOlder
<1>2. Durable /\ Keeping => NothingLost
  BY KeepingKeeps DEF Durable
<1> QED BY <1>1, <1>2, DurableInit, DurableKept, KeepingKept, PTL DEF Spec
-----------------------------------------------------------------------------
(***************************************************************************)
(* Types.  LogInv gives those of the files, the sink and the record in     *)
(* hand; what is left is the sizes, the books, and the subscriptions.      *)
(***************************************************************************)
LogBounds ==
  /\ sink.size \in Nat /\ sink.limit \in Nat
  /\ \A r \in acked : r > 0
  /\ removed \subseteq acked /\ stranded \subseteq DOMAIN disk
  /\ faults \in 0..MaxFaults /\ stops \in 0..MaxStops
  /\ emitting \in 0..next

\* A channel: it is closed once its subscriber is out of the hub's map, never again.
Channel(s) ==
  /\ Len(s.queue) <= HubCap
  /\ s.closes = IF s.registered \/ s.handler = "none" THEN 0 ELSE 1
HubBounds == \A c \in Subscribers : Channel(subs[c])

LEMMA HeldIsNatural ==
  ASSUME FilesInv, NEW f \in DOMAIN disk
  PROVE  SumFunction([i \in DOMAIN disk[f] |-> disk[f][i].bytes]) \in Nat
<1>1. disk[f] \in Seq(Piece)
  BY DEF FilesInv, FileTypes
<1>2. DOMAIN disk[f] = 1..Len(disk[f]) /\ Len(disk[f]) \in Nat
  BY <1>1
<1>3. IsFiniteSet(DOMAIN disk[f])
  BY <1>2, FS_Interval
<1>4. [i \in DOMAIN disk[f] |-> disk[f][i].bytes] \in [DOMAIN disk[f] -> Nat]
  <2>1. \A i \in DOMAIN disk[f] : disk[f][i] \in Piece
    BY <1>1
  <2>2. \A p \in Piece : p.bytes \in Nat
    BY DEF Piece
  <2> QED
    BY <2>1, <2>2
<1> QED
  BY <1>3, <1>4, SumIsNatural

\* A step of the sink that closes no account: it may count a fault, and leaves a
\* file behind at most under the name it had.
LEMMA QuietBounds ==
  ASSUME LogInv, LogBounds, UNCHANGED <<acked, removed, stops, emitting>>,
         sink'.size \in Nat, sink'.limit \in Nat,
         stranded' \in {stranded, stranded \cup {sink.file}}, stranded' = stranded \/ Writable,
         DOMAIN disk \subseteq DOMAIN disk',
         faults' = faults \/ Fault, next' \in {next, next + 1}
  PROVE  LogBounds'
<1>1. stranded' \subseteq DOMAIN disk'
  BY DEF LogBounds, LogInv, WritesNewest
<1>2. faults' \in 0..MaxFaults
  BY FaultsAssumption DEF LogBounds, Fault
<1>3. emitting' \in 0..next'
  BY MaxRecordsAssumption DEF LogBounds, LogInv, SinkTypes
<1> QED
  BY <1>1, <1>2, <1>3 DEF LogBounds

LEMMA PutOffSizes ==
  ASSUME LogInv, LogBounds, PutOff PROVE sink'.size \in Nat /\ sink'.limit \in Nat
  BY MaxBytesAssumption DEF LogInv, LogBounds, SinkTypes, PutOff

LEMMA OpenBounds ==
  ASSUME LogInv, LogBounds, NEW n \in FileLimits, NEW sync \in BOOLEAN, NEW all \in BOOLEAN,
         Open(n, sync, all), emitting' = emitting
  PROVE  LogBounds'
<1> DEFINE f == IF names[0] = 0 THEN Len(disk) + 1 ELSE names[0]
           held == IF names[0] = 0 THEN 0
                   ELSE SumFunction([i \in DOMAIN disk[f] |-> disk[f][i].bytes])
           opened == [Down EXCEPT !.at = "idle", !.file = f, !.limit = MaxBytes, !.maxFiles = n,
                        !.syncWrites = sync, !.recordAll = all]
<1>1. held \in Nat
  <2>1. CASE names[0] # 0
    <3>1. f \in DOMAIN disk /\ FilesInv
      BY <2>1, SlotsAreNumbers DEF LogInv, FilesInv, FileTypes
    <3> QED
      BY <2>1, <3>1, HeldIsNatural
  <2> QED
    BY <2>1
<1>2. /\ \/ sink' = [opened EXCEPT !.size = held] /\ faults' = faults
         \/ sink' = opened /\ Fault
      /\ UNCHANGED <<acked, removed, stranded, next, stops>>
      /\ disk' = Append(disk, <<>>) \/ disk' = disk
  BY DEF Open, UntouchedRecords
<1> HIDE DEF f, held
<1>3. sink'.size \in Nat /\ sink'.limit \in Nat
  <2>1. /\ opened.size = 0 /\ opened.limit = MaxBytes /\ "size" \in DOMAIN opened
        /\ [opened EXCEPT !.size = held].size = held /\ [opened EXCEPT !.size = held].limit = MaxBytes
    BY DEF Down
  <2>2. sink' = [opened EXCEPT !.size = held] \/ sink' = opened
    BY <1>2
  <2> HIDE DEF opened
  <2>3. /\ sink' = opened => sink'.size = 0 /\ sink'.limit = MaxBytes
        /\ sink' = [opened EXCEPT !.size = held] => sink'.size = held /\ sink'.limit = MaxBytes
    BY <2>1, Zenon
  <2> QED
    BY <1>1, <2>2, <2>3, MaxBytesAssumption
<1>4. DOMAIN disk \subseteq DOMAIN disk'
  BY <1>2 DEF LogInv, FilesInv, FileTypes
<1> QED
  BY <1>2, <1>3, <1>4, QuietBounds

LEMMA WriteBounds == ASSUME LogInv, LogBounds, Write, emitting' = emitting PROVE LogBounds'
<1>1. /\ At("write") /\ UNCHANGED <<removed, stranded, next, stops>>
      /\ faults' = faults \/ Fault
  BY DEF Write
<1>2. line.bytes \in Nat /\ line.rec > 0
  BY <1>1, MaxRecordsAssumption DEF LogInv, SinkTypes, InHand, Carrying
<1>3. \/ \E b \in Nat : \E w : Put(b, w)
      \/ Goto("idle") /\ disk' = disk
  <2>1. \A n \in 1..(line.bytes - 1) : n \in Nat
    BY <1>2
  <2> QED
    BY <1>2, <2>1 DEF Write
<1>4. sink'.size \in Nat /\ sink'.limit \in Nat /\ DOMAIN disk' = DOMAIN disk
  <2>1. CASE Goto("idle") /\ disk' = disk
    BY <2>1 DEF Goto, LogInv, LogBounds, SinkTypes
  <2>2. ASSUME NEW b \in Nat, NEW w, Put(b, w)
        PROVE  sink'.size \in Nat /\ sink'.limit \in Nat /\ DOMAIN disk' = DOMAIN disk
    <3>1. sink'.size = sink.size + b /\ sink'.limit = sink.limit
      BY <2>2 DEF Put, LogInv, SinkTypes
    <3>2. disk' = [disk EXCEPT ![sink.file] = Append(@, [rec |-> line.rec, bytes |-> b, whole |-> w])]
      BY <2>2 DEF Put
    <3>3. DOMAIN disk' = DOMAIN disk
      BY ONLY <3>2
    <3> QED
      BY <3>1, <3>3 DEF LogBounds
  <2> QED
    BY <1>3, <2>1, <2>2
<1>5. acked' = acked \/ acked' = acked \cup {line.rec}
  BY DEF Write
<1>6. (\A r \in acked' : r > 0) /\ removed' \subseteq acked' /\ stranded' \subseteq DOMAIN disk'
  BY <1>1, <1>2, <1>4, <1>5 DEF LogBounds
<1>7. faults' \in 0..MaxFaults
  BY <1>1, FaultsAssumption DEF LogBounds, Fault
<1> QED
  BY <1>1, <1>4, <1>6, <1>7 DEF LogBounds

LEMMA RotateBounds ==
  ASSUME LogInv, LogBounds, RotateSync \/ RotateClear \/ RotateShift \/ RotateCreate,
         emitting' = emitting
  PROVE  LogBounds'
<1>2. CASE GiveUp /\ UntouchedRecords
  BY <1>2, PutOffSizes, QuietBounds DEF GiveUp, UntouchedFiles, UntouchedRecords
<1>3. CASE RotateSync /\ ~GiveUp
  <2>1. /\ UNCHANGED <<disk, stranded, acked, removed, stops, next>> /\ MakesRoom
        /\ sink' = [sink EXCEPT !.at = sink'.at, !.n = sink'.n] /\ (faults' = faults \/ Fault)
    BY <1>3 DEF RotateSync, UntouchedRecords, MakesRoom, StatFails, LogInv, SinkTypes
  <2>2. sink'.size = sink.size /\ sink'.limit = sink.limit
    BY <2>1 DEF LogInv, SinkTypes
  <2> QED BY <2>1, <2>2, FaultsAssumption DEF LogBounds, Fault
<1>4. CASE RotateClear /\ ~GiveUp
  <2>1. sink'.size \in Nat /\ sink'.limit \in Nat
    BY <1>4 DEF RotateClear, LogInv, LogBounds, SinkTypes
  <2>2. /\ UNCHANGED <<disk, stranded, acked, stops, next>> /\ (faults' = faults \/ Fault)
        /\ removed' = removed \/ removed' = removed \cup (RecordsIn(names[sink.n]) \cap acked)
    BY <1>4 DEF RotateClear, StatFails, UntouchedFiles, UntouchedRecords
  <2> QED
    BY <2>1, <2>2, FaultsAssumption DEF LogBounds, Fault
<1>5. CASE RotateShift /\ ~GiveUp
  <2>1. /\ UNCHANGED <<disk, stranded, faults, acked, stops, next>>
        /\ removed' = removed \/ removed' = removed \cup Replaced
        /\ \/ PutOff
           \/ sink' = [sink EXCEPT !.at = "create"]
           \/ sink' = [sink EXCEPT !.n = @ - 1]
    BY <1>5 DEF RotateShift, UntouchedFiles, UntouchedRecords
  <2>2. sink'.size \in Nat /\ sink'.limit \in Nat
    BY <2>1, PutOffSizes DEF LogInv, LogBounds, SinkTypes
  <2>3. removed' \subseteq acked
    BY <2>1 DEF LogBounds, Replaced
  <2> QED
    BY <2>1, <2>2, <2>3 DEF LogBounds
<1>6. CASE RotateCreate
  <2>1. /\ UNCHANGED <<acked, removed, stops, next>>
        /\ \/ /\ disk' = Append(disk, <<>>) /\ UNCHANGED <<stranded, faults>>
              /\ sink' = [sink EXCEPT !.at = "write", !.file = Len(disk) + 1, !.size = 0,
                            !.limit = MaxBytes]
           \/ /\ PutOff /\ Fault /\ disk' = disk /\ stranded' = stranded \cup {sink.file}
        /\ Writable
    BY <1>6 DEF RotateCreate, UntouchedRecords, Writable, At
  <2>2. sink'.size \in Nat /\ sink'.limit \in Nat
    <3>1. CASE sink' = [sink EXCEPT !.at = "write", !.file = Len(disk) + 1, !.size = 0,
                          !.limit = MaxBytes]
      BY <3>1, MaxBytesAssumption DEF LogInv, SinkTypes
    <3> QED
      BY <2>1, <3>1, PutOffSizes
  <2>3. DOMAIN disk \subseteq DOMAIN disk'
    BY <2>1 DEF LogInv, FilesInv, FileTypes
  <2> QED
    BY <2>1, <2>2, <2>3, QuietBounds
<1>7. RotateSync \/ RotateClear \/ RotateShift => UntouchedRecords
  BY DEF RotateSync, RotateClear, RotateShift
<1> QED
  BY <1>2, <1>3, <1>4, <1>5, <1>6, <1>7

LEMMA BoundsKept == LogInv /\ LogBounds /\ [Next]_vars => LogBounds'
<1> SUFFICES ASSUME LogInv, LogBounds, [Next]_vars PROVE LogBounds'
  OBVIOUS
<1>1. ASSUME NEW kind, NEW b, Emit(kind, b), emitting' \in {emitting, next + 1}
      PROVE  LogBounds'
  <2>1. /\ UNCHANGED <<disk, stranded, faults, acked, removed, stops>> /\ next' = next + 1
    BY <1>1 DEF Emit, UntouchedFiles
  <2>2. sink'.size = sink.size /\ sink'.limit = sink.limit
    BY <1>1 DEF Emit, Goto, LogInv, SinkTypes
  <2>3. emitting' \in 0..next'
    BY <1>1, <2>1, MaxRecordsAssumption DEF LogInv, LogBounds, SinkTypes
  <2> QED
    BY <2>1, <2>2, <2>3 DEF LogBounds
<1>2. CASE EmitClosed
  BY <1>2, QuietBounds DEF EmitClosed, UntouchedFiles, LogBounds
<1>3. ASSUME NEW then, Sync(then), emitting' = emitting PROVE LogBounds'
  <2>1. sink'.size = sink.size /\ sink'.limit = sink.limit
    BY <1>3 DEF Sync, Goto, LogInv, SinkTypes
  <2> QED
    BY <1>3, <2>1, QuietBounds DEF Sync, UntouchedRecords, LogBounds
<1>4. CASE (Stop \/ PowerLoss) /\ emitting' = 0
  <2>1. /\ UNCHANGED <<acked, removed, stranded, faults, next>> /\ sink' = Down
        /\ stops' = stops + 1 /\ stops < MaxStops /\ DOMAIN disk' = DOMAIN disk
    BY <1>4 DEF Stop, PowerLoss, UntouchedFiles
  <2>2. stops' \in 0..MaxStops /\ emitting' \in 0..next'
    BY <1>4, <2>1, FaultsAssumption, MaxRecordsAssumption DEF LogBounds, LogInv, SinkTypes
  <2> QED
    BY <2>1, <2>2 DEF LogBounds, Down
<1>5. CASE UNCHANGED auditVars /\ emitting' \in {0, emitting}
  <2>1. emitting' \in 0..next
    BY <1>5, MaxRecordsAssumption DEF LogBounds, LogInv, SinkTypes
  <2> QED
    BY <1>5, <2>1 DEF auditVars, LogBounds
<1> QED
  BY <1>1, <1>2, <1>3, <1>4, <1>5, RotateBounds, OpenBounds, WriteBounds
     DEF Next, vars, EmitDecision, Record, PublishEmitted, Flush, Close, Ends

\* The subscriptions.
LEMMA DroppedChannel ==
  ASSUME NEW s, Subscription(s), NoGap(s), Channel(s)
  PROVE  /\ Channel(Dropped(s)) /\ ~Dropped(s).registered /\ Dropped(s).handler = s.handler
         /\ Dropped(s).queue = s.queue
<1>1. CASE ~s.registered
  BY <1>1 DEF Dropped
<1>2. CASE s.registered
  <2> DEFINE d == [s EXCEPT !.registered = FALSE, !.closes = s.closes + 1]
  <2>1. Dropped(s) = d
    BY <1>2 DEF Dropped
  <2>2. /\ ~d.registered /\ d.queue = s.queue /\ d.handler = s.handler
        /\ d.closes = s.closes + 1
    BY DEF Subscription
  <2>3. s.closes = 0 /\ s.handler # "none"
    BY <1>2 DEF Channel, NoGap
  <2> HIDE DEF d
  <2> QED
    BY <2>1, <2>2, <2>3 DEF Channel
<1> QED
  BY <1>1, <1>2 DEF Subscription

LEMMA OfferChannel ==
  ASSUME NEW s, Subscription(s), NoGap(s), Channel(s) PROVE Channel(Offer(s))
<1>1. s.queue \in Seq(Nat) /\ Len(s.queue) \in Nat
  BY DEF Subscription
<1>2. CASE Len(s.queue) < HubCap
  <2> DEFINE q == Append(s.queue, s.offered + 1)
             o == [s EXCEPT !.queue = q, !.offered = s.offered + 1]
  <2>1. Offer(s) = o
    BY <1>2 DEF Offer
  <2>2. /\ o.registered = s.registered /\ o.queue = q /\ o.handler = s.handler
        /\ o.closes = s.closes
    BY DEF Subscription
  <2>3. Len(q) <= HubCap
    BY <1>1, <1>2, HubCapAssumption DEF Subscription
  <2> HIDE DEF q, o
  <2> QED
    BY <2>1, <2>2, <2>3 DEF Channel
<1>3. CASE ~(Len(s.queue) < HubCap)
  <2> DEFINE d == Dropped(s)
             o == [d EXCEPT !.offered = d.offered + 1]
  <2>1. Offer(s) = o
    BY <1>3 DEF Offer
  <2>2. Channel(d) /\ Subscription(d)
    BY DroppedChannel, DroppedIsSound
  <2> HIDE DEF d
  <2>3. /\ o.registered = d.registered /\ o.queue = d.queue /\ o.handler = d.handler
        /\ o.closes = d.closes
    BY <2>2 DEF Subscription
  <2> HIDE DEF o
  <2> QED
    BY <2>1, <2>2, <2>3 DEF Channel
<1> QED
  BY <1>2, <1>3

LEMMA UnsubscribedChannel ==
  ASSUME HubInv, HubBounds, NEW c \in Subscribers, subs[c].handler = "running"
  PROVE  Channel(Unsubscribed(c))
<1>1. Channel(Dropped(subs[c])) /\ ~Dropped(subs[c]).registered /\ Dropped(subs[c]).handler = "running"
  BY DroppedChannel DEF HubInv, HubBounds
<1>2. Dropped(subs[c]).closes = 1
  BY <1>1 DEF Channel
<1> QED
  BY <1>2, HubCapAssumption DEF Unsubscribed, Absent, Channel

LEMMA HubBoundsKept == HubInv /\ HubBounds /\ [Next]_vars => HubBounds'
<1> SUFFICES ASSUME HubInv, HubBounds, [Next]_vars, NEW c \in Subscribers PROVE Channel(subs'[c])
  BY DEF HubBounds
<1>1. Subscription(subs[c]) /\ NoGap(subs[c]) /\ Channel(subs[c])
  BY DEF HubInv, HubBounds
<1>2. CASE UNCHANGED subs
  BY <1>1, <1>2
<1>3. CASE \E d \in Subscribers : Subscribe(d)
  <2>1. PICK d \in Subscribers : Subscribe(d)
    BY <1>3
  <2>2. CASE d # c
    BY <1>1, <2>1, <2>2 DEF Subscribe, HubInv
  <2>3. CASE d = c
    <3>1. /\ subs[c].handler = "none" /\ subs'[c].queue = subs[c].queue
          /\ subs'[c].registered = TRUE /\ subs'[c].closes = subs[c].closes
      BY <1>1, <2>1, <2>3 DEF Subscribe, HubInv, Subscription
    <3> QED
      BY <1>1, <3>1 DEF Channel
  <2> QED
    BY <2>2, <2>3
<1>4. CASE \E d \in Subscribers : Send(d)
  <2>1. PICK d \in Subscribers : Send(d)
    BY <1>4
  <2>2. CASE d # c
    BY <1>1, <2>1, <2>2 DEF Send, HubInv
  <2>3. CASE d = c
    <3>1. /\ subs[c].queue # <<>> /\ subs'[c].queue = Tail(subs[c].queue)
          /\ subs'[c].registered = subs[c].registered /\ subs'[c].closes = subs[c].closes
          /\ subs'[c].handler = subs[c].handler
      BY <1>1, <2>1, <2>3 DEF Send, HubInv, Subscription
    <3>2. Len(Tail(subs[c].queue)) <= HubCap
      BY <1>1, <3>1, HubCapAssumption DEF Channel, Subscription
    <3> QED
      BY <1>1, <3>1, <3>2 DEF Channel
  <2> QED
    BY <2>2, <2>3
<1>5. CASE CloseAll
  BY <1>1, <1>5, DroppedChannel DEF CloseAll
<1>6. CASE \E d \in Subscribers : HandlerReturns(d)
  <2>1. PICK d \in Subscribers : HandlerReturns(d)
    BY <1>6
  <2>2. subs'[c] = IF d = c THEN Unsubscribed(c) ELSE subs[c]
    BY <2>1 DEF HandlerReturns, HubInv
  <2> QED
    BY <1>1, <2>1, <2>2, UnsubscribedChannel DEF HandlerReturns
<1>7. CASE \E accepting \in SUBSET Subscribers : Publish(accepting)
  <2>1. subs'[c] = Offer(subs[c]) \/ subs'[c] = subs[c]
    BY <1>7 DEF Publish
  <2> QED
    BY <1>1, <2>1, OfferChannel
<1>8. CASE Ends(Stop) \/ Ends(PowerLoss)
  <2>1. subs'[c] = IF subs[c].handler = "running" THEN Unsubscribed(c) ELSE subs[c]
    BY <1>8 DEF Ends
  <2> QED
    BY <1>1, <2>1, UnsubscribedChannel
<1> QED
  BY <1>2, <1>3, <1>4, <1>5, <1>6, <1>7, <1>8
     DEF Next, vars, EmitDecision, Record, EmitClosed, PublishEmitted

LEMMA TypesFollow == ASSUME Durable, LogBounds, HubBounds PROVE TypeOK
<1>1. /\ names \in [Slots -> 0..Len(disk)] /\ disk \in Seq(Seq(Piece))
      /\ synced \in Seq(Nat) /\ Len(synced) = Len(disk)
      /\ \A f \in DOMAIN disk : synced[f] <= Len(disk[f])
      /\ sink.at \in SinkAt /\ sink.file \in 0..Len(disk) /\ sink.n \in Slots
      /\ sink.maxFiles \in FileLimits \cup {0}
      /\ line.rec \in 0..next /\ next \in 0..MaxRecords
  BY DEF Durable, LogInv, FilesInv, FileTypes, SinkTypes
<1>2. names \in [Slots -> Nat] /\ \A n \in Slots : names[n] <= Len(disk)
  BY <1>1
<1>3. acked \subseteq Records
  BY <1>1, MaxRecordsAssumption DEF Durable, Books, AckedSoFar, LogBounds, Records
<1>4. forced \subseteq acked /\ lost \subseteq acked
  BY DEF Durable, Books
<1> QED
  BY <1>1, <1>2, <1>3, <1>4 DEF TypeOK, LogBounds, HubBounds, Channel

\* Sizes stay numbers, the books name records that were offered, a channel holds
\* no more than it has room for and is closed at most once (hub.go, publish,
\* closeAll and the unsubscribe function), for any number of records, faults,
\* stops and subscribers.
THEOREM TypeCorrect == Spec => []TypeOK
<1>1. Init => LogBounds /\ HubBounds
  <2> SUFFICES ASSUME Init PROVE LogBounds /\ HubBounds
    OBVIOUS
  <2>1. LogBounds
    BY FaultsAssumption DEF Init, AuditInit, LogBounds, Down
  <2>2. HubBounds
    BY HubCapAssumption DEF Init, HubInit, HubBounds, Channel, Absent
  <2> QED
    BY <2>1, <2>2
<1>2. Durable => LogInv
  BY DEF Durable
<1>3. Init => HubInv
  BY AbsentIsSound DEF Init, HubInit, HubInv
<1> QED
  BY <1>1, <1>2, <1>3, DurableInit, DurableKept, BoundsKept, HubKept, HubBoundsKept, TypesFollow,
     PTL DEF Spec
=============================================================================
