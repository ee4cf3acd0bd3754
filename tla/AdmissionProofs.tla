--------------------------- MODULE AdmissionProofs ---------------------------
(***************************************************************************)
(* What holds of every session that is admitted, whatever host the daemon  *)
(* starts on: the loader leaves out no more families than it must, the     *)
(* answer names all that nobody will see, and the envelope keeps the agent *)
(* from the credentials and the places that run later.                     *)
(***************************************************************************)
EXTENDS Admission, DecisionProofs, SequenceTheorems

-----------------------------------------------------------------------------
\* A function that only ever goes on with its own value at a later place is there,
\* when every place is nearer an end than the one before it.
Descends(S, N, rank, done, next) ==
  /\ N \in Nat /\ rank \in [S -> 0..N] /\ done \in SUBSET S /\ next \in [S -> S]
  /\ \A s \in S \ done : rank[next[s]] < rank[s]

GoesOnIn(S, done, next, end, f) ==
  \A s \in S : f[s] = IF s \in done THEN end[s] ELSE f[next[s]]

LEMMA TailRecursionExists ==
  ASSUME NEW S, NEW N, NEW rank, NEW done, NEW next, Descends(S, N, rank, done, next),
         NEW V, NEW end, end \in [S -> V]
  PROVE  \E f : f \in [S -> V] /\ GoesOnIn(S, done, next, end, f)
<1>0. /\ N \in Nat /\ rank \in [S -> 0..N] /\ done \in SUBSET S /\ next \in [S -> S]
      /\ end \in [S -> V] /\ \A s \in S \ done : rank[next[s]] < rank[s]
  BY DEF Descends
<1> DEFINE Value(f, s) == IF s \in done THEN end[s] ELSE f[next[s]]
           Solved(f, n) == \A s \in S : rank[s] < n => f[s] = Value(f, s)
           T == {n \in 0..N + 1 : \E f \in [S -> V] : Solved(f, n)}
<1>1. \A s \in S : rank[s] \in 0..N /\ next[s] \in S /\ end[s] \in V
  BY <1>0
<1>2. 0 \in T
  <2>1. end \in [S -> V] /\ Solved(end, 0)
    BY <1>0, <1>1
  <2> QED BY <1>0, <2>1
<1>3. ASSUME NEW n \in 0..N, n \in T PROVE n + 1 \in T
  <2>1. PICK f \in [S -> V] : Solved(f, n)
    BY <1>3
  <2> DEFINE g == [s \in S |-> IF rank[s] = n THEN Value(f, s) ELSE f[s]]
  <2>2. g \in [S -> V]
    BY <1>1
  <2>3. ASSUME NEW s \in S, rank[s] < n + 1 PROVE g[s] = Value(g, s)
    <3>1. g[s] = Value(f, s)
      BY <1>1, <2>1, <2>3
    <3>2. s \notin done => rank[next[s]] < n
      BY <1>0, <1>1, <2>3
    <3>3. s \notin done => g[next[s]] = f[next[s]]
      BY <1>1, <3>2
    <3> QED BY <3>1, <3>3
  <2>4. Solved(g, n + 1)
    BY <2>3
  <2> HIDE DEF g, Solved
  <2> QED BY <1>0, <2>2, <2>4
<1>4. N + 1 \in T
  <2> DEFINE U == {n \in 0..N + 1 : n \notin T}
  <2> HIDE DEF T
  <2> SUFFICES ASSUME N + 1 \notin T PROVE FALSE
    OBVIOUS
  <2>1. U \subseteq Nat /\ U # {}
    BY <1>0
  <2>2. PICK x \in U : \A y \in U : x <= y
    <3> HIDE DEF U
    <3> QED BY <2>1, LeastNatural
  <2>3. x # 0 /\ x \in 0..N + 1
    BY <1>2
  <2>4. x - 1 \in 0..N /\ x - 1 \in T
    <3>1. x \in Nat /\ x - 1 \in 0..N /\ ~(x <= x - 1)
      BY <1>0, <2>3
    <3> QED BY <1>0, <2>2, <3>1
  <2> QED BY <1>3, <2>4
<1>5. PICK f \in [S -> V] : Solved(f, N + 1)
  BY <1>4
<1> QED BY <1>0, <1>1, <1>5 DEF GoesOnIn

\* What holds of a place holds of the next, and what it makes of an end then holds
\* of the value: it does of the value at every such place.
KeptIn(I, S, done, next) == I \in SUBSET S /\ \A s \in I \ done : next[s] \in I

LEMMA TailInduction ==
  ASSUME NEW S, NEW N, NEW rank, NEW done, NEW next, Descends(S, N, rank, done, next),
         NEW end, NEW f, GoesOnIn(S, done, next, end, f),
         NEW I, KeptIn(I, S, done, next), NEW R, \A s \in I \cap done : end[s] \in R
  PROVE  \A s \in I : f[s] \in R
<1>0. /\ N \in Nat /\ rank \in [S -> 0..N] /\ done \in SUBSET S /\ next \in [S -> S]
      /\ \A s \in S \ done : rank[next[s]] < rank[s]
      /\ \A s \in S : f[s] = IF s \in done THEN end[s] ELSE f[next[s]]
      /\ I \in SUBSET S /\ \A s \in I \ done : next[s] \in I
  BY DEF Descends, GoesOnIn, KeptIn
<1> DEFINE T == {rank[s] : s \in {x \in I : f[x] \notin R}}
<1> SUFFICES ASSUME T # {} PROVE FALSE
  OBVIOUS
<1>1. T \subseteq Nat
  BY <1>0
<1>2. PICK x \in T : \A y \in T : x <= y
  <2> HIDE DEF T
  <2> QED BY <1>1, LeastNatural
<1>3. PICK s \in I : x = rank[s] /\ f[s] \notin R
  OBVIOUS
<1>4. s \notin done
  BY <1>0, <1>3
<1>5. next[s] \in I /\ f[next[s]] \notin R
  BY <1>0, <1>3, <1>4
<1>6. rank[next[s]] \in T
  BY <1>5
<1>7. rank[next[s]] < rank[s] /\ rank[s] \in 0..N /\ rank[next[s]] \in 0..N
  BY <1>0, <1>4, <1>5
<1> HIDE DEF T
<1> QED BY <1>2, <1>3, <1>6, <1>7

-----------------------------------------------------------------------------
LEMMA TupleIsSequence ==
  ASSUME NEW S, NEW n \in Nat, NEW t \in [1..n -> S]
  PROVE  t \in Seq(S) /\ Len(t) = n
<1>1. t \in Seq(S)
  BY SeqDef
<1>2. Len(t) \in Nat /\ DOMAIN t = 1..Len(t)
  BY <1>1, LenProperties
<1>3. 1..Len(t) = 1..n
  BY <1>2
<1> QED BY <1>1, <1>2, <1>3

\* The families, and the places of those that may be left out.
LEMMA FamilyOrder ==
  /\ DOMAIN AllFamilies = 1..18
  /\ AllFamilies[1] = "proc_exec" /\ AllFamilies[2] = "proc_exit"
  /\ \A i, j \in 1..18 : AllFamilies[i] = AllFamilies[j] => i = j
  /\ \A i \in 1..18 : AllFamilies[i] \in Droppable <=> i \in 3..18
<1> DEFINE names == <<"proc_exec", "proc_exit", "openat", "connect", "file_open",
                      "socket_connect", "path_link", "setuid", "setreuid", "setresuid",
                      "setgid", "setregid", "setresgid", "setgroups", "capset", "unshare",
                      "setns", "seccomp">>
           first == <<"proc_exec", "proc_exit", "openat", "connect", "file_open",
                      "socket_connect", "path_link">>
<1>1. DOMAIN names = 1..18
  OBVIOUS
<1>2. \A i, j \in 1..18 : names[i] = names[j] => i = j
  OBVIOUS
<1>3. /\ DOMAIN AllFamilies = 1..18
      /\ \A i \in 1..18 : AllFamilies[i] = names[i]
  <2> DEFINE S == {names[i] : i \in 1..18}
  <2>1. \A i \in 1..7 : names[i] = first[i]
    OBVIOUS
  <2>2. \A i \in 1..11 : names[i + 7] = PrivSyscalls[i]
    BY DEF PrivSyscalls
  <2>3. first = [i \in 1..7 |-> first[i]]
    OBVIOUS
  <2>4. PrivSyscalls = [i \in 1..11 |-> PrivSyscalls[i]]
    BY DEF PrivSyscalls
  <2>5. AllFamilies = first \o PrivSyscalls
    BY DEF AllFamilies
  <2> HIDE DEF names, first
  <2>6. first \in [1..7 -> S] /\ PrivSyscalls \in [1..11 -> S]
    <3>1. \A i \in 1..7 : first[i] \in S
      BY <2>1
    <3>2. \A i \in 1..11 : i + 7 \in 1..18 /\ PrivSyscalls[i] \in S
      BY <2>2
    <3> HIDE DEF S
    <3> QED BY <2>3, <2>4, <3>1, <3>2
  <2> HIDE DEF S
  <2>7. /\ first \in Seq(S) /\ Len(first) = 7
        /\ PrivSyscalls \in Seq(S) /\ Len(PrivSyscalls) = 11
    <3> PICK m \in Nat, n \in Nat : m = 7 /\ n = 11
      OBVIOUS
    <3>1. first \in [1..m -> S] /\ PrivSyscalls \in [1..n -> S]
      BY <2>6
    <3>2. first \in Seq(S) /\ Len(first) = m
      BY ONLY <3>1, m \in Nat, TupleIsSequence
    <3>3. PrivSyscalls \in Seq(S) /\ Len(PrivSyscalls) = n
      BY ONLY <3>1, n \in Nat, TupleIsSequence
    <3> QED BY ONLY <3>2, <3>3, m = 7 /\ n = 11
  <2>8. /\ AllFamilies \in Seq(S) /\ Len(AllFamilies) = 18
        /\ \A i \in 1..18 : AllFamilies[i] = IF i <= 7 THEN first[i] ELSE PrivSyscalls[i - 7]
    <3> PICK s1, s2 : s1 = first /\ s2 = PrivSyscalls
      OBVIOUS
    <3>1. s1 \in Seq(S) /\ s2 \in Seq(S) /\ Len(s1) = 7 /\ Len(s2) = 11
      BY <2>7
    <3>2. /\ s1 \o s2 \in Seq(S) /\ Len(s1 \o s2) = Len(s1) + Len(s2)
          /\ \A i \in 1..Len(s1) + Len(s2) :
               (s1 \o s2)[i] = IF i <= Len(s1) THEN s1[i] ELSE s2[i - Len(s1)]
      BY ONLY <3>1, ConcatProperties
    <3>3. Len(s1) + Len(s2) = 18
      BY <3>1
    <3> QED BY <2>5, <3>1, <3>2, <3>3
  <2>9. DOMAIN AllFamilies = 1..18
    BY <2>8, LenProperties
  <2>10. ASSUME NEW i \in 1..18 PROVE AllFamilies[i] = names[i]
    <3>1. CASE i <= 7
      <4>1. i \in 1..7
        BY <3>1
      <4> QED BY <2>1, <2>8, <4>1
    <3>2. CASE ~(i <= 7)
      <4>1. i - 7 \in 1..11 /\ i - 7 + 7 = i
        BY <3>2
      <4>2. names[i - 7 + 7] = PrivSyscalls[i - 7]
        BY <2>2, <4>1
      <4> QED BY <2>8, <3>2, <4>1, <4>2
    <3> QED BY <3>1, <3>2
  <2> QED BY <2>9, <2>10
<1>4. /\ names[1] = "proc_exec" /\ names[2] = "proc_exit"
      /\ 1 \in 1..18 /\ 2 \in 1..18
  OBVIOUS
<1> HIDE DEF names
<1>5. AllFamilies[1] = "proc_exec" /\ AllFamilies[2] = "proc_exit"
  BY <1>3, <1>4
<1>6. \A i, j \in 1..18 : AllFamilies[i] = AllFamilies[j] => i = j
  BY <1>2, <1>3
<1>7. \A i \in 1..18 : AllFamilies[i] \in Droppable <=> i \in 3..18
  <2> TAKE i \in 1..18
  <2>1. AllFamilies[i] \in Range(AllFamilies)
    BY <1>3 DEF Range
  <2>2. AllFamilies[i] \in FloorFamilies <=> i = 1 \/ i = 2
    BY <1>4, <1>5, <1>6 DEF FloorFamilies
  <2> QED BY <2>1, <2>2 DEF Droppable
<1> QED BY <1>3, <1>5, <1>6, <1>7

\* The k-th of a finite set of numbers.
UpTo(S, i) == {j \in S : j <= i}

LEMMA CountsUpTo ==
  ASSUME NEW N \in Nat, NEW S \in SUBSET (1..N)
  PROVE  /\ IsFiniteSet(S) /\ Cardinality(S) \in 0..N
         /\ \A i \in Nat : IsFiniteSet(UpTo(S, i)) /\ Cardinality(UpTo(S, i)) \in 0..Cardinality(S)
         /\ \A i \in S : Cardinality(UpTo(S, i)) \in 1..Cardinality(S)
         /\ \A i, j \in S : j < i => Cardinality(UpTo(S, j)) < Cardinality(UpTo(S, i))
         /\ \A i \in S : Cardinality(UpTo(S, i)) = Cardinality(UpTo(S, i - 1)) + 1
         /\ \A i \in 1..N : i \notin S => UpTo(S, i) = UpTo(S, i - 1)
<1>1. IsFiniteSet(1..N) /\ Cardinality(1..N) = N
  BY FS_Interval
<1>2. /\ IsFiniteSet(S) /\ Cardinality(S) \in Nat /\ Cardinality(S) <= N
      /\ Cardinality(S) \in 0..N
  <2>1. IsFiniteSet(S) /\ Cardinality(S) <= Cardinality(1..N)
    BY <1>1, FS_Subset
  <2>2. Cardinality(S) \in Nat
    BY <2>1, FS_CardinalityType
  <2> QED BY <1>1, <2>1, <2>2
<1>3. ASSUME NEW T \in SUBSET S
      PROVE  IsFiniteSet(T) /\ Cardinality(T) \in Nat /\ Cardinality(T) <= Cardinality(S)
  <2>1. IsFiniteSet(T) /\ Cardinality(T) <= Cardinality(S)
    BY <1>2, FS_Subset
  <2> QED BY <2>1, FS_CardinalityType
<1>4. \A i : UpTo(S, i) \in SUBSET S
  BY DEF UpTo
<1>5. \A i \in Nat : IsFiniteSet(UpTo(S, i)) /\ Cardinality(UpTo(S, i)) \in 0..Cardinality(S)
  <2> TAKE i \in Nat
  <2>1. IsFiniteSet(UpTo(S, i)) /\ Cardinality(UpTo(S, i)) \in Nat
        /\ Cardinality(UpTo(S, i)) <= Cardinality(S)
    BY <1>3, <1>4
  <2> QED BY <1>2, <2>1
<1>6. ASSUME NEW i \in S PROVE Cardinality(UpTo(S, i)) = Cardinality(UpTo(S, i - 1)) + 1
  <2>1. i \in Nat /\ i - 1 \in Nat /\ \A j \in S : j \in Nat
    OBVIOUS
  <2>2. UpTo(S, i) = UpTo(S, i - 1) \cup {i} /\ i \notin UpTo(S, i - 1)
    <3>1. ~(i <= i - 1) /\ i <= i /\ \A j \in S : j <= i <=> j <= i - 1 \/ j = i
      BY <2>1
    <3> QED BY ONLY <3>1, i \in S, Zenon DEF UpTo
  <2>3. IsFiniteSet(UpTo(S, i - 1))
    BY <1>5, <2>1
  <2> QED BY <2>2, <2>3, FS_AddElement
<1>7. ASSUME NEW i \in S, NEW j \in S, j < i
      PROVE  Cardinality(UpTo(S, j)) < Cardinality(UpTo(S, i))
  <2>1. i \in Nat /\ j \in Nat /\ i - 1 \in Nat /\ \A x \in S : x \in Nat
    OBVIOUS
  <2>2. UpTo(S, j) \subseteq UpTo(S, i - 1)
    <3>1. \A x \in S : x <= j => x <= i - 1
      BY <1>7, <2>1
    <3> QED BY ONLY <3>1, Zenon DEF UpTo
  <2>3. IsFiniteSet(UpTo(S, i - 1)) /\ Cardinality(UpTo(S, i - 1)) \in Nat
    BY <1>5, <2>1
  <2>4. Cardinality(UpTo(S, j)) <= Cardinality(UpTo(S, i - 1)) /\ Cardinality(UpTo(S, j)) \in Nat
    BY <1>5, <2>1, <2>2, <2>3, FS_Subset
  <2> QED BY <1>6, <2>3, <2>4
<1>8. ASSUME NEW i \in S PROVE Cardinality(UpTo(S, i)) \in 1..Cardinality(S)
  <2>1. i \in Nat /\ i - 1 \in Nat
    OBVIOUS
  <2> QED BY <1>2, <1>5, <1>6, <2>1
<1>9. ASSUME NEW i \in 1..N, i \notin S PROVE UpTo(S, i) = UpTo(S, i - 1)
  <2>1. \A j \in S : j \in Nat /\ j # i
    BY <1>9
  <2>2. \A j \in S : j <= i <=> j <= i - 1
    BY <2>1
  <2> QED BY ONLY <2>2, Zenon DEF UpTo
<1> QED BY <1>2, <1>5, <1>6, <1>7, <1>8, <1>9

LEMMA SomeCount ==
  ASSUME NEW N \in Nat, NEW S \in SUBSET (1..N), NEW k \in 1..Cardinality(S)
  PROVE  \E i \in S : Cardinality(UpTo(S, i)) = k
<1> DEFINE T == {i \in 0..N : Cardinality(UpTo(S, i)) >= k}
<1>1. /\ Cardinality(S) \in Nat
      /\ \A i \in Nat : Cardinality(UpTo(S, i)) \in Nat
      /\ \A i \in S : Cardinality(UpTo(S, i)) = Cardinality(UpTo(S, i - 1)) + 1
      /\ \A i \in 1..N : i \notin S => UpTo(S, i) = UpTo(S, i - 1)
  BY CountsUpTo
<1>2. N \in T
  <2>1. UpTo(S, N) = S
    <3>1. \A j \in S : j <= N
      OBVIOUS
    <3> QED BY ONLY <3>1, Zenon DEF UpTo
  <2> QED BY <1>1, <2>1
<1>3. 0 \notin T
  <2>1. UpTo(S, 0) = {}
    <3>1. \A j \in S : ~(j <= 0)
      OBVIOUS
    <3> QED BY ONLY <3>1, Zenon DEF UpTo
  <2>2. Cardinality(UpTo(S, 0)) = 0
    BY <2>1, FS_EmptySet
  <2> QED BY <2>2
<1>4. PICK i \in T : \A j \in T : i <= j
  <2>1. T \subseteq Nat
    OBVIOUS
  <2> HIDE DEF T
  <2> QED BY <1>2, <2>1, LeastNatural
<1>5. i \in 1..N /\ i - 1 \in 0..N /\ Cardinality(UpTo(S, i)) >= k
  BY <1>3
<1>6. i - 1 \notin T
  BY <1>4, <1>5
<1>7. ~(Cardinality(UpTo(S, i - 1)) >= k)
  BY <1>5, <1>6
<1> HIDE DEF T
<1>8. i \in S
  BY <1>1, <1>5, <1>7
<1> QED BY <1>1, <1>5, <1>7, <1>8

-----------------------------------------------------------------------------
\* What AllBut leaves out, of what is still in.
LEMMA StillInIsFinite ==
  ASSUME NEW out \in SUBSET Droppable
  PROVE  /\ StillIn(out) \in SUBSET (3..18) /\ StillIn(out) \in SUBSET (1..18)
         /\ \A i \in 3..18 : i \in StillIn(out) <=> AllFamilies[i] \notin out
         /\ IsFiniteSet(StillIn(out)) /\ Cardinality(StillIn(out)) \in 0..16
<1>1. /\ StillIn(out) \in SUBSET (3..18)
      /\ \A i \in 3..18 : i \in StillIn(out) <=> AllFamilies[i] \notin out
  BY FamilyOrder DEF StillIn
<1>2. StillIn(out) \in SUBSET (1..18)
  BY <1>1
<1>3. IsFiniteSet(3..18) /\ Cardinality(3..18) = 16
  <2>1. 3 \in Int /\ 18 \in Int /\ ~(3 > 18) /\ 18 - 3 + 1 = 16
    OBVIOUS
  <2>2. \A a, b \in Int : IsFiniteSet(a..b) /\ (~(a > b) => Cardinality(a..b) = b - a + 1)
    BY FS_Interval
  <2> QED BY <2>1, <2>2
<1>4. IsFiniteSet(StillIn(out)) /\ Cardinality(StillIn(out)) <= 16
  BY <1>1, <1>3, FS_Subset
<1>5. Cardinality(StillIn(out)) \in Nat
  BY <1>4, FS_CardinalityType
<1> QED BY <1>1, <1>2, <1>4, <1>5

LEMMA PlaceIsCount == \A out, i : Place(out, i) = Cardinality(UpTo(StillIn(out), i))
BY DEF Place, UpTo

\* The families with later places than this one.
After(out, i) == {AllFamilies[j] : j \in {x \in StillIn(out) : x > i}}

LEMMA LeftOut ==
  ASSUME NEW out \in SUBSET Droppable
  PROVE  /\ \A k : out \subseteq AllBut(out, k) /\ AllBut(out, k) \in SUBSET Droppable
         /\ AllBut(out, 0) = Droppable
         /\ AllBut(out, Cardinality(StillIn(out))) = out
         /\ \A k \in 1..Cardinality(StillIn(out)) : \E i \in StillIn(out) :
              /\ AllBut(out, k) = out \cup After(out, i)
              /\ AllBut(out, k - 1) = out \cup After(out, i) \cup {AllFamilies[i]}
              /\ AllFamilies[i] \notin out \cup After(out, i)
<1> DEFINE S == StillIn(out)
           fam == AllFamilies
<1>1. /\ S \in SUBSET (1..18) /\ S \in SUBSET (3..18) /\ Cardinality(S) \in Nat
      /\ \A i \in 3..18 : i \in S <=> fam[i] \notin out
  BY StillInIsFinite
<1>2. /\ DOMAIN fam = 1..18
      /\ \A i, j \in 1..18 : fam[i] = fam[j] => i = j
      /\ \A i \in 1..18 : fam[i] \in Droppable <=> i \in 3..18
  BY FamilyOrder
<1>3. /\ \A i \in S : Place(out, i) \in 1..Cardinality(S)
      /\ \A i, j \in S : j < i => Place(out, j) < Place(out, i)
      /\ \A k \in 1..Cardinality(S) : \E i \in S : Place(out, i) = k
  <2>1. /\ \A i \in S : Cardinality(UpTo(S, i)) \in 1..Cardinality(S)
        /\ \A i, j \in S : j < i => Cardinality(UpTo(S, j)) < Cardinality(UpTo(S, i))
    BY <1>1, CountsUpTo
  <2>2. \A k \in 1..Cardinality(S) : \E i \in S : Cardinality(UpTo(S, i)) = k
    BY <1>1, SomeCount
  <2> QED BY <2>1, <2>2, PlaceIsCount
<1>4. \A k : AllBut(out, k) = out \cup {fam[i] : i \in {j \in S : Place(out, j) > k}}
  BY DEF AllBut
<1>5. \A i \in S : fam[i] \in Droppable /\ fam[i] \notin out /\ i \in 1..18
  BY <1>1, <1>2
<1>6. Droppable = out \cup {fam[i] : i \in S}
  <2>1. ASSUME NEW f \in Droppable, f \notin out PROVE \E i \in S : f = fam[i]
    <3>1. PICK i \in 1..18 : f = fam[i]
      BY <1>2 DEF Droppable, Range
    <3> QED BY <1>1, <1>2, <2>1, <3>1
  <2> QED BY <1>5, <2>1
<1> HIDE DEF S, fam
<1>7. \A k : out \subseteq AllBut(out, k) /\ AllBut(out, k) \in SUBSET Droppable
  BY <1>4, <1>6
<1>8. AllBut(out, 0) = Droppable
  <2>1. \A i \in S : Place(out, i) > 0
    BY <1>1, <1>3
  <2> QED BY <1>4, <1>6, <2>1
<1>9. AllBut(out, Cardinality(S)) = out
  <2>1. \A i \in S : ~(Place(out, i) > Cardinality(S))
    BY <1>1, <1>3
  <2> QED BY <1>4, <2>1
<1>10. ASSUME NEW k \in 1..Cardinality(S)
       PROVE  \E i \in S :
                /\ AllBut(out, k) = out \cup After(out, i)
                /\ AllBut(out, k - 1) = out \cup After(out, i) \cup {fam[i]}
                /\ fam[i] \notin out \cup After(out, i)
  <2>1. PICK i \in S : Place(out, i) = k
    BY <1>3
  <2>2. k \in Nat /\ i \in 1..18 /\ \A j \in S : j \in 1..18 /\ Place(out, j) \in Nat
    BY <1>1, <1>3
  <2>3. \A j \in S : Place(out, j) > k <=> j > i
    BY <1>3, <2>1, <2>2
  <2>4. \A j \in S : Place(out, j) > k - 1 <=> j > i \/ j = i
    BY <1>3, <2>1, <2>2
  <2>5. After(out, i) = {fam[j] : j \in {x \in S : x > i}}
    BY DEF After, S, fam
  <2>6. fam[i] \notin out \cup After(out, i)
    BY <1>2, <1>5, <2>2, <2>5
  <2>7. AllBut(out, k) = out \cup After(out, i)
    BY <1>4, <2>3, <2>5
  <2>8. AllBut(out, k - 1) = out \cup After(out, i) \cup {fam[i]}
    <3>1. {fam[j] : j \in {x \in S : Place(out, x) > k - 1}}
            = {fam[j] : j \in {x \in S : x > i}} \cup {fam[i]}
      BY <2>4
    <3> QED BY <1>4, <2>5, <3>1
  <2> QED BY <2>6, <2>7, <2>8
<1> QED BY <1>7, <1>8, <1>9, <1>10 DEF S, fam

LEMMA SizeOfOut ==
  ASSUME NEW out \in SUBSET Droppable
  PROVE  IsFiniteSet(out) /\ Cardinality(out) \in Nat
<1> DEFINE R == {AllFamilies[j] : j \in 1..18}
           g == [j \in 1..18 |-> AllFamilies[j]]
<1>1. g \in Surjection(1..18, R)
  BY DEF Surjection
<1>2. IsFiniteSet(R)
  <2> HIDE DEF R, g
  <2>1. ExistsSurjection(1..18, R)
    BY <1>1 DEF ExistsSurjection
  <2> QED BY <2>1, FS_NatSurjection
<1>3. out \subseteq R
  BY FamilyOrder DEF Droppable, Range
<1> HIDE DEF R
<1> QED BY <1>2, <1>3, FS_Subset, FS_CardinalityType

\* One family fewer is still in once one is left out.
LEMMA OneLess ==
  ASSUME NEW out \in SUBSET Droppable, NEW i \in StillIn(out)
  PROVE  /\ out \cup {AllFamilies[i]} \in SUBSET Droppable
         /\ Cardinality(StillIn(out \cup {AllFamilies[i]})) = Cardinality(StillIn(out)) - 1
         /\ IsFiniteSet(out)
         /\ Cardinality(out \cup {AllFamilies[i]}) = Cardinality(out) + 1
<1> DEFINE more == out \cup {AllFamilies[i]}
<1>1. i \in DOMAIN AllFamilies /\ AllFamilies[i] \in Droppable /\ AllFamilies[i] \notin out
  BY DEF StillIn
<1>2. more \in SUBSET Droppable
  BY <1>1
<1>3. StillIn(more) = StillIn(out) \ {i}
  BY FamilyOrder, <1>1 DEF StillIn
<1>4. IsFiniteSet(StillIn(out))
  BY StillInIsFinite
<1>5. Cardinality(StillIn(more)) = Cardinality(StillIn(out)) - 1
  BY <1>3, <1>4, FS_RemoveElement
<1>6. IsFiniteSet(out)
  BY SizeOfOut
<1>7. Cardinality(more) = Cardinality(out) + 1
  BY <1>1, <1>6, FS_AddElement
<1> QED BY <1>2, <1>5, <1>6, <1>7

\* The steps of a search: it halves the places in question, or leaves out the
\* family it has found.
Halves(host, s, t) ==
  /\ s.lo < s.hi
  /\ t.out = s.out /\ t.loads = s.loads + 1
  /\ \/ ProbeError(host, s) = "" /\ t.lo = Middle(s) + 1 /\ t.hi = s.hi
     \/ ProbeError(host, s) # "" /\ t.lo = s.lo /\ t.hi = Middle(s)

Drops(s, t, i) ==
  /\ s.lo = s.hi /\ i \in StillIn(s.out)
  /\ AllBut(s.out, s.lo) = s.out \cup After(s.out, i)
  /\ AllBut(s.out, s.lo - 1) = s.out \cup After(s.out, i) \cup {AllFamilies[i]}
  /\ t.out = s.out \cup {AllFamilies[i]} /\ Probed(s) = t.out
  /\ t.lo = 0 /\ t.hi = Cardinality(StillIn(t.out)) /\ t.loads = s.loads + 1

LEMMA SearchState ==
  ASSUME NEW s \in Searches
  PROVE  /\ s = [out |-> s.out, lo |-> s.lo, hi |-> s.hi, loads |-> s.loads]
         /\ s.out \in SUBSET Droppable /\ s.lo \in 0..16 /\ s.hi \in 0..16 /\ s.loads \in Nat
         /\ s.lo <= s.hi /\ s.hi <= Cardinality(StillIn(s.out))
         /\ Cardinality(StillIn(s.out)) \in 0..16
<1>1. /\ s \in [out : SUBSET Droppable, lo : Nat, hi : Nat, loads : Nat]
      /\ s.lo <= s.hi /\ s.hi <= Cardinality(StillIn(s.out))
  BY DEF Searches
<1>2. Cardinality(StillIn(s.out)) \in 0..16
  BY <1>1, StillInIsFinite
<1> QED BY <1>1, <1>2

LEMMA FromHere ==
  ASSUME NEW out \in SUBSET Droppable, NEW loads \in Nat
  PROVE  SearchFrom(out, loads) \in Searches
<1>1. Cardinality(StillIn(out)) \in Nat
  BY StillInIsFinite
<1> QED BY <1>1 DEF SearchFrom, Searches

LEMMA MiddleIsBetween ==
  ASSUME NEW s \in Searches, s.lo < s.hi
  PROVE  /\ Middle(s) \in s.lo..s.hi - 1 /\ Middle(s) \in 0..16
         /\ 2 * (Middle(s) - s.lo) <= s.hi - s.lo
         /\ 2 * (s.hi - (Middle(s) + 1)) <= s.hi - s.lo
BY SearchState DEF Middle

LEMMA FamilyFound ==
  ASSUME NEW s \in Searches, s.lo = s.hi, s.hi # 0
  PROVE  \E i \in StillIn(s.out) :
           /\ AllBut(s.out, s.lo) = s.out \cup After(s.out, i)
           /\ AllBut(s.out, s.lo - 1) = s.out \cup After(s.out, i) \cup {AllFamilies[i]}
           /\ Probed(s) = s.out \cup {AllFamilies[i]}
<1>1. s.out \in SUBSET Droppable /\ s.lo \in 1..Cardinality(StillIn(s.out))
  BY SearchState
<1>2. PICK i \in StillIn(s.out) :
        /\ AllBut(s.out, s.lo) = s.out \cup After(s.out, i)
        /\ AllBut(s.out, s.lo - 1) = s.out \cup After(s.out, i) \cup {AllFamilies[i]}
        /\ AllFamilies[i] \notin s.out \cup After(s.out, i)
  BY <1>1, LeftOut
<1>3. Probed(s) = s.out \cup (AllBut(s.out, s.lo - 1) \ AllBut(s.out, s.lo))
  BY <1>1 DEF Probed
<1>4. Probed(s) = s.out \cup {AllFamilies[i]}
  BY <1>2, <1>3
<1> QED BY <1>2, <1>4

LEMMA SearchMoves ==
  ASSUME NEW host, NEW s \in Searches, ~Ended(host, s)
  PROVE  /\ Further(host, s) \in Searches
         /\ \/ Halves(host, s, Further(host, s))
            \/ \E i : Drops(s, Further(host, s), i) /\ ProbeError(host, s) # ""
<1> DEFINE t == Further(host, s)
           err == ProbeError(host, s)
<1>1. /\ s = [out |-> s.out, lo |-> s.lo, hi |-> s.hi, loads |-> s.loads]
      /\ s.out \in SUBSET Droppable /\ s.lo \in 0..16 /\ s.hi \in 0..16 /\ s.loads \in Nat
      /\ s.lo <= s.hi /\ s.hi <= Cardinality(StillIn(s.out))
      /\ Cardinality(StillIn(s.out)) \in 0..16
  BY SearchState
<1>2. s.hi # 0 /\ (s.lo = s.hi => err # "")
  BY DEF Ended
<1>3. CASE s.lo < s.hi
  <2>1. Middle(s) \in s.lo..s.hi - 1 /\ Middle(s) \in 0..16 /\ s.lo # s.hi
    BY <1>1, <1>3, MiddleIsBetween
  <2>2. CASE err = ""
    <3>1. t = [out |-> s.out, lo |-> Middle(s) + 1, hi |-> s.hi, loads |-> s.loads + 1]
      BY <1>1, <2>1, <2>2 DEF Further
    <3> HIDE DEF t, err
    <3>2. t \in Searches
      BY <1>1, <2>1, <3>1 DEF Searches
    <3>3. Halves(host, s, t)
      BY <1>3, <2>2, <3>1 DEF Halves, err
    <3> QED BY <3>2, <3>3 DEF t
  <2>3. CASE err # ""
    <3>1. t = [out |-> s.out, lo |-> s.lo, hi |-> Middle(s), loads |-> s.loads + 1]
      BY <1>1, <2>1, <2>3 DEF Further
    <3> HIDE DEF t, err
    <3>2. t \in Searches
      BY <1>1, <2>1, <3>1 DEF Searches
    <3>3. Halves(host, s, t)
      BY <1>3, <2>3, <3>1 DEF Halves, err
    <3> QED BY <3>2, <3>3 DEF t
  <2> QED BY <2>2, <2>3
<1>4. CASE ~(s.lo < s.hi)
  <2>1. s.lo = s.hi
    BY <1>1, <1>4
  <2>2. PICK i \in StillIn(s.out) :
          /\ AllBut(s.out, s.lo) = s.out \cup After(s.out, i)
          /\ AllBut(s.out, s.lo - 1) = s.out \cup After(s.out, i) \cup {AllFamilies[i]}
          /\ Probed(s) = s.out \cup {AllFamilies[i]}
    BY <1>2, <2>1, FamilyFound
  <2>3. t = SearchFrom(Probed(s), s.loads + 1)
    BY <2>1 DEF Further
  <2>4. Probed(s) \in SUBSET Droppable
    BY <1>1, <2>2, OneLess
  <2>5. t \in Searches
    BY <1>1, <2>3, <2>4, FromHere
  <2>6. Drops(s, t, i)
    <3> HIDE DEF t
    <3> QED BY <2>1, <2>2, <2>3 DEF Drops, SearchFrom
  <2> QED BY <1>2, <2>1, <2>5, <2>6
<1> QED BY <1>3, <1>4

-----------------------------------------------------------------------------
\* The search as a table: every step leaves fewer families in, or fewer places in
\* question, so that it comes to an end.
SearchRank == [s \in Searches |-> 17 * Cardinality(StillIn(s.out)) + (s.hi - s.lo)]
EndedAt(host) == {s \in Searches : Ended(host, s)}
NextOf(host) == [s \in Searches |-> IF Ended(host, s) THEN s ELSE Further(host, s)]
EndsOf(host, first) == [s \in Searches |-> EndOf(host, s, first)]

LEMMA SearchEnds ==
  ASSUME NEW host
  PROVE  Descends(Searches, 288, SearchRank, EndedAt(host), NextOf(host))
<1>1. ASSUME NEW s \in Searches
      PROVE  17 * Cardinality(StillIn(s.out)) + (s.hi - s.lo) \in 0..288
  <2>1. /\ s.lo \in 0..16 /\ s.hi \in 0..16 /\ s.lo <= s.hi
        /\ Cardinality(StillIn(s.out)) \in 0..16
    BY SearchState
  <2> QED BY <2>1
<1>2. SearchRank \in [Searches -> 0..288]
  BY <1>1 DEF SearchRank
<1>3. NextOf(host) \in [Searches -> Searches]
  BY SearchMoves DEF NextOf
<1>4. ASSUME NEW s \in Searches \ EndedAt(host)
      PROVE  SearchRank[NextOf(host)[s]] < SearchRank[s]
  <2>1. s \in Searches /\ ~Ended(host, s)
    BY DEF EndedAt
  <2> PICK t \in Searches : t = Further(host, s)
    BY <2>1, SearchMoves
  <2>2. NextOf(host)[s] = t
    BY <2>1 DEF NextOf
  <2> DEFINE c == Cardinality(StillIn(s.out))
             d == Cardinality(StillIn(t.out))
  <2>3. /\ s.lo \in 0..16 /\ s.hi \in 0..16 /\ s.lo <= s.hi /\ c \in 0..16 /\ s.hi <= c
        /\ t.lo \in 0..16 /\ t.hi \in 0..16 /\ t.lo <= t.hi /\ d \in 0..16
        /\ s.out \in SUBSET Droppable
    BY SearchState
  <2>4. PICK p, q, x, y, a, b \in 0..16 :
          p = s.lo /\ q = s.hi /\ x = t.lo /\ y = t.hi /\ a = c /\ b = d
    BY <2>3
  <2>5. p <= q /\ x <= y
    BY <2>3, <2>4
  <2>6. 17 * b + (y - x) < 17 * a + (q - p)
    <3>1. CASE Halves(host, s, t)
      <4>1. p < q /\ a = b
        BY <2>4, <3>1 DEF Halves
      <4>2. PICK m \in 0..16 : m = Middle(s) /\ m \in p..q - 1
        BY <2>4, <4>1, MiddleIsBetween
      <4>3. (x = m + 1 /\ y = q) \/ (x = p /\ y = m)
        BY <2>4, <3>1, <4>2 DEF Halves
      <4>4. y - x < q - p
        BY <4>2, <4>3
      <4> QED BY <4>1, <4>4
    <3>2. ASSUME NEW i, Drops(s, t, i) PROVE 17 * b + (y - x) < 17 * a + (q - p)
      <4>1. i \in StillIn(s.out) /\ t.out = s.out \cup {AllFamilies[i]}
        BY <3>2 DEF Drops
      <4>2. b = a - 1
        BY <2>3, <2>4, <4>1, OneLess
      <4>3. p = q
        BY <2>4, <3>2 DEF Drops
      <4> QED BY <4>2, <4>3
    <3> QED BY <2>1, <3>1, <3>2, SearchMoves
  <2>7. SearchRank[t] = 17 * d + (t.hi - t.lo) /\ SearchRank[s] = 17 * c + (s.hi - s.lo)
    BY <2>1 DEF SearchRank
  <2> QED BY <2>2, <2>4, <2>6, <2>7
<1>5. EndedAt(host) \in SUBSET Searches
  BY DEF EndedAt
<1> QED BY <1>2, <1>3, <1>4, <1>5 DEF Descends

LEMMA SearchExists ==
  ASSUME NEW host, NEW first
  PROVE  \E f : f = [s \in Searches |->
                       IF Ended(host, s) THEN EndOf(host, s, first) ELSE f[Further(host, s)]]
<1> DEFINE V == {EndOf(host, s, first) : s \in Searches}
<1>1. EndsOf(host, first) \in [Searches -> V]
  BY DEF EndsOf
<1>2. PICK f : /\ f \in [Searches -> V]
               /\ GoesOnIn(Searches, EndedAt(host), NextOf(host), EndsOf(host, first), f)
  <2> HIDE DEF V
  <2> QED BY <1>1, SearchEnds, TailRecursionExists
<1>7. \A s \in Searches : f[s] = IF Ended(host, s) THEN EndOf(host, s, first)
                                 ELSE f[Further(host, s)]
  BY <1>2 DEF GoesOnIn, EndedAt, NextOf, EndsOf
<1>8. f = [s \in Searches |-> f[s]]
  BY <1>2
<1> QED BY <1>7, <1>8

\* What is true of each step of the search is true of where it ends.
LEMMA SearchInduction ==
  ASSUME NEW host, NEW first, IsRefusal(first),
         NEW I \in SUBSET Searches, SearchFrom({}, 2) \in I,
         \A s \in I : ~Ended(host, s) => Further(host, s) \in I,
         NEW R, \A s \in I : Ended(host, s) => EndOf(host, s, first) \in R
  PROVE  DegradeFamilies(host, first) \in R
<1> DEFINE Search(f) ==
             f = [s \in Searches |->
                    IF Ended(host, s) THEN EndOf(host, s, first) ELSE f[Further(host, s)]]
           search == CHOOSE f : Search(f)
<1>1. Search(search)
  <2>1. \E f : Search(f)
    BY SearchExists
  <2> HIDE DEF Search
  <2> QED BY <2>1
<1>2. DegradeFamilies(host, first) = search[SearchFrom({}, 2)]
  BY Zenon DEF DegradeFamilies
<1> HIDE DEF search
<1>3. \A s \in Searches : search[s] = IF Ended(host, s) THEN EndOf(host, s, first)
                                      ELSE search[Further(host, s)]
  BY <1>1
<1>4. GoesOnIn(Searches, EndedAt(host), NextOf(host), EndsOf(host, first), search)
  BY <1>3 DEF GoesOnIn, EndedAt, NextOf, EndsOf
<1>5. KeptIn(I, Searches, EndedAt(host), NextOf(host))
  BY DEF KeptIn, EndedAt, NextOf
<1>6. \A s \in I \cap EndedAt(host) : EndsOf(host, first)[s] \in R
  BY DEF EndedAt, EndsOf
<1>7. \A s \in I : search[s] \in R
  BY ONLY <1>4, <1>5, <1>6, SearchEnds, TailInduction
<1> QED BY <1>2, <1>7

-----------------------------------------------------------------------------
\* What the loads of a host say.
Refuses(host, out) == \E together \in host.refuses : together \cap out = {}
Spurious(host) == host.failsAt # 0 /\ IsRefusal(host.failsWith)

LEMMA RefusesLess ==
  ASSUME NEW host, NEW out, NEW more, out \subseteq more, Refuses(host, more)
  PROVE  Refuses(host, out)
BY DEF Refuses

LEMMA LoadSays ==
  ASSUME NEW host \in Hosts, ~Spurious(host), NEW out, NEW n, n # 0
  PROVE  /\ LoadError(host, out, n) = "" => ~Refuses(host, out) /\ host.failsAt # n
         /\ LoadError(host, out, n) # "" /\ IsRefusal(LoadError(host, out, n))
              => Refuses(host, out) /\ host.failsAt # n
         /\ LoadError(host, out, n) # "" /\ ~IsRefusal(LoadError(host, out, n))
              => host.failsAt # 0
<1>1. CASE host.failsAt = n
  <2>1. LoadError(host, out, n) = host.failsWith /\ host.failsWith # ""
    BY <1>1, HostsAssumption DEF LoadError
  <2>2. ~IsRefusal(host.failsWith)
    BY <1>1 DEF Spurious
  <2> QED BY <1>1, <2>1, <2>2
<1>2. CASE host.failsAt # n
  <2>1. LoadError(host, out, n) = IF Refuses(host, out) THEN "EINVAL" ELSE ""
    BY <1>2 DEF LoadError, Refuses
  <2>2. IsRefusal("EINVAL") /\ "EINVAL" # ""
    BY DEF IsRefusal
  <2> QED BY <1>2, <2>1, <2>2
<1> QED BY <1>1, <1>2

LEMMA LoadedSays ==
  \A out, loads : /\ Loaded(out, loads).ok /\ Loaded(out, loads).out = out
                  /\ Loaded(out, loads).loads = loads
BY DEF Loaded

LEMMA FirstLoadSays ==
  ASSUME NEW host \in Hosts, ~Spurious(host), NEW first, first = LoadError(host, {}, 1)
  PROVE  /\ first = "" => ~Refuses(host, {}) /\ host.failsAt # 1
         /\ first # "" /\ IsRefusal(first) => Refuses(host, {}) /\ host.failsAt # 1
         /\ first # "" /\ ~IsRefusal(first) => host.failsAt # 0
<1> PICK n, out : n = 1 /\ out = {}
  OBVIOUS
<1>1. n # 0
  OBVIOUS
<1> QED BY <1>1, LoadSays

\* A family left out would be refused with those left in after it, and nothing
\* would be that has none of those before it.
Later(i) == {AllFamilies[j] : j \in i + 1..18}

Justified(host, out, i) ==
  /\ Refuses(host, (out \ {AllFamilies[i]}) \cup Later(i))
  /\ ~Refuses(host, out \cup Later(i))

AllJustified(host, out) ==
  \A i \in 1..18 : AllFamilies[i] \in out => Justified(host, out, i)

LEMMA FoundIsJustified ==
  ASSUME NEW host, NEW out \in SUBSET Droppable, NEW i \in StillIn(out),
         AllJustified(host, out), Refuses(host, out \cup After(out, i)),
         ~Refuses(host, out \cup After(out, i) \cup {AllFamilies[i]})
  PROVE  AllJustified(host, out \cup {AllFamilies[i]})
<1> DEFINE f == AllFamilies[i]
           more == out \cup {f}
<1>1. /\ StillIn(out) \in SUBSET (3..18)
      /\ \A j \in 3..18 : j \in StillIn(out) <=> AllFamilies[j] \notin out
  BY StillInIsFinite
<1>2. f \notin out /\ i \in 3..18 /\ i \in 1..18
  BY <1>1
<1>3. out \cup After(out, i) = out \cup Later(i)
  <2>1. \A j \in i + 1..18 : j \in 3..18 /\ j > i
    BY <1>2
  <2>2. \A j \in StillIn(out) : j > i => j \in i + 1..18
    BY <1>1, <1>2
  <2> QED BY <1>1, <2>1, <2>2 DEF After, Later
<1>4. Refuses(host, out \cup Later(i)) /\ ~Refuses(host, more \cup Later(i))
  <2>1. more \cup Later(i) = out \cup After(out, i) \cup {f}
    BY <1>3
  <2> QED BY <1>3, <2>1
<1>5. Justified(host, more, i)
  <2>1. more \ {f} = out
    BY <1>2
  <2> QED BY <1>4, <2>1 DEF Justified
<1>6. ASSUME NEW j \in 1..18, AllFamilies[j] \in out PROVE Justified(host, more, j)
  <2>1. Justified(host, out, j)
    BY <1>6 DEF AllJustified
  <2>2. i > j
    <3>1. j # i
      BY <1>2, <1>6
    <3>2. ASSUME i < j PROVE FALSE
      <4>1. \A x \in j + 1..18 : x \in i + 1..18
        BY <1>2, <3>2
      <4>2. out \cup Later(j) \subseteq out \cup Later(i)
        BY <4>1 DEF Later
      <4>3. Refuses(host, out \cup Later(j))
        BY <1>4, <4>2, RefusesLess
      <4> QED BY <2>1, <4>3 DEF Justified
    <3> QED BY <1>2, <3>1, <3>2
  <2>3. f \in Later(j)
    <3>1. i \in j + 1..18
      BY <1>2, <2>2
    <3> QED BY <3>1 DEF Later
  <2>4. /\ (more \ {AllFamilies[j]}) \cup Later(j) = (out \ {AllFamilies[j]}) \cup Later(j)
        /\ more \cup Later(j) = out \cup Later(j)
    BY <2>3
  <2> QED BY <2>1, <2>4 DEF Justified
<1>7. ASSUME NEW j \in 1..18, AllFamilies[j] = f PROVE j = i
  BY <1>2, <1>7, FamilyOrder
<1> QED BY <1>5, <1>6, <1>7 DEF AllJustified

-----------------------------------------------------------------------------
\* The loads a search by halves still takes at most.
Halvings(d) ==
  IF d <= 0 THEN 0 ELSE IF d <= 1 THEN 1 ELSE IF d <= 3 THEN 2 ELSE IF d <= 7 THEN 3
  ELSE IF d <= 15 THEN 4 ELSE 5

LEMMA HalvingsCount ==
  /\ \A d \in 0..16 : Halvings(d) \in 0..5
  /\ \A d \in 1..16, e \in 0..16 : 2 * e <= d => Halvings(e) + 1 <= Halvings(d)
BY DEF Halvings

Cheap(s) ==
  /\ s.loads >= 2
  /\ s.loads + Halvings(s.hi - s.lo) <= 7 + 6 * Cardinality(s.out)

\* Where a search has come to, on a host whose refusals are refusals.
Searched(host, s) ==
  /\ Refuses(host, AllBut(s.out, s.hi))
  /\ s.lo # 0 => ~Refuses(host, AllBut(s.out, s.lo - 1))
  /\ host.failsAt \notin 1..s.loads - 1
  /\ AllJustified(host, s.out)

LEMMA CheapStep ==
  ASSUME NEW host, NEW s \in Searches, Cheap(s), ~Ended(host, s)
  PROVE  Cheap(Further(host, s))
<1> PICK t : t = Further(host, s)
  OBVIOUS
<1>1. /\ t \in Searches
      /\ Halves(host, s, t) \/ \E i : Drops(s, t, i)
  BY SearchMoves
<1>2. PICK p, q, x, y \in 0..16 : p = s.lo /\ q = s.hi /\ x = t.lo /\ y = t.hi
  BY <1>1, SearchState
<1>3. s.loads \in Nat /\ s.out \in SUBSET Droppable /\ p <= q /\ x <= y
  BY <1>1, <1>2, SearchState
<1>4. PICK c \in Nat : c = Cardinality(s.out)
  BY <1>3, SizeOfOut
<1>5. s.loads >= 2 /\ s.loads + Halvings(q - p) <= 7 + 6 * c
  BY <1>2, <1>4 DEF Cheap
<1>6. q - p \in 0..16 /\ y - x \in 0..16
  <2>1. \A a, b \in 0..16 : a <= b => b - a \in 0..16
    OBVIOUS
  <2> QED BY <1>3, <2>1
<1>7. Halvings(q - p) \in 0..5 /\ Halvings(y - x) \in 0..5
  BY <1>6, HalvingsCount
<1>8. CASE Halves(host, s, t)
  <2>1. t.out = s.out /\ t.loads = s.loads + 1 /\ p < q
    BY <1>2, <1>8 DEF Halves
  <2>2. PICK m \in 0..16 : m = Middle(s) /\ 2 * (m - p) <= q - p /\ 2 * (q - (m + 1)) <= q - p
    BY <1>2, <2>1, MiddleIsBetween
  <2>3. (x = m + 1 /\ y = q) \/ (x = p /\ y = m)
    BY <1>2, <1>8, <2>2 DEF Halves
  <2>4. 2 * (y - x) <= q - p /\ q - p \in 1..16
    BY <1>6, <2>1, <2>2, <2>3
  <2>5. Halvings(y - x) + 1 <= Halvings(q - p)
    BY <1>6, <2>4, HalvingsCount
  <2>6. t.loads >= 2 /\ t.loads + Halvings(y - x) <= 7 + 6 * c
    BY <1>3, <1>5, <1>7, <2>1, <2>5
  <2> QED BY <1>2, <1>4, <2>1, <2>6 DEF Cheap
<1>9. ASSUME NEW i, Drops(s, t, i) PROVE Cheap(t)
  <2>1. t.out = s.out \cup {AllFamilies[i]} /\ i \in StillIn(s.out) /\ t.loads = s.loads + 1
    BY <1>9 DEF Drops
  <2>2. Cardinality(t.out) = c + 1
    BY <1>3, <1>4, <2>1, OneLess
  <2>3. t.loads >= 2 /\ t.loads + Halvings(y - x) <= 7 + 6 * (c + 1)
    BY <1>3, <1>5, <1>7, <2>1
  <2> QED BY <1>2, <2>2, <2>3 DEF Cheap
<1> QED BY <1>1, <1>8, <1>9

LEMMA SearchedStep ==
  ASSUME NEW host \in Hosts, ~Spurious(host), NEW s \in Searches, s.loads >= 2,
         Searched(host, s), ~Ended(host, s)
  PROVE  Searched(host, Further(host, s))
<1> PICK t : t = Further(host, s)
  OBVIOUS
<1>1. /\ t \in Searches
      /\ \/ Halves(host, s, t)
         \/ \E i : Drops(s, t, i) /\ ProbeError(host, s) # ""
  BY SearchMoves
<1>2. s.loads \in Nat /\ s.loads # 0 /\ s.out \in SUBSET Droppable
  BY SearchState
<1>3. ProbeError(host, s) # "" => IsRefusal(ProbeError(host, s))
  BY DEF Ended
<1>4. /\ ProbeError(host, s) = "" => ~Refuses(host, Probed(s))
      /\ ProbeError(host, s) # "" => Refuses(host, Probed(s))
      /\ host.failsAt # s.loads
  BY <1>2, <1>3, LoadSays DEF ProbeError
<1>5. ASSUME t.loads = s.loads + 1 PROVE host.failsAt \notin 1..t.loads - 1
  <2>1. \A n \in 1..t.loads - 1 : n \in 1..s.loads - 1 \/ n = s.loads
    BY <1>2, <1>5
  <2> QED BY <1>4, <2>1 DEF Searched
<1>6. CASE Halves(host, s, t)
  <2>1. t.out = s.out /\ t.loads = s.loads + 1 /\ s.lo < s.hi
    BY <1>6 DEF Halves
  <2>2. Probed(s) = AllBut(s.out, Middle(s)) /\ Middle(s) \in Nat
    BY <2>1, MiddleIsBetween DEF Probed
  <2>3. CASE ProbeError(host, s) = "" /\ t.lo = Middle(s) + 1 /\ t.hi = s.hi
    <3>1. t.lo - 1 = Middle(s)
      <4>1. PICK m \in Nat : m = Middle(s)
        BY <2>2
      <4>2. PICK x : x = t.lo
        OBVIOUS
      <4>3. x = m + 1
        BY <2>3, <4>1, <4>2
      <4>4. x - 1 = m
        BY ONLY m \in Nat, <4>3
      <4> QED BY <4>1, <4>2, <4>4
    <3> QED BY <1>4, <1>5, <2>1, <2>2, <2>3, <3>1 DEF Searched
  <2>4. CASE ProbeError(host, s) # "" /\ t.lo = s.lo /\ t.hi = Middle(s)
    BY <1>4, <1>5, <2>1, <2>2, <2>4 DEF Searched
  <2> QED BY <1>6, <2>3, <2>4 DEF Halves
<1>7. ASSUME NEW i, Drops(s, t, i), ProbeError(host, s) # "" PROVE Searched(host, t)
  <2>1. /\ s.lo = s.hi /\ i \in StillIn(s.out)
        /\ AllBut(s.out, s.lo) = s.out \cup After(s.out, i)
        /\ AllBut(s.out, s.lo - 1) = s.out \cup After(s.out, i) \cup {AllFamilies[i]}
        /\ t.out = s.out \cup {AllFamilies[i]} /\ Probed(s) = t.out
        /\ t.lo = 0 /\ t.hi = Cardinality(StillIn(t.out)) /\ t.loads = s.loads + 1
    BY <1>7 DEF Drops
  <2>2. s.lo # 0
    BY <2>1 DEF Ended
  <2>3. AllJustified(host, t.out)
    <3>1. /\ Refuses(host, s.out \cup After(s.out, i)) /\ AllJustified(host, s.out)
          /\ ~Refuses(host, s.out \cup After(s.out, i) \cup {AllFamilies[i]})
      BY <2>1, <2>2 DEF Searched
    <3>2. AllJustified(host, s.out \cup {AllFamilies[i]})
      BY <1>2, <2>1, <3>1, FoundIsJustified
    <3> QED BY <2>1, <3>2
  <2>4. AllBut(t.out, t.hi) = t.out
    BY <1>2, <2>1, OneLess, LeftOut
  <2>5. Refuses(host, AllBut(t.out, t.hi))
    BY <1>4, <1>7, <2>1, <2>4
  <2> QED BY <1>5, <2>1, <2>3, <2>5 DEF Searched
<1> QED BY <1>1, <1>6, <1>7

LEMMA BothStart ==
  ASSUME NEW host
  PROVE  /\ SearchFrom({}, 2) \in Searches
         /\ Cheap(SearchFrom({}, 2))
         /\ Refuses(host, {}) /\ host.failsAt # 1 => Searched(host, SearchFrom({}, 2))
<1> PICK s : s = SearchFrom({}, 2)
  OBVIOUS
<1>1. s.out = {} /\ s.lo = 0 /\ s.hi = Cardinality(StillIn({})) /\ s.loads = 2
  BY DEF SearchFrom
<1>2. {} \in SUBSET Droppable /\ s \in Searches
  BY FromHere
<1>3. s.hi \in 0..16 /\ s.hi - s.lo = s.hi
  BY <1>1, <1>2, SearchState
<1>4. Halvings(s.hi - s.lo) \in 0..5 /\ Cardinality(s.out) = 0
  BY <1>1, <1>3, HalvingsCount, FS_EmptySet
<1>5. Cheap(s)
  BY <1>1, <1>4 DEF Cheap
<1>6. ASSUME Refuses(host, {}), host.failsAt # 1 PROVE Searched(host, s)
  <2>1. AllBut(s.out, s.hi) = {}
    BY <1>1, <1>2, LeftOut
  <2>2. \A n \in 1..s.loads - 1 : n = 1
    BY <1>1
  <2>3. AllJustified(host, s.out)
    BY <1>1 DEF AllJustified
  <2> QED BY <1>1, <1>6, <2>1, <2>2, <2>3 DEF Searched
<1> QED BY <1>2, <1>5, <1>6

\* However many families are left out, each costs one search by halves.
LEMMA DegradingIsCheap ==
  ASSUME NEW host, NEW first, NEW load, load = DegradeFamilies(host, first), load.ok
  PROVE  load.out \in SUBSET Droppable /\ load.loads <= 1 + 6 * Cardinality(load.out)
<1> DEFINE I == {s \in Searches : Cheap(s)}
           R == {x \in {EndOf(host, s, first) : s \in Searches} :
                   x.ok => /\ x.out \in SUBSET Droppable
                           /\ x.loads <= 1 + 6 * Cardinality(x.out)}
<1>1. IsRefusal(first)
  <2>1. ~IsRefusal(first) => DegradeFamilies(host, first) = NotLoaded(first)
    BY Zenon DEF DegradeFamilies
  <2>2. ~NotLoaded(first).ok
    BY DEF NotLoaded
  <2> QED BY <2>1, <2>2
<1>2. SearchFrom({}, 2) \in I
  BY BothStart
<1>3. \A s \in I : ~Ended(host, s) => Further(host, s) \in I
  BY CheapStep, SearchMoves
<1>4. ASSUME NEW s \in I, Ended(host, s) PROVE EndOf(host, s, first) \in R
  <2>1. s \in Searches /\ Cheap(s)
    OBVIOUS
  <2>2. ASSUME EndOf(host, s, first).ok
        PROVE  /\ EndOf(host, s, first).out \in SUBSET Droppable
               /\ EndOf(host, s, first).loads <= 1 + 6 * Cardinality(EndOf(host, s, first).out)
    <3>1. s.hi # 0 /\ ProbeError(host, s) = ""
      BY <2>2 DEF EndOf, NotLoaded
    <3>2. EndOf(host, s, first) = Loaded(Probed(s), s.loads)
      BY <3>1 DEF EndOf
    <3>3. s.lo = s.hi
      BY <1>4, <3>1 DEF Ended
    <3>4. PICK i \in StillIn(s.out) : Probed(s) = s.out \cup {AllFamilies[i]}
      BY <2>1, <3>1, <3>3, FamilyFound
    <3>5. s.out \in SUBSET Droppable /\ s.loads \in Nat /\ s.hi \in 0..16
      BY <2>1, SearchState
    <3>6. PICK c \in Nat : c = Cardinality(s.out)
      BY <3>5, SizeOfOut
    <3>7. Probed(s) \in SUBSET Droppable /\ Cardinality(Probed(s)) = c + 1
      BY <3>4, <3>5, <3>6, OneLess
    <3>8. Halvings(s.hi - s.lo) = 0
      BY <3>3, <3>5 DEF Halvings
    <3>9. s.loads <= 1 + 6 * (c + 1)
      BY <2>1, <3>5, <3>6, <3>8 DEF Cheap
    <3>10. /\ EndOf(host, s, first).out = Probed(s)
           /\ EndOf(host, s, first).loads = s.loads
      BY <3>2, LoadedSays
    <3> QED BY <3>7, <3>9, <3>10
  <2> QED BY <2>1, <2>2
<1>5. DegradeFamilies(host, first) \in R
  <2>1. I \in SUBSET Searches
    OBVIOUS
  <2> HIDE DEF I, R
  <2> QED BY <1>1, <1>2, <1>3, <1>4, <2>1, SearchInduction
<1> QED BY <1>5

\* Each family left out had to be, and the rest loads.
LEMMA DegradingIsSound ==
  ASSUME NEW host \in Hosts, ~Spurious(host), Refuses(host, {}), host.failsAt # 1,
         NEW first, IsRefusal(first), NEW load, load = DegradeFamilies(host, first)
  PROVE  IF load.ok
         THEN /\ ~Refuses(host, load.out)
              /\ \A f \in load.out : Refuses(host, load.out \ {f})
              /\ host.failsAt \notin 1..load.loads
         ELSE host.failsAt # 0 \/ Refuses(host, Droppable)
<1> DEFINE I == {s \in Searches : Cheap(s) /\ Searched(host, s)}
           Good(x) == IF x.ok
                      THEN /\ ~Refuses(host, x.out)
                           /\ \A f \in x.out : Refuses(host, x.out \ {f})
                           /\ host.failsAt \notin 1..x.loads
                      ELSE host.failsAt # 0 \/ Refuses(host, Droppable)
           R == {x \in {EndOf(host, s, first) : s \in Searches} : Good(x)}
<1>1. SearchFrom({}, 2) \in I
  BY BothStart
<1>2. \A s \in I : ~Ended(host, s) => Further(host, s) \in I
  BY CheapStep, SearchedStep, SearchMoves DEF Cheap
<1>3. ASSUME NEW s \in I, Ended(host, s) PROVE EndOf(host, s, first) \in R
  <2>1. s \in Searches /\ Cheap(s) /\ Searched(host, s)
    OBVIOUS
  <2> HIDE DEF I
  <2>2. s.out \in SUBSET Droppable /\ s.loads \in Nat /\ s.hi \in 0..16 /\ s.loads # 0
    BY <2>1, SearchState DEF Cheap
  <2>3. CASE s.hi = 0
    <3>1. EndOf(host, s, first) = NotLoaded(first)
      BY <2>3 DEF EndOf
    <3>2. Refuses(host, Droppable)
      BY <2>1, <2>2, <2>3, LeftOut DEF Searched
    <3> QED BY <2>1, <3>1, <3>2 DEF NotLoaded
  <2>4. CASE s.hi # 0 /\ ProbeError(host, s) # ""
    <3>1. EndOf(host, s, first) = NotLoaded(ProbeError(host, s))
      BY <2>4 DEF EndOf
    <3>2. ~IsRefusal(ProbeError(host, s))
      BY <1>3, <2>4 DEF Ended
    <3>3. host.failsAt # 0
      BY <2>2, <2>4, <3>2, LoadSays DEF ProbeError
    <3> QED BY <2>1, <3>1, <3>3 DEF NotLoaded
  <2>5. CASE s.hi # 0 /\ ProbeError(host, s) = ""
    <3>1. EndOf(host, s, first) = Loaded(Probed(s), s.loads)
      BY <2>5 DEF EndOf
    <3>2. s.lo = s.hi
      BY <1>3, <2>5 DEF Ended
    <3>3. PICK i \in StillIn(s.out) :
            /\ AllBut(s.out, s.lo) = s.out \cup After(s.out, i)
            /\ AllBut(s.out, s.lo - 1) = s.out \cup After(s.out, i) \cup {AllFamilies[i]}
            /\ Probed(s) = s.out \cup {AllFamilies[i]}
      BY <2>1, <2>5, <3>2, FamilyFound
    <3> PICK out : out = Probed(s)
      OBVIOUS
    <3>4. ~Refuses(host, out) /\ host.failsAt # s.loads
      BY <2>2, <2>5, LoadSays DEF ProbeError
    <3>5. AllJustified(host, out)
      <4>1. /\ Refuses(host, s.out \cup After(s.out, i)) /\ AllJustified(host, s.out)
            /\ ~Refuses(host, s.out \cup After(s.out, i) \cup {AllFamilies[i]})
        BY <2>1, <2>5, <3>2, <3>3 DEF Searched
      <4> QED BY <2>2, <3>3, <4>1, FoundIsJustified
    <3>6. out \in SUBSET Droppable
      BY <2>2, <3>3, OneLess
    <3>7. ASSUME NEW f \in out PROVE Refuses(host, out \ {f})
      <4>1. PICK j \in 1..18 : f = AllFamilies[j]
        BY <3>6, FamilyOrder DEF Droppable, Range
      <4>2. Refuses(host, (out \ {f}) \cup Later(j))
        BY <3>5, <4>1 DEF AllJustified, Justified
      <4> QED BY <4>2, RefusesLess
    <3>8. host.failsAt \notin 1..s.loads
      <4>1. \A n \in 1..s.loads : n \in 1..s.loads - 1 \/ n = s.loads
        BY <2>2
      <4> QED BY <2>1, <3>4, <4>1 DEF Searched
    <3>9. Good(EndOf(host, s, first))
      <4> PICK x : x = EndOf(host, s, first)
        OBVIOUS
      <4>1. x.ok /\ x.out = out /\ x.loads = s.loads
        BY <3>1, LoadedSays
      <4>2. Good(x)
        BY <3>4, <3>7, <3>8, <4>1
      <4> HIDE DEF Good
      <4> QED BY <4>2
    <3> QED BY <2>1, <3>9
  <2> QED BY <2>3, <2>4, <2>5
<1>4. DegradeFamilies(host, first) \in R
  <2>1. I \in SUBSET Searches
    OBVIOUS
  <2> HIDE DEF I, R
  <2> QED BY <1>1, <1>2, <1>3, <2>1, SearchInduction
<1> QED BY <1>4

\* Of the families the kernel refuses no more is left out than has to be, in no
\* more loads than a search by halves takes, on any host: whichever families the
\* verifier refuses alone or together, and whatever else fails at any load.
\* degrade.go, degradeFamilies; loader_linux.go, Load and loadDegraded.
THEOREM LoadsAreMaximal == Spec => []LoadIsMaximal
<1>1. ASSUME NEW host \in Hosts, NEW load, load = Load(host)
      PROVE  IF load.ok
             THEN /\ load.out \cap FloorFamilies = {}
                  /\ load.loads <= 1 + 6 * Cardinality(load.out)
                  /\ ~Spurious(host) =>
                       /\ ~Refuses(host, load.out)
                       /\ \A f \in load.out : Refuses(host, load.out \ {f})
                       /\ host.failsAt \notin 1..load.loads
             ELSE \/ host.faults \cap Range(Preconditions) # {}
                  \/ host.failsAt # 0
                  \/ Refuses(host, Droppable)
  <2> DEFINE broken == {i \in DOMAIN Preconditions : Preconditions[i] \in host.faults}
             first == LoadError(host, {}, 1)
  <2>1. CASE broken # {}
    <3>1. load = NotLoaded(Preconditions[CHOOSE i \in broken : \A j \in broken : i <= j])
      BY <1>1, <2>1, Zenon DEF Load
    <3>2. host.faults \cap Range(Preconditions) # {}
      BY <2>1 DEF Range
    <3>3. ~load.ok
      BY <3>1 DEF NotLoaded
    <3> QED BY <3>2, <3>3
  <2>2. CASE broken = {} /\ first = ""
    <3>1. load = Loaded({}, 1)
      BY <1>1, <2>2, Zenon DEF Load
    <3>2. load.ok /\ load.out = {} /\ load.loads = 1
      BY <3>1 DEF Loaded
    <3>3. load.loads <= 1 + 6 * Cardinality(load.out)
      BY <3>2, FS_EmptySet
    <3>4. ~Spurious(host) => ~Refuses(host, {}) /\ host.failsAt # 1
      BY <2>2, FirstLoadSays
    <3>5. host.failsAt \in 1..1 => host.failsAt = 1
      OBVIOUS
    <3> QED BY <3>2, <3>3, <3>4, <3>5
  <2>3. CASE broken = {} /\ first # ""
    <3>1. load = DegradeFamilies(host, first)
      BY <1>1, <2>3, Zenon DEF Load
    <3>2. load.ok => /\ load.out \in SUBSET Droppable
                     /\ load.loads <= 1 + 6 * Cardinality(load.out)
      BY <3>1, DegradingIsCheap
    <3>3. load.ok => load.out \cap FloorFamilies = {}
      BY <3>2 DEF Droppable
    <3>4. ~IsRefusal(first) => load = NotLoaded(first)
      BY <3>1, Zenon DEF DegradeFamilies
    <3>5. ~IsRefusal(first) => ~load.ok
      BY <3>4 DEF NotLoaded
    <3>6. CASE Spurious(host)
      BY <3>2, <3>3, <3>6 DEF Spurious
    <3>7. CASE ~Spurious(host) /\ ~IsRefusal(first)
      <4>1. host.failsAt # 0
        <5> PICK err : err = first
          OBVIOUS
        <5>1. err # "" /\ ~IsRefusal(err) /\ err = LoadError(host, {}, 1)
          BY <2>3, <3>7
        <5> HIDE DEF first
        <5> QED BY <3>7, <5>1, FirstLoadSays, Zenon
      <4> QED BY <3>5, <3>7, <4>1
    <3>8. CASE ~Spurious(host) /\ IsRefusal(first)
      <4>1. Refuses(host, {}) /\ host.failsAt # 1
        BY <2>3, <3>8, FirstLoadSays
      <4>2. IF load.ok
            THEN /\ ~Refuses(host, load.out)
                 /\ \A f \in load.out : Refuses(host, load.out \ {f})
                 /\ host.failsAt \notin 1..load.loads
            ELSE host.failsAt # 0 \/ Refuses(host, Droppable)
        BY <3>1, <3>8, <4>1, DegradingIsSound
      <4> QED BY <3>2, <3>3, <4>2
    <3> QED BY <3>6, <3>7, <3>8
  <2> QED BY <2>1, <2>2, <2>3
<1>2. LoadIsMaximal
  BY <1>1, Zenon DEF LoadIsMaximal, Refuses, Spurious
<1> QED BY <1>2, PTL

-----------------------------------------------------------------------------
\* Programs and families.

LEMMA JoinedRange ==
  ASSUME NEW m \in Nat, NEW n \in Nat, NEW s, NEW t,
         s = [i \in 1..m |-> s[i]], t = [i \in 1..n |-> t[i]]
  PROVE  /\ DOMAIN (s \o t) = 1..m + n
         /\ s \o t = [i \in 1..m + n |-> (s \o t)[i]]
         /\ Range(s \o t) = Range(s) \cup Range(t)
<1> DEFINE S == Range(s) \cup Range(t)
<1>1. DOMAIN s = 1..m /\ DOMAIN t = 1..n
  OBVIOUS
<1>2. s \in [1..m -> S] /\ t \in [1..n -> S]
  <2>1. (\A i \in 1..m : s[i] \in S) /\ \A i \in 1..n : t[i] \in S
    BY <1>1 DEF Range
  <2> HIDE DEF S
  <2> QED BY <2>1
<1> HIDE DEF S
<1>3. s \in Seq(S) /\ t \in Seq(S) /\ Len(s) = m /\ Len(t) = n
  BY <1>2, TupleIsSequence
<1>4. /\ s \o t \in Seq(S) /\ Len(s \o t) = Len(s) + Len(t)
      /\ \A i \in 1..Len(s) + Len(t) : (s \o t)[i] = IF i <= Len(s) THEN s[i] ELSE t[i - Len(s)]
  BY ONLY <1>3, ConcatProperties
<1>5. Len(s) + Len(t) = m + n
  BY <1>3
<1>6. /\ \A i \in 1..m + n : (s \o t)[i] = IF i <= m THEN s[i] ELSE t[i - m]
      /\ DOMAIN (s \o t) = 1..m + n
  BY <1>3, <1>4, <1>5, LenProperties
<1>7. s \o t \in [1..m + n -> S]
  BY <1>4, <1>5, SeqDef, LenProperties
<1>8. \A i \in 1..m : i \in 1..m + n /\ (s \o t)[i] = s[i]
  BY <1>6
<1>9. \A i \in 1..n : i + m \in 1..m + n /\ (s \o t)[i + m] = t[i]
  BY <1>6
<1>10. Range(s \o t) \subseteq S
  BY <1>6, <1>7 DEF Range
<1>11. Range(s) \subseteq Range(s \o t) /\ Range(t) \subseteq Range(s \o t)
  <2> PICK st : st = s \o t
    OBVIOUS
  <2>1. DOMAIN st = 1..m + n
    BY <1>6
  <2>2. \A i \in 1..m : i \in 1..m + n /\ st[i] = s[i]
    BY <1>8
  <2>3. \A i \in 1..n : i + m \in 1..m + n /\ st[i + m] = t[i]
    BY <1>9
  <2>4. Range(s) \subseteq Range(st)
    BY ONLY <1>1, <2>1, <2>2 DEF Range
  <2>5. Range(t) \subseteq Range(st)
    BY ONLY <1>1, <2>1, <2>3 DEF Range
  <2> QED BY <2>4, <2>5
<1> QED BY <1>6, <1>7, <1>10, <1>11 DEF S

LEMMA PrivCalls ==
  Range(PrivSyscalls) =
    {"setuid", "setreuid", "setresuid", "setgid", "setregid", "setresgid", "setgroups",
     "capset", "unshare", "setns", "seccomp"}
<1>1. DOMAIN PrivSyscalls = 1..11
  BY DEF PrivSyscalls
<1>2. \A i \in 1..11 : PrivSyscalls[i] \in
    {"setuid", "setreuid", "setresuid", "setgid", "setregid", "setresgid", "setgroups",
     "capset", "unshare", "setns", "seccomp"}
  BY DEF PrivSyscalls
<1>3. /\ PrivSyscalls[1] = "setuid" /\ PrivSyscalls[2] = "setreuid"
      /\ PrivSyscalls[3] = "setresuid" /\ PrivSyscalls[4] = "setgid"
      /\ PrivSyscalls[5] = "setregid" /\ PrivSyscalls[6] = "setresgid"
      /\ PrivSyscalls[7] = "setgroups" /\ PrivSyscalls[8] = "capset"
      /\ PrivSyscalls[9] = "unshare" /\ PrivSyscalls[10] = "setns" /\ PrivSyscalls[11] = "seccomp"
  BY DEF PrivSyscalls
<1> QED BY <1>1, <1>2, <1>3 DEF Range

\* What a family's only program, or the half of its pair that emits, is.
EmitterOf(f) ==
  CASE f = "proc_exec" -> Program(f, "only", f, "unknown", {"execve", "execveat"}, FALSE)
    [] f = "proc_exit" -> Program(f, "only", f, "unknown", {"exit", "exit_group"}, FALSE)
    [] f = "openat" -> Program(f, "exit", "file_open", "unknown", OpenCalls, FALSE)
    [] f = "connect" -> Program(f, "exit", "net_connect", "unknown", {"connect"}, FALSE)
    [] f = "file_open" ->
         Program(f, "only", f, "unknown", OpenCalls \cup {"open_by_handle_at", "io_uring"}, TRUE)
    [] f = "socket_connect" ->
         Program(f, "only", "net_connect", "unknown", {"connect", "io_uring"}, FALSE)
    [] f = "path_link" ->
         Program(f, "only", "file_link", "unknown", {"link", "linkat", "io_uring"}, TRUE)
    [] OTHER -> Program(f, "exit", "priv_change", f, {f}, FALSE)

\* And the half that emits nothing.
OtherHalf(p) == Program(p.family, "enter", "unknown", p.op, p.calls, FALSE)

SoloFamilies == {"proc_exec", "proc_exit", "file_open", "socket_connect", "path_link"}

LEMMA FamilyNames ==
  Range(AllFamilies) =
    SoloFamilies \cup {"openat", "connect"} \cup Range(PrivSyscalls)
<1>1. DOMAIN PrivSyscalls = 1..11
  BY DEF PrivSyscalls
<1> DEFINE first == <<"proc_exec", "proc_exit", "openat", "connect", "file_open",
                      "socket_connect", "path_link">>
<1>2. first = [i \in 1..7 |-> first[i]] /\ PrivSyscalls = [i \in 1..11 |-> PrivSyscalls[i]]
  BY DEF PrivSyscalls
<1>3. /\ first[1] = "proc_exec" /\ first[2] = "proc_exit" /\ first[3] = "openat"
      /\ first[4] = "connect" /\ first[5] = "file_open" /\ first[6] = "socket_connect"
      /\ first[7] = "path_link"
  OBVIOUS
<1>4. Range(AllFamilies) = Range(first) \cup Range(PrivSyscalls)
  <2> HIDE DEF first
  <2>1. AllFamilies = first \o PrivSyscalls
    BY DEF AllFamilies, first
  <2> PICK m, n : m = 7 /\ n = 11
    OBVIOUS
  <2>2. m \in Nat /\ n \in Nat
    OBVIOUS
  <2>3. first = [i \in 1..m |-> first[i]] /\ PrivSyscalls = [i \in 1..n |-> PrivSyscalls[i]]
    BY <1>2
  <2>4. first = [i \in 1..m |-> first[i]]
    BY ONLY <2>3
  <2>5. PrivSyscalls = [i \in 1..n |-> PrivSyscalls[i]]
    BY ONLY <2>3
  <2>6. m \in Nat
    BY ONLY <2>2
  <2>7. n \in Nat
    BY ONLY <2>2
  <2>8. Range(first \o PrivSyscalls) = Range(first) \cup Range(PrivSyscalls)
    BY ONLY <2>4, <2>5, <2>6, <2>7, JoinedRange
  <2> QED BY ONLY <2>1, <2>8
<1>5. Range(first) = SoloFamilies \cup {"openat", "connect"}
  <2>1. DOMAIN first = 1..7
    BY <1>2
  <2> HIDE DEF first
  <2>2. \A i \in 1..7 : first[i] \in SoloFamilies \cup {"openat", "connect"}
    BY <1>3 DEF SoloFamilies
  <2> QED BY <1>3, <2>1, <2>2 DEF Range, SoloFamilies
<1> QED BY <1>4, <1>5

LEMMA ProgramsAre ==
  \A p : p \in AllProbes <=>
    \E f \in Range(AllFamilies) :
      p = EmitterOf(f) \/ (f \notin SoloFamilies /\ p = OtherHalf(EmitterOf(f)))
<1> DEFINE Has(p, f) ==
             p = EmitterOf(f) \/ (f \notin SoloFamilies /\ p = OtherHalf(EmitterOf(f)))
<1>1. \A p : p \in Single("proc_exec", "proc_exec", {"execve", "execveat"}, FALSE)
              <=> Has(p, "proc_exec")
  BY DEF Single, EmitterOf, SoloFamilies
<1>2. \A p : p \in Single("proc_exit", "proc_exit", {"exit", "exit_group"}, FALSE)
              <=> Has(p, "proc_exit")
  BY DEF Single, EmitterOf, SoloFamilies
<1>3. \A p : p \in Pair("openat", "file_open", "unknown", OpenCalls) <=> Has(p, "openat")
  BY DEF Pair, EmitterOf, SoloFamilies, OtherHalf, Program
<1>4. \A p : p \in Pair("connect", "net_connect", "unknown", {"connect"}) <=> Has(p, "connect")
  BY DEF Pair, EmitterOf, SoloFamilies, OtherHalf, Program
<1>5. \A p : p \in Single("file_open", "file_open",
                          OpenCalls \cup {"open_by_handle_at", "io_uring"}, TRUE)
              <=> Has(p, "file_open")
  BY DEF Single, EmitterOf, SoloFamilies
<1>6. \A p : p \in Single("socket_connect", "net_connect", {"connect", "io_uring"}, FALSE)
              <=> Has(p, "socket_connect")
  BY DEF Single, EmitterOf, SoloFamilies
<1>7. \A p : p \in Single("path_link", "file_link", {"link", "linkat", "io_uring"}, TRUE)
              <=> Has(p, "path_link")
  BY DEF Single, EmitterOf, SoloFamilies
<1>8. ASSUME NEW call \in Range(PrivSyscalls)
      PROVE  \A p : p \in Pair(call, "priv_change", call, {call}) <=> Has(p, call)
  <2>1. /\ call \notin SoloFamilies \cup {"openat", "connect"}
    BY PrivCalls DEF SoloFamilies
  <2>2. EmitterOf(call) = Program(call, "exit", "priv_change", call, {call}, FALSE)
    BY <2>1 DEF EmitterOf, SoloFamilies
  <2> QED BY <2>1, <2>2 DEF Pair, OtherHalf, Program
<1> HIDE DEF Has
<1>9. \A p : p \in AllProbes <=>
        \/ \E f \in SoloFamilies \cup {"openat", "connect"} : Has(p, f)
        \/ \E f \in Range(PrivSyscalls) : Has(p, f)
  BY <1>1, <1>2, <1>3, <1>4, <1>5, <1>6, <1>7, <1>8 DEF AllProbes, SoloFamilies
<1>10. \A p : p \in AllProbes <=> \E f \in Range(AllFamilies) : Has(p, f)
  BY <1>9, FamilyNames
<1> QED BY <1>10 DEF Has

LEMMA EmitterIs ==
  ASSUME NEW f \in Range(AllFamilies)
  PROVE  LET p == EmitterOf(f)
             q == OtherHalf(p)
         IN /\ p = Program(f, p.half, p.emits, p.op, p.calls, p.successOnly)
            /\ p.family = f /\ p.emits # "unknown"
            /\ p.half = IF f \in SoloFamilies THEN "only" ELSE "exit"
            /\ q.family = f /\ q.emits = "unknown" /\ q.half = "enter" /\ q.calls = p.calls
<1> PICK p : p = EmitterOf(f)
  OBVIOUS
<1>1. CASE f \in SoloFamilies \cup {"openat", "connect"}
  BY <1>1 DEF EmitterOf, SoloFamilies, OtherHalf, Program
<1>2. CASE f \notin SoloFamilies \cup {"openat", "connect"}
  <2>1. EmitterOf(f) = Program(f, "exit", "priv_change", f, {f}, FALSE)
    BY <1>2 DEF EmitterOf, SoloFamilies
  <2> QED BY <1>2, <2>1 DEF OtherHalf, Program
<1> QED BY <1>1, <1>2

LEMMA ProgramsOfFamily ==
  ASSUME NEW f \in Range(AllFamilies)
  PROVE  {p \in AllProbes : p.family = f} =
           {EmitterOf(f)} \cup (IF f \in SoloFamilies THEN {} ELSE {OtherHalf(EmitterOf(f))})
<1>1. \A g \in Range(AllFamilies) :
        EmitterOf(g).family = g /\ OtherHalf(EmitterOf(g)).family = g
  BY EmitterIs
<1>2. \A p : p \in AllProbes /\ p.family = f
              <=> p = EmitterOf(f) \/ (f \notin SoloFamilies /\ p = OtherHalf(EmitterOf(f)))
  BY <1>1, ProgramsAre
<1> QED BY <1>2

\* A family reports what its emitter does; the other half has nothing to add.
LEMMA FamilyIs ==
  ASSUME NEW f \in Range(AllFamilies)
  PROVE  /\ Family[f].programs = {p \in AllProbes : p.family = f}
         /\ Family[f].kinds = Reports(EmitterOf(f))
         /\ Family[f].calls = EmitterOf(f).calls
         /\ Family[f].successOnly = EmitterOf(f).successOnly
<1> DEFINE programs == {p \in AllProbes : p.family = f}
           emitting == {p \in programs : p.emits # "unknown"}
           p == EmitterOf(f)
<1>1. Family[f] = [programs |-> programs,
                   kinds |-> UNION {Reports(x) : x \in programs},
                   calls |-> UNION {x.calls : x \in programs},
                   successOnly |-> emitting # {} /\ \A x \in emitting : x.successOnly]
  BY DEF Family
<1>2. /\ programs = {p} \cup (IF f \in SoloFamilies THEN {} ELSE {OtherHalf(p)})
      /\ p.emits # "unknown" /\ OtherHalf(p).emits = "unknown" /\ OtherHalf(p).calls = p.calls
  BY ProgramsOfFamily, EmitterIs
<1>3. Reports(OtherHalf(p)) = {}
  BY <1>2 DEF Reports, CapabilitiesFor
<1>4. p.successOnly \in BOOLEAN
  <2>1. CASE f \in SoloFamilies \cup {"openat", "connect"}
    BY <2>1 DEF EmitterOf, SoloFamilies, Program
  <2>2. CASE f \notin SoloFamilies \cup {"openat", "connect"}
    BY <2>2 DEF EmitterOf, SoloFamilies, Program
  <2> QED BY <2>1, <2>2
<1> HIDE DEF p
<1>5. emitting = {p}
  BY <1>2
<1> HIDE DEF programs, emitting
<1>6. (UNION {Reports(x) : x \in programs}) = Reports(p)
  BY <1>2, <1>3
<1>7. (UNION {x.calls : x \in programs}) = p.calls
  BY <1>2
<1>8. (emitting # {} /\ \A x \in emitting : x.successOnly) = p.successOnly
  BY <1>4, <1>5
<1> QED BY <1>1, <1>6, <1>7, <1>8 DEF programs, p

-----------------------------------------------------------------------------
\* What the records of a program decode to is what it is said to report.
LEMMA RecordFields ==
  \A p, a, c, f :
    LET r == RecordOf(p, a, c, f)
    IN r.type = p.emits /\ r.op = p.op /\ r.access = a /\ r.creat = c /\ r.family = f
BY DEF RecordOf, Cleared

LEMMA EmitterEmits ==
  ASSUME NEW p \in AllProbes
  PROVE  \/ p.emits \in {"unknown", "proc_exec", "proc_exit", "file_open", "net_connect",
                         "file_link"}
         \/ p.emits = "priv_change" /\ p.op \in Range(PrivSyscalls)
<1>1. PICK f \in Range(AllFamilies) : p = EmitterOf(f) \/ p = OtherHalf(EmitterOf(f))
  BY ProgramsAre
<1>2. OtherHalf(EmitterOf(f)).emits = "unknown"
  BY DEF OtherHalf, Program
<1>3. CASE f \in SoloFamilies \cup {"openat", "connect"}
  BY <1>1, <1>2, <1>3 DEF EmitterOf, SoloFamilies, Program
<1>4. CASE f \notin SoloFamilies \cup {"openat", "connect"}
  <2>1. EmitterOf(f) = Program(f, "exit", "priv_change", f, {f}, FALSE)
    BY <1>4 DEF EmitterOf, SoloFamilies
  <2>2. f \in Range(PrivSyscalls)
    BY <1>4, FamilyNames
  <2> QED BY <1>1, <1>2, <2>1, <2>2 DEF Program
<1> QED BY <1>3, <1>4

LEMMA EmitsWhatItReports ==
  ASSUME NEW p \in AllProbes
  PROVE  EmittedKinds[p] = Reports(p) /\ Reports(p) \subseteq Kinds
<1>1. EmittedKinds[p] = {KindOfRecord(r) : r \in RecordsOf(p)} \ {""}
  BY DEF EmittedKinds
<1>2. ASSUME NEW r \in RecordsOf(p)
      PROVE  /\ r.type = p.emits /\ r.op = p.op
             /\ r.access \in {"rdonly", "wronly", "rdwr"} /\ r.creat \in BOOLEAN
             /\ r.family \in {"inet", "unix"}
  BY RecordFields DEF RecordsOf
<1>3. ASSUME NEW a \in {"rdonly", "wronly", "rdwr"}, NEW c \in BOOLEAN, NEW f \in {"inet", "unix"}
      PROVE  \E r \in RecordsOf(p) : r.access = a /\ r.creat = c /\ r.family = f
  BY RecordFields DEF RecordsOf
<1>4. \E r : r \in RecordsOf(p)
  BY <1>3
<1> HIDE DEF RecordsOf
<1>5. CASE p.emits = "unknown"
  <2>1. \A r \in RecordsOf(p) : KindOfRecord(r) = ""
    BY <1>2, <1>5 DEF KindOfRecord
  <2>2. Reports(p) = {}
    BY <1>5 DEF Reports, CapabilitiesFor
  <2> QED BY <1>1, <2>1, <2>2
<1>6. CASE p.emits = "proc_exec"
  <2>1. \A r \in RecordsOf(p) : KindOfRecord(r) = "process.exec"
    BY <1>2, <1>6 DEF KindOfRecord
  <2>2. Reports(p) = {"process.exec"}
    BY <1>6 DEF Reports, CapabilitiesFor
  <2> QED BY <1>1, <1>4, <2>1, <2>2 DEF Kinds, FilesystemKinds, ProcessKinds,
                                          NetworkKinds, PrivilegeKinds, IPCKinds
<1>7. CASE p.emits = "proc_exit"
  <2>1. \A r \in RecordsOf(p) : KindOfRecord(r) = "process.exit"
    BY <1>2, <1>7 DEF KindOfRecord
  <2>2. Reports(p) = {"process.exit"}
    BY <1>7 DEF Reports, CapabilitiesFor
  <2> QED BY <1>1, <1>4, <2>1, <2>2 DEF Kinds, FilesystemKinds, ProcessKinds,
                                          NetworkKinds, PrivilegeKinds, IPCKinds
<1>8. CASE p.emits = "file_link"
  <2>1. \A r \in RecordsOf(p) : KindOfRecord(r) = "fs.link"
    BY <1>2, <1>8 DEF KindOfRecord
  <2>2. Reports(p) = {"fs.link"}
    BY <1>8 DEF Reports, CapabilitiesFor
  <2> QED BY <1>1, <1>4, <2>1, <2>2 DEF Kinds, FilesystemKinds, ProcessKinds,
                                          NetworkKinds, PrivilegeKinds, IPCKinds
<1>9. CASE p.emits = "file_open"
  <2>1. \A r \in RecordsOf(p) :
          KindOfRecord(r) = IF r.creat THEN "fs.create"
                            ELSE IF r.access = "rdonly" THEN "fs.read" ELSE "fs.write"
    <3> TAKE r \in RecordsOf(p)
    <3>1. r.creat \in BOOLEAN
      BY <1>2
    <3>2. KindOfRecord(r) = KindForOpenFlags(r)
      BY <1>2, <1>9 DEF KindOfRecord
    <3>3. KindForOpenFlags(r) = IF r.creat THEN "fs.create"
                                ELSE IF r.access = "rdonly" THEN "fs.read" ELSE "fs.write"
      BY <3>1, Zenon DEF KindForOpenFlags
    <3> QED BY <3>2, <3>3
  <2>2. Reports(p) = {"fs.read", "fs.write", "fs.create"}
    BY <1>9 DEF Reports, CapabilitiesFor
  <2>3. /\ \E r \in RecordsOf(p) : r.creat = TRUE
        /\ \E r \in RecordsOf(p) : r.creat = FALSE /\ r.access = "rdonly"
        /\ \E r \in RecordsOf(p) : r.creat = FALSE /\ r.access = "rdwr"
    BY <1>3
  <2>4. {KindOfRecord(r) : r \in RecordsOf(p)} = {"fs.read", "fs.write", "fs.create"}
    BY <2>1, <2>3
  <2> QED BY <1>1, <2>2, <2>4 DEF Kinds, FilesystemKinds, ProcessKinds,
                                          NetworkKinds, PrivilegeKinds, IPCKinds
<1>10. CASE p.emits = "net_connect"
  <2>1. \A r \in RecordsOf(p) :
          KindOfRecord(r) = IF r.family = "unix" THEN "ipc.unixsocket" ELSE "net.connect"
    BY <1>2, <1>10 DEF KindOfRecord, KindForConnectFamily
  <2>2. Reports(p) = {"net.connect", "ipc.unixsocket"}
    BY <1>10 DEF Reports, CapabilitiesFor
  <2>3. /\ \E r \in RecordsOf(p) : r.family = "unix"
        /\ \E r \in RecordsOf(p) : r.family = "inet"
    BY <1>3
  <2>4. {KindOfRecord(r) : r \in RecordsOf(p)} = {"net.connect", "ipc.unixsocket"}
    BY <2>1, <2>3
  <2> QED BY <1>1, <2>2, <2>4 DEF Kinds, FilesystemKinds, ProcessKinds,
                                          NetworkKinds, PrivilegeKinds, IPCKinds
<1>11. CASE p.emits = "priv_change" /\ p.op \in Range(PrivSyscalls)
  <2>1. \A r \in RecordsOf(p) : KindOfRecord(r) = KindForPrivOp(p.op)
    BY <1>2, <1>11 DEF KindOfRecord
  <2>2. Reports(p) = {KindForPrivOp(p.op)}
    BY <1>11 DEF Reports
  <2>3. KindForPrivOp(p.op) \in {"priv.setuid", "priv.capset", "priv.namespace", "priv.seccomp"}
    BY <1>11, PrivCalls DEF KindForPrivOp
  <2> QED BY <1>1, <1>4, <2>1, <2>2, <2>3 DEF Kinds, FilesystemKinds, ProcessKinds,
                                          NetworkKinds, PrivilegeKinds, IPCKinds
<1> QED BY <1>5, <1>6, <1>7, <1>8, <1>9, <1>10, <1>11, EmitterEmits

-----------------------------------------------------------------------------
\* What programs report is what the families that are complete watch.
Complete(attached) == {f \in Range(AllFamilies) : Family[f].programs \subseteq attached}

LEMMA CompleteFamilies ==
  ASSUME NEW A \in SUBSET AllProbes, NEW f \in Range(AllFamilies), NEW p, p = EmitterOf(f)
  PROVE  f \in Complete(A)
           <=> p \in A /\ (p.half = "exit" => \E q \in A : q.family = p.family /\ q.half = "enter")
<1>1. /\ p.family = f /\ p.half = IF f \in SoloFamilies THEN "only" ELSE "exit"
      /\ OtherHalf(p).family = f /\ OtherHalf(p).half = "enter"
  BY EmitterIs
<1> PICK q : q = OtherHalf(p)
  OBVIOUS
<1>2. Family[f].programs = {p} \cup (IF f \in SoloFamilies THEN {} ELSE {q})
  BY FamilyIs, ProgramsOfFamily
<1>3. \A x \in A : x.family = f <=> x \in Family[f].programs
  BY FamilyIs
<1>4. f \in Complete(A) <=> Family[f].programs \subseteq A
  BY DEF Complete
<1>5. CASE f \in SoloFamilies
  BY <1>1, <1>2, <1>4, <1>5
<1>6. CASE f \notin SoloFamilies
  <2>1. f \in Complete(A) <=> p \in A /\ q \in A
    BY <1>2, <1>4, <1>6
  <2>2. \A x \in A : x.family = f /\ x.half = "enter" <=> x = q
    BY <1>1, <1>2, <1>3, <1>6
  <2> QED BY <1>1, <1>6, <2>1, <2>2
<1> QED BY <1>5, <1>6

LEMMA ReportedIsWatched ==
  ASSUME NEW A \in SUBSET AllProbes, NEW k, NEW c, NEW refused \in BOOLEAN
  PROVE  Reported(A, k, c, refused)
           <=> \E f \in Complete(A) : /\ k \in Family[f].kinds /\ c \in Family[f].calls
                                      /\ refused => ~Family[f].successOnly
<1> DEFINE Paired(p) == p.half = "exit" => \E q \in A : q.family = p.family /\ q.half = "enter"
<1>1. Reported(A, k, c, refused)
        <=> \E p \in A : /\ k \in EmittedKinds[p] /\ c \in p.calls
                         /\ refused => ~p.successOnly
                         /\ Paired(p)
  BY DEF Reported
<1>2. ASSUME NEW p \in A, k \in EmittedKinds[p] PROVE \E f \in Range(AllFamilies) : p = EmitterOf(f)
  <2>1. k \in Reports(p)
    BY <1>2, EmitsWhatItReports
  <2>2. PICK f \in Range(AllFamilies) : p = EmitterOf(f) \/ p = OtherHalf(EmitterOf(f))
    BY ProgramsAre
  <2>3. ASSUME p = OtherHalf(EmitterOf(f)) PROVE FALSE
    <3>1. p.emits = "unknown"
      BY <2>3 DEF OtherHalf, Program
    <3> QED BY <2>1, <3>1 DEF Reports, CapabilitiesFor
  <2> QED BY <2>2, <2>3
<1>3. ASSUME NEW f \in Range(AllFamilies), NEW p, p = EmitterOf(f)
      PROVE  /\ p \in AllProbes
             /\ EmittedKinds[p] = Family[f].kinds /\ p.calls = Family[f].calls
             /\ p.successOnly = Family[f].successOnly
             /\ f \in Complete(A) <=> p \in A /\ Paired(p)
  <2>1. p \in AllProbes
    BY <1>3, ProgramsAre
  <2>2. f \in Complete(A) <=> p \in A /\ Paired(p)
    BY <1>3, CompleteFamilies
  <2> HIDE DEF Paired
  <2> QED BY <1>3, <2>1, <2>2, FamilyIs, EmitsWhatItReports
<1>4. Complete(A) \subseteq Range(AllFamilies)
  BY DEF Complete
<1> HIDE DEF Paired
<1>5. ASSUME Reported(A, k, c, refused)
      PROVE  \E f \in Complete(A) : /\ k \in Family[f].kinds /\ c \in Family[f].calls
                                    /\ refused => ~Family[f].successOnly
  <2>1. PICK p \in A : /\ k \in EmittedKinds[p] /\ c \in p.calls
                       /\ refused => ~p.successOnly
                       /\ Paired(p)
    BY <1>1, <1>5
  <2>2. PICK f \in Range(AllFamilies) : p = EmitterOf(f)
    BY <1>2, <2>1
  <2> QED BY <1>3, <2>1, <2>2
<1>6. ASSUME NEW f \in Complete(A), k \in Family[f].kinds, c \in Family[f].calls,
             refused => ~Family[f].successOnly
      PROVE  Reported(A, k, c, refused)
  <2> PICK p : p = EmitterOf(f)
    OBVIOUS
  <2> QED BY <1>1, <1>3, <1>4, <1>6
<1> QED BY <1>5, <1>6

LEMMA WatchedIs ==
  ASSUME NEW A \in SUBSET AllProbes, NEW k, NEW c
  PROVE  /\ c \in Watched(Complete(A), k) <=> Reported(A, k, c, FALSE)
         /\ c \in FullyWatched(Complete(A), k) <=> Reported(A, k, c, TRUE)
<1>1. c \in Watched(Complete(A), k)
        <=> \E f \in Complete(A) : k \in Family[f].kinds /\ c \in Family[f].calls
  BY DEF Watched
<1>2. c \in FullyWatched(Complete(A), k)
        <=> \E f \in Complete(A) : /\ k \in Family[f].kinds /\ c \in Family[f].calls
                                   /\ ~Family[f].successOnly
  BY DEF FullyWatched, Watched
<1>3. /\ Reported(A, k, c, FALSE)
           <=> \E f \in Complete(A) : /\ k \in Family[f].kinds /\ c \in Family[f].calls
                                      /\ FALSE => ~Family[f].successOnly
      /\ Reported(A, k, c, TRUE)
           <=> \E f \in Complete(A) : /\ k \in Family[f].kinds /\ c \in Family[f].calls
                                      /\ TRUE => ~Family[f].successOnly
  BY ReportedIsWatched
<1> QED BY <1>1, <1>2, <1>3

\* Half a family is none of it, and with all programs each is complete.
LEMMA AllAreComplete == Complete(AllProbes) = Range(AllFamilies)
<1>1. \A f \in Range(AllFamilies) : Family[f].programs \subseteq AllProbes
  BY FamilyIs
<1> QED BY <1>1 DEF Complete

LEMMA KindIsDeclared ==
  ASSUME NEW f \in Range(AllFamilies), NEW k \in Family[f].kinds
  PROVE  k \in Kinds /\ \E c \in DeclaredCalls(k) : c \in Family[f].calls
<1> PICK p : p = EmitterOf(f)
  OBVIOUS
<1>1. /\ p \in AllProbes /\ k \in Reports(p) /\ Family[f].calls = p.calls
  BY FamilyIs, ProgramsAre
<1>2. k \in Kinds
  BY <1>1, EmitsWhatItReports
<1>3. CASE f = "proc_exec"
  <2>1. p.emits = "proc_exec" /\ p.calls = {"execve", "execveat"}
    BY <1>3 DEF EmitterOf, Program
  <2>2. k = "process.exec"
    BY <1>1, <2>1 DEF Reports, CapabilitiesFor
  <2> QED BY <1>1, <1>2, <2>1, <2>2 DEF DeclaredCalls
<1>4. CASE f = "proc_exit"
  <2>1. p.emits = "proc_exit" /\ p.calls = {"exit", "exit_group"}
    BY <1>4 DEF EmitterOf, Program
  <2>2. k = "process.exit"
    BY <1>1, <2>1 DEF Reports, CapabilitiesFor
  <2> QED BY <1>1, <1>2, <2>1, <2>2 DEF DeclaredCalls
<1>5. CASE f = "openat" \/ f = "file_open"
  <2>1. p.emits = "file_open" /\ "openat" \in p.calls
    BY <1>5 DEF EmitterOf, Program, OpenCalls
  <2>2. k \in {"fs.read", "fs.write", "fs.create"}
    BY <1>1, <2>1 DEF Reports, CapabilitiesFor
  <2>3. "openat" \in DeclaredCalls(k)
    BY <2>2 DEF DeclaredCalls, OpenCalls
  <2> QED BY <1>1, <1>2, <2>1, <2>3
<1>6. CASE f = "connect" \/ f = "socket_connect"
  <2>1. p.emits = "net_connect" /\ "connect" \in p.calls
    BY <1>6 DEF EmitterOf, Program
  <2>2. k \in {"net.connect", "ipc.unixsocket"}
    BY <1>1, <2>1 DEF Reports, CapabilitiesFor
  <2>3. "connect" \in DeclaredCalls(k)
    BY <2>2 DEF DeclaredCalls
  <2> QED BY <1>1, <1>2, <2>1, <2>3
<1>7. CASE f = "path_link"
  <2>1. p.emits = "file_link" /\ "link" \in p.calls
    BY <1>7 DEF EmitterOf, Program
  <2>2. k = "fs.link"
    BY <1>1, <2>1 DEF Reports, CapabilitiesFor
  <2> QED BY <1>1, <1>2, <2>1, <2>2 DEF DeclaredCalls
<1>8. CASE f \in Range(PrivSyscalls)
  <2>1. p = Program(f, "exit", "priv_change", f, {f}, FALSE)
    BY <1>8, PrivCalls DEF EmitterOf
  <2>2. p.emits = "priv_change" /\ p.op = f /\ p.calls = {f}
    BY <2>1 DEF Program
  <2>3. k = KindForPrivOp(f)
    BY <1>1, <2>2 DEF Reports
  <2>4. f \in DeclaredCalls(k)
    <3>1. Range(SubSeq(PrivSyscalls, 1, 7)) =
            {"setuid", "setreuid", "setresuid", "setgid", "setregid", "setresgid", "setgroups"}
      <4>1. SubSeq(PrivSyscalls, 1, 7) = [i \in 1..7 |-> PrivSyscalls[i]]
        BY DEF PrivSyscalls
      <4>2. Range(SubSeq(PrivSyscalls, 1, 7)) = {PrivSyscalls[i] : i \in 1..7}
        BY <4>1 DEF Range
      <4> QED BY <4>2 DEF PrivSyscalls
    <3> QED BY <1>8, <2>3, <3>1, PrivCalls DEF KindForPrivOp, DeclaredCalls
  <2> QED BY <1>1, <1>2, <2>2, <2>4
<1> QED BY <1>3, <1>4, <1>5, <1>6, <1>7, <1>8, FamilyNames DEF SoloFamilies

-----------------------------------------------------------------------------
\* What the coverage of the attached programs says, in terms of what they report.
LEMMA ReportedKindsAre ==
  ASSUME NEW A \in SUBSET AllProbes
  PROVE  ReportedKinds(A) = UNION {Family[f].kinds : f \in Complete(A)}
<1>1. Complete(A) \subseteq Range(AllFamilies)
  BY DEF Complete
<1>2. ASSUME NEW k \in ReportedKinds(A) PROVE \E f \in Complete(A) : k \in Family[f].kinds
  <2>1. PICK c \in DeclaredCalls(k) : Reported(A, k, c, FALSE)
    BY DEF ReportedKinds
  <2>2. c \in Watched(Complete(A), k)
    BY <2>1, WatchedIs
  <2> QED BY <2>2 DEF Watched
<1>3. ASSUME NEW f \in Complete(A), NEW k \in Family[f].kinds PROVE k \in ReportedKinds(A)
  <2>1. k \in Kinds /\ \E c \in DeclaredCalls(k) : c \in Family[f].calls
    BY <1>1, KindIsDeclared
  <2>2. PICK c \in DeclaredCalls(k) : c \in Watched(Complete(A), k)
    BY <2>1 DEF Watched
  <2>3. Reported(A, k, c, FALSE)
    BY <2>2, WatchedIs
  <2> QED BY <2>1, <2>3 DEF ReportedKinds
<1> QED BY <1>2, <1>3

LEMMA CoverageIs ==
  ASSUME NEW A \in SUBSET AllProbes, NEW coverage, coverage = ComputeCoverage(A)
  PROVE  /\ coverage.observable = ReportedKinds(A)
         /\ coverage.unobservable = ReportedKinds(AllProbes) \ ReportedKinds(A)
         /\ coverage.floorIntact = (FloorFamilies \subseteq Complete(A))
         /\ coverage.degraded = (Complete(A) # Range(AllFamilies))
         /\ coverage.entryPoints = AnyGap({EntryPoints(Complete(A), k) : k \in ReportedKinds(A)})
<1> DEFINE observable == UNION {Family[f].kinds : f \in Complete(A)}
<1>1. coverage =
        [complete |-> Complete(A),
         observable |-> observable,
         unobservable |-> (UNION {Family[f].kinds : f \in Range(AllFamilies)}) \ observable,
         floorIntact |-> FloorFamilies \subseteq Complete(A),
         degraded |-> Complete(A) # Range(AllFamilies),
         entryPoints |-> AnyGap({EntryPoints(Complete(A), k) : k \in observable})]
  BY Zenon DEF ComputeCoverage, Complete
<1>2. observable = ReportedKinds(A)
  BY ReportedKindsAre
<1>3. (UNION {Family[f].kinds : f \in Range(AllFamilies)}) = ReportedKinds(AllProbes)
  BY ReportedKindsAre, AllAreComplete
<1> HIDE DEF observable
<1> QED BY <1>1, <1>2, <1>3

\* What is lost of a kind, as the answer is to name it.
Gap(A, k) ==
  [kind |-> k, missing |-> LostCalls(A, k, FALSE),
   successOnly |-> LostCalls(A, k, TRUE) \ LostCalls(A, k, FALSE)]

IsGap(g) == g.missing # {} \/ g.successOnly # {}

LEMMA LostCallsAre ==
  ASSUME NEW A \in SUBSET AllProbes, NEW k, NEW c
  PROVE  /\ c \in LostCalls(A, k, FALSE)
              <=> /\ c \in DeclaredCalls(k) /\ c \in Watched(Range(AllFamilies), k)
                  /\ c \notin Watched(Complete(A), k)
         /\ c \in LostCalls(A, k, TRUE)
              <=> /\ c \in DeclaredCalls(k) /\ c \in FullyWatched(Range(AllFamilies), k)
                  /\ c \notin FullyWatched(Complete(A), k)
<1>1. AllProbes \in SUBSET AllProbes
  OBVIOUS
<1> QED BY <1>1, WatchedIs, AllAreComplete DEF LostCalls

LEMMA FullyWatchedIsWatched ==
  \A families, k : FullyWatched(families, k) \subseteq Watched(families, k)
BY DEF FullyWatched, Watched

Cut(g) ==
  [kind |-> g.kind, missing |-> g.missing \cap Watched(Range(AllFamilies), g.kind),
   successOnly |-> g.successOnly \cap FullyWatched(Range(AllFamilies), g.kind)]

LEMMA GapIs ==
  ASSUME NEW A \in SUBSET AllProbes, NEW k, NEW g, g = EntryPoints(Complete(A), k)
  PROVE  /\ Cut(g) = Gap(A, k)
         /\ IsGap(Gap(A, k)) => IsGap(g)
<1> DEFINE watched == DeclaredCalls(k) \cap Watched(Complete(A), k)
<1>1. g = [kind |-> k, missing |-> DeclaredCalls(k) \ watched,
           successOnly |-> watched \ FullyWatched(Complete(A), k)]
  BY DEF EntryPoints
<1>2. (DeclaredCalls(k) \ watched) \cap Watched(Range(AllFamilies), k) = LostCalls(A, k, FALSE)
  BY LostCallsAre
<1>3. (watched \ FullyWatched(Complete(A), k)) \cap FullyWatched(Range(AllFamilies), k)
        = LostCalls(A, k, TRUE) \ LostCalls(A, k, FALSE)
  BY LostCallsAre, FullyWatchedIsWatched
<1> HIDE DEF watched
<1>4. PICK m, o, W, F, lost, weak :
        /\ m = DeclaredCalls(k) \ watched /\ o = watched \ FullyWatched(Complete(A), k)
        /\ W = Watched(Range(AllFamilies), k) /\ F = FullyWatched(Range(AllFamilies), k)
        /\ lost = LostCalls(A, k, FALSE) /\ weak = LostCalls(A, k, TRUE) \ lost
  OBVIOUS
<1>5. /\ g = [kind |-> k, missing |-> m, successOnly |-> o]
      /\ m \cap W = lost /\ o \cap F = weak
      /\ Gap(A, k) = [kind |-> k, missing |-> lost, successOnly |-> weak]
  BY <1>1, <1>2, <1>3, <1>4 DEF Gap
<1>6. /\ g.kind = k /\ g.missing = m /\ g.successOnly = o
      /\ Gap(A, k).missing = lost /\ Gap(A, k).successOnly = weak
  BY ONLY <1>5
<1>7. Cut(g) = [kind |-> k, missing |-> lost, successOnly |-> weak]
  BY <1>4, <1>5, <1>6 DEF Cut
<1>8. IsGap(Gap(A, k)) => IsGap(g)
  BY ONLY <1>5, <1>6 DEF IsGap
<1> QED BY <1>4, <1>5, <1>6, <1>7, <1>8

LEMMA GapsAre ==
  ASSUME NEW A \in SUBSET AllProbes, NEW coverage, coverage = ComputeCoverage(A), NEW gap
  PROVE  gap \in DegradedEntryPoints(coverage)
           <=> IsGap(gap) /\ \E k \in ReportedKinds(A) : gap = Gap(A, k)
<1>1. gap \in DegradedEntryPoints(coverage)
        <=> IsGap(gap) /\ \E g \in coverage.entryPoints : gap = Cut(g)
  BY DEF DegradedEntryPoints, AnyGap, IsGap, Cut
<1>2. \A g : g \in coverage.entryPoints
               <=> IsGap(g) /\ \E k \in ReportedKinds(A) : g = EntryPoints(Complete(A), k)
  <2>1. coverage.entryPoints = AnyGap({EntryPoints(Complete(A), k) : k \in ReportedKinds(A)})
    BY CoverageIs
  <2> QED BY <2>1 DEF AnyGap, IsGap
<1>3. \A k : LET g == EntryPoints(Complete(A), k)
             IN Cut(g) = Gap(A, k) /\ (IsGap(Gap(A, k)) => IsGap(g))
  BY GapIs
<1> QED BY <1>1, <1>2, <1>3

\* Nothing is lost of a build that is whole.
LEMMA WholeLosesNothing ==
  ASSUME NEW A \in SUBSET AllProbes, Complete(A) = Range(AllFamilies)
  PROVE  /\ ReportedKinds(A) = ReportedKinds(AllProbes)
         /\ \A k : LostCalls(A, k, FALSE) = {} /\ LostCalls(A, k, TRUE) = {}
<1>1. AllProbes \in SUBSET AllProbes
  OBVIOUS
<1>2. ReportedKinds(A) = ReportedKinds(AllProbes)
  BY <1>1, AllAreComplete, ReportedKindsAre
<1>3. ASSUME NEW k, NEW c PROVE c \notin LostCalls(A, k, FALSE) /\ c \notin LostCalls(A, k, TRUE)
  BY LostCallsAre
<1> QED BY <1>2, <1>3

LEMMA TuplesSay ==
  /\ \A a, b : <<a, b>>[1] = a /\ <<a, b>>[2] = b
  /\ \A a, b, c : <<a, b, c>>[1] = a /\ <<a, b, c>>[2] = b /\ <<a, b, c>>[3] = c
OBVIOUS

LEMMA CoverageIsTold ==
  ASSUME NEW A \in SUBSET AllProbes, NEW told, told = CoverageWarnings(ComputeCoverage(A))
  PROVE  /\ Naming(told, "unobservable")
              = {<<"unobservable", k>> : k \in ReportedKinds(AllProbes) \ ReportedKinds(A)}
         /\ Naming(told, "no records")
              = {<<"no records", k, LostCalls(A, k, FALSE)>> :
                   k \in {x \in ReportedKinds(A) : LostCalls(A, x, FALSE) # {}}}
         /\ Naming(told, "successes only")
              = {<<"successes only", k, LostCalls(A, k, TRUE) \ LostCalls(A, k, FALSE)>> :
                   k \in {x \in ReportedKinds(A) :
                            LostCalls(A, x, TRUE) \ LostCalls(A, x, FALSE) # {}}}
         /\ Naming(told, "grant dropped") = {}
<1> PICK coverage : coverage = ComputeCoverage(A)
  OBVIOUS
<1> PICK gaps : gaps = DegradedEntryPoints(coverage)
  OBVIOUS
<1> PICK seen, unseen : seen = ReportedKinds(A) /\ unseen = ReportedKinds(AllProbes) \ ReportedKinds(A)
  OBVIOUS
<1> DEFINE lost(k) == LostCalls(A, k, FALSE)
           weak(k) == LostCalls(A, k, TRUE) \ LostCalls(A, k, FALSE)
           Missing(w) == \E k \in seen : lost(k) # {} /\ w = <<"no records", k, lost(k)>>
           Weakened(w) == \E k \in seen : weak(k) # {} /\ w = <<"successes only", k, weak(k)>>
           Unseen(w) == \E k \in unseen : w = <<"unobservable", k>>
<1>1. \A w : w \in told
        <=> /\ coverage.degraded
            /\ \/ w = <<"degraded", "">>
               \/ \E k \in coverage.unobservable : w = <<"unobservable", k>>
               \/ \E g \in gaps : g.missing # {} /\ w = <<"no records", g.kind, g.missing>>
               \/ \E g \in gaps : /\ g.successOnly # {}
                                  /\ w = <<"successes only", g.kind, g.successOnly>>
  BY DEF CoverageWarnings
<1>2. /\ coverage.unobservable = unseen
      /\ coverage.degraded = (Complete(A) # Range(AllFamilies))
  BY CoverageIs
<1>3. \A k : /\ Gap(A, k).kind = k /\ Gap(A, k).missing = lost(k)
             /\ Gap(A, k).successOnly = weak(k)
  BY DEF Gap
<1>4. \A g : g \in gaps <=> IsGap(g) /\ \E k \in seen : g = Gap(A, k)
  BY GapsAre
<1> HIDE DEF lost, weak
<1>5. \A w : (\E g \in gaps : g.missing # {} /\ w = <<"no records", g.kind, g.missing>>)
               <=> Missing(w)
  <2> TAKE w
  <2>1. ASSUME NEW g \in gaps, g.missing # {}, w = <<"no records", g.kind, g.missing>>
        PROVE  Missing(w)
    <3>1. PICK k \in seen : g = Gap(A, k)
      BY <1>4
    <3>2. g.kind = k /\ g.missing = lost(k)
      BY <1>3, <3>1
    <3> QED BY <2>1, <3>2
  <2>2. ASSUME NEW k \in seen, lost(k) # {}, w = <<"no records", k, lost(k)>>
        PROVE  \E g \in gaps : g.missing # {} /\ w = <<"no records", g.kind, g.missing>>
    <3>1. Gap(A, k) \in gaps
      BY <1>3, <1>4, <2>2 DEF IsGap
    <3> QED BY <1>3, <2>2, <3>1
  <2> QED BY <2>1, <2>2
<1>6. \A w : (\E g \in gaps : /\ g.successOnly # {}
                              /\ w = <<"successes only", g.kind, g.successOnly>>) <=> Weakened(w)
  <2> TAKE w
  <2>1. ASSUME NEW g \in gaps, g.successOnly # {},
               w = <<"successes only", g.kind, g.successOnly>>
        PROVE  Weakened(w)
    <3>1. PICK k \in seen : g = Gap(A, k)
      BY <1>4
    <3>2. g.kind = k /\ g.successOnly = weak(k)
      BY <1>3, <3>1
    <3> QED BY <2>1, <3>2
  <2>2. ASSUME NEW k \in seen, weak(k) # {}, w = <<"successes only", k, weak(k)>>
        PROVE  \E g \in gaps : /\ g.successOnly # {}
                               /\ w = <<"successes only", g.kind, g.successOnly>>
    <3>1. Gap(A, k) \in gaps
      BY <1>3, <1>4, <2>2 DEF IsGap
    <3> QED BY <1>3, <2>2, <3>1
  <2> QED BY <2>1, <2>2
<1>7. ~coverage.degraded => unseen = {} /\ \A k : lost(k) = {} /\ weak(k) = {}
  BY <1>2, WholeLosesNothing DEF lost, weak
<1> HIDE DEF Missing, Weakened
<1>8. \A w : w \in told \/ (w = <<"degraded", "">> /\ ~coverage.degraded)
               <=> w = <<"degraded", "">> \/ Unseen(w) \/ Missing(w) \/ Weakened(w)
  <2>1. \A w : ~coverage.degraded => ~Unseen(w) /\ ~Missing(w) /\ ~Weakened(w)
    BY <1>7 DEF Missing, Weakened
  <2> HIDE DEF Unseen
  <2>2. \A w : Unseen(w) <=> \E k \in coverage.unobservable : w = <<"unobservable", k>>
    BY <1>2 DEF Unseen
  <2> TAKE w
  <2>3. w \in told
          <=> coverage.degraded /\ (w = <<"degraded", "">> \/ Unseen(w) \/ Missing(w) \/ Weakened(w))
    BY ONLY <1>1, <1>5, <1>6, <2>2, Zenon
  <2>4. ~coverage.degraded => ~Unseen(w) /\ ~Missing(w) /\ ~Weakened(w)
    BY ONLY <2>1
  <2> QED BY ONLY <2>3, <2>4
<1>9. \A w : /\ Unseen(w) => w[1] = "unobservable"
             /\ Missing(w) => w[1] = "no records"
             /\ Weakened(w) => w[1] = "successes only"
             /\ w = <<"degraded", "">> => w[1] = "degraded"
  <2> TAKE w
  <2>1. Unseen(w) => w[1] = "unobservable"
    BY ONLY TuplesSay, Zenon DEF Unseen
  <2>2. Missing(w) => w[1] = "no records"
    <3>1. ASSUME NEW k, NEW calls, w = <<"no records", k, calls>> PROVE w[1] = "no records"
      BY ONLY <3>1
    <3> QED BY <3>1 DEF Missing
  <2>3. Weakened(w) => w[1] = "successes only"
    <3>1. ASSUME NEW k, NEW calls, w = <<"successes only", k, calls>> PROVE w[1] = "successes only"
      BY ONLY <3>1
    <3> QED BY <3>1 DEF Weakened
  <2>4. w = <<"degraded", "">> => w[1] = "degraded"
    BY ONLY TuplesSay, Zenon
  <2> QED BY <2>1, <2>2, <2>3, <2>4
<1> HIDE DEF Unseen
<1>10. \A w : /\ w \in told /\ w[1] = "unobservable" <=> Unseen(w)
              /\ w \in told /\ w[1] = "no records" <=> Missing(w)
              /\ w \in told /\ w[1] = "successes only" <=> Weakened(w)
              /\ ~(w \in told /\ w[1] = "grant dropped")
  BY <1>8, <1>9
<1>11. Naming(told, "unobservable") = {<<"unobservable", k>> : k \in unseen}
  BY <1>10 DEF Naming, Unseen
<1>12. Naming(told, "no records")
         = {<<"no records", k, lost(k)>> : k \in {x \in seen : lost(x) # {}}}
  BY <1>10 DEF Naming, Missing
<1>13. Naming(told, "successes only")
         = {<<"successes only", k, weak(k)>> : k \in {x \in seen : weak(x) # {}}}
  BY <1>10 DEF Naming, Weakened
<1>14. Naming(told, "grant dropped") = {}
  BY <1>10 DEF Naming
<1> QED BY <1>11, <1>12, <1>13, <1>14 DEF lost, weak

-----------------------------------------------------------------------------
\* A daemon that has started has its floor and the core kinds, and was seen to
\* report the refused open.
LEMMA NotStartedSays == \A reason : NotStarted(reason).ok = FALSE
BY DEF NotStarted

LEMMA StartedHas ==
  ASSUME NEW host, NEW named, NEW s, s = Startup(host, named), s.ok
  PROVE  /\ s.attached \in SUBSET AllProbes
         /\ s.coverage = ComputeCoverage(s.attached)
         /\ s.coverage.floorIntact
         /\ UnobservableCore(s.coverage) = {}
         /\ SelfTestPasses(host, s.attached)
<1> PICK c : c = StartCollector(host, named)
  OBVIOUS
<1>1. s = Tested(host, c)
  <2> DEFINE failed == {i \in DOMAIN BeforeTelemetry : BeforeTelemetry[i] \in host.faults}
  <2>1. \/ Startup(host, named) = Tested(host, c)
        \/ \E reason : Startup(host, named) = NotStarted(reason)
    BY Zenon DEF Startup
  <2> QED BY <2>1, NotStartedSays
<1>2. s = c /\ SelfTestPasses(host, c.attached)
  <2>1. \/ ~c.ok /\ Tested(host, c) = c
        \/ \E reason : Tested(host, c) = NotStarted(reason)
        \/ SelfTestPasses(host, c.attached) /\ Tested(host, c) = c
    <3>1. CASE ~c.ok
      BY <3>1, Zenon DEF Tested
    <3>2. CASE c.ok /\ ~SelfTestPasses(host, c.attached)
      BY <3>2, Zenon DEF Tested
    <3>3. CASE c.ok /\ SelfTestPasses(host, c.attached) /\ "socket" \in host.faults
      BY <3>3, Zenon DEF Tested
    <3>4. CASE c.ok /\ SelfTestPasses(host, c.attached) /\ "socket" \notin host.faults
      BY <3>4, Zenon DEF Tested
    <3> QED BY ONLY <3>1, <3>2, <3>3, <3>4, Zenon
  <2> QED BY <1>1, <2>1, NotStartedSays
<1>3. PICK A \in SUBSET AllProbes : c = StartOf(host, A)
  <2>1. \/ StartCollector(host, named) = StartOf(host, Attached(host, Load(host), named))
        \/ \E reason : StartCollector(host, named) = NotStarted(reason)
    BY Zenon DEF StartCollector
  <2>2. Attached(host, Load(host), named) \in SUBSET AllProbes
    BY DEF Attached
  <2> QED BY <1>2, <2>1, <2>2, NotStartedSays
<1> PICK coverage : coverage = ComputeCoverage(A)
  OBVIOUS
<1>4. /\ coverage.floorIntact /\ UnobservableCore(coverage) = {}
      /\ c = [ok |-> TRUE, reason |-> "", attached |-> A, coverage |-> coverage]
  <2> DEFINE started == [ok |-> TRUE, reason |-> "", attached |-> A, coverage |-> coverage]
  <2>1. c = Observing(host, A, coverage)
    BY <1>3 DEF StartOf
  <2>2. \/ \E reason : c = NotStarted(reason)
        \/ coverage.floorIntact /\ UnobservableCore(coverage) = {} /\ c = started
    BY <2>1, Zenon DEF Observing
  <2> QED BY <1>2, <2>2, NotStartedSays
<1>5. c.attached = A /\ c.coverage = coverage
  BY ONLY <1>4, Zenon
<1> QED BY <1>2, <1>4, <1>5

-----------------------------------------------------------------------------
\* What an admitted session is.
LEMMA RefusedSays == \A reason : Refused(reason).ok = FALSE
BY DEF Refused

\* What the answer holds when a session is created.
AnsweredFrom(s, started, made, asked) ==
  /\ started.ok /\ made.ok /\ Admissible(made.envelope)
  /\ ~(s.mode = "enforce" /\ started.coverage.degraded)
  /\ s.envelope = made.envelope
  /\ \E weaker : /\ s.warnings = made.warnings \cup weaker \cup CoverageWarnings(started.coverage)
                 /\ \A w \in weaker : w = <<"weaker mode", asked>>

LEMMA FieldsSay ==
  \A m, t, e, n, w :
    LET s == [ok |-> TRUE, reason |-> "", mode |-> m, task |-> t, envelope |-> e,
              notes |-> n, warnings |-> w]
    IN s.mode = m /\ s.task = t /\ s.envelope = e /\ s.warnings = w
OBVIOUS

LEMMA AnswerSays ==
  ASSUME NEW daemon, NEW started, NEW req, NEW mode, NEW clean, NEW an, NEW made, NEW s,
         s = Answer(daemon, started, req, mode, clean, an, made), s.ok
  PROVE  AnsweredFrom(s, started, made, req.mode) /\ s.task = an.task
<1> DEFINE weaker == IF req.mode \in {"", mode} THEN {} ELSE {<<"weaker mode", req.mode>>}
           notes == an.ambiguities \cup clean.indicators
           warnings == made.warnings \cup weaker \cup CoverageWarnings(started.coverage)
           full == [ok |-> TRUE, reason |-> "", mode |-> mode, task |-> an.task,
                    envelope |-> made.envelope, notes |-> notes, warnings |-> warnings]
<1>1. \/ \E reason : s = Refused(reason)
      \/ /\ started.ok /\ made.ok /\ Admissible(made.envelope)
         /\ ~(mode = "enforce" /\ started.coverage.degraded)
         /\ s = full
  BY Zenon DEF Answer
<1>2. /\ started.ok /\ made.ok /\ Admissible(made.envelope)
      /\ ~(mode = "enforce" /\ started.coverage.degraded)
      /\ s = full
  BY <1>1, RefusedSays
<1>3. /\ s.mode = mode /\ s.envelope = made.envelope /\ s.task = an.task
      /\ s.warnings = warnings
  <2> HIDE DEF notes, warnings
  <2> QED BY ONLY <1>2, FieldsSay, Zenon
<1>4. \A w \in weaker : w = <<"weaker mode", req.mode>>
  OBVIOUS
<1> HIDE DEF weaker
<1> QED BY <1>2, <1>3, <1>4 DEF warnings, AnsweredFrom

\* Who created a session, from what.
\* What a created session was made from.
MadeFor(a, named, started, an, made) ==
  /\ started = Startup(a.host, named) /\ a.attached = started.attached
  /\ made = Generate(an, a.request.ws, a.request.home, a.daemon.resolvers,
                     started.coverage.observable, a.daemon.limits, a.daemon.limits.ttl)
  /\ AnsweredFrom(a.session, started, made, a.request.mode)
  /\ an = Analyze(Sanitize(a.request.prompt).prompt, a.request.languages)
  /\ a.session.task = an.task
  /\ a.daemon \in Daemons /\ a.request \in Requests

LEMMA CreatedFrom ==
  ASSUME NEW a \in Created
  PROVE  \E named, started, an, made : MadeFor(a, named, started, an, made)
<1>1. PICK at \in Started, daemon \in Daemons, req \in Requests :
        /\ a = [host |-> at.host, attached |-> at.as.attached, daemon |-> daemon,
                request |-> req, session |-> CreateSession(daemon, at.as, req)]
        /\ a.session.ok
  BY DEF Created
<1>2. PICK host \in Hosts, named \in Named : at = [host |-> host, as |-> Startup(host, named)]
  BY DEF Started
<1> PICK started, session : started = Startup(host, named) /\ session = CreateSession(daemon, started, req)
  OBVIOUS
<1>3. a = [host |-> host, attached |-> started.attached, daemon |-> daemon,
           request |-> req, session |-> session]
  BY <1>1, <1>2
<1>4. /\ a.host = host /\ a.attached = started.attached /\ a.daemon = daemon
      /\ a.request = req /\ a.session = session
  BY ONLY <1>3, Zenon
<1> PICK mode, clean, an :
      /\ mode = Stricter(daemon.defaultMode, req.mode) /\ clean = Sanitize(req.prompt)
      /\ an = Analyze(clean.prompt, req.languages)
  OBVIOUS
<1> PICK made :
      made = Generate(an, req.ws, req.home, daemon.resolvers, started.coverage.observable,
                      daemon.limits, daemon.limits.ttl)
  OBVIOUS
<1>5. session = Answer(daemon, started, req, mode, clean, an, made)
  BY DEF CreateSession, AnswerFor
<1>6. session.ok
  BY <1>1, <1>4
<1>7. AnsweredFrom(session, started, made, req.mode) /\ session.task = an.task
  BY ONLY <1>5, <1>6, AnswerSays
<1>8. MadeFor(a, named, started, an, made)
  BY <1>4, <1>7 DEF MadeFor
<1> QED BY ONLY <1>8

-----------------------------------------------------------------------------
\* The envelope: merging and leaving out lose no kind but those that are left out.
IsTuple(s) == \E n \in Nat : s = [i \in 1..n |-> s[i]]

LEMMA KindsOfRange == \A entries : KindsOf(entries) = {x.kind : x \in Range(entries)}
BY DEF KindsOf, Range

LEMMA RangeOfChosen ==
  ASSUME NEW entries, IsTuple(entries), NEW places \in SUBSET DOMAIN entries
  PROVE  /\ IsTuple(Chosen(entries, places))
         /\ Range(Chosen(entries, places)) = {entries[i] : i \in places}
<1>1. PICK N \in Nat : entries = [i \in 1..N |-> entries[i]]
  BY DEF IsTuple
<1>2. places \in SUBSET (1..N)
  BY <1>1
<1> DEFINE M == Cardinality(places)
           at(n) == CHOOSE i \in places : Cardinality(UpTo(places, i)) = n
<1>3. /\ M \in Nat /\ \A n \in 1..M : \E i \in places : Cardinality(UpTo(places, i)) = n
      /\ \A i \in places : Cardinality(UpTo(places, i)) \in 1..M
      /\ \A i, j \in places : j < i => Cardinality(UpTo(places, j)) < Cardinality(UpTo(places, i))
  <2>1. \A n \in 1..M : \E i \in places : Cardinality(UpTo(places, i)) = n
    BY ONLY <1>1, <1>2, SomeCount
  <2>2. /\ M \in 0..N
        /\ \A i \in places : Cardinality(UpTo(places, i)) \in 1..M
        /\ \A i, j \in places : j < i => Cardinality(UpTo(places, j)) < Cardinality(UpTo(places, i))
    BY ONLY <1>1, <1>2, CountsUpTo
  <2> QED BY <2>1, <2>2
<1>4. Chosen(entries, places) = [n \in 1..M |-> entries[at(n)]]
  BY Zenon DEF Chosen, UpTo
<1>5. \A n \in 1..M : at(n) \in places /\ Cardinality(UpTo(places, at(n))) = n
  BY <1>3
<1>6. ASSUME NEW i \in places PROVE \E n \in 1..M : at(n) = i
  <2> PICK n : n = Cardinality(UpTo(places, i))
    OBVIOUS
  <2>1. n \in 1..M
    BY <1>3
  <2> PICK j : j = at(n)
    OBVIOUS
  <2>2. j \in places /\ Cardinality(UpTo(places, j)) = n
    BY <1>5, <2>1
  <2>3. i \in 1..N /\ j \in 1..N
    BY <1>2, <2>2
  <2>4. ~(j < i) /\ ~(i < j)
    <3>1. ~(n < n)
      BY <2>1
    <3> QED BY <1>3, <2>2, <3>1
  <2>5. i = j
    BY <2>3, <2>4
  <2> QED BY <2>1, <2>5
<1> HIDE DEF at, M
<1>7. IsTuple(Chosen(entries, places))
  BY <1>3, <1>4 DEF IsTuple
<1>8. Range(Chosen(entries, places)) = {entries[at(n)] : n \in 1..M}
  BY <1>4 DEF Range
<1> QED BY <1>5, <1>6, <1>7, <1>8

LEMMA OfKindsSays ==
  ASSUME NEW entries, IsTuple(entries), NEW kinds
  PROVE  /\ IsTuple(OfKinds(entries, kinds))
         /\ Range(OfKinds(entries, kinds)) = {x \in Range(entries) : x.kind \in kinds}
<1> DEFINE places == {i \in DOMAIN entries : entries[i].kind \in kinds}
<1>1. OfKinds(entries, kinds) = Chosen(entries, places)
  BY DEF OfKinds
<1>2. places \in SUBSET DOMAIN entries
  OBVIOUS
<1>3. {entries[i] : i \in places} = {x \in Range(entries) : x.kind \in kinds}
  BY DEF Range
<1> HIDE DEF places
<1> QED BY <1>1, <1>2, <1>3, RangeOfChosen

LEMMA MergedKinds ==
  ASSUME NEW entries, IsTuple(entries)
  PROVE  IsTuple(Merged(entries)) /\ KindsOf(Merged(entries)) = KindsOf(entries)
<1> DEFINE alike(i, j) == /\ entries[i].kind = entries[j].kind
                          /\ SameDims(entries[i].sel, entries[j].sel)
           later(i) == {entries[j].sel : j \in {k \in DOMAIN entries : k > i /\ alike(i, k)}}
           joined == [i \in DOMAIN entries |->
                        Entry(entries[i].kind, Widened(entries[i].sel, later(i)))]
           places == {i \in DOMAIN entries : \A j \in 1..i - 1 : ~alike(j, i)}
<1>1. Merged(entries) = Chosen(joined, places)
  BY Zenon DEF Merged
<1>2. PICK N \in Nat : entries = [i \in 1..N |-> entries[i]]
  BY DEF IsTuple
<1>3. DOMAIN entries = 1..N
  BY <1>2
<1>4. /\ DOMAIN joined = 1..N /\ \A i \in 1..N : joined[i].kind = entries[i].kind
      /\ joined = [i \in 1..N |-> joined[i]]
  BY <1>3 DEF Entry
<1>5. IsTuple(joined)
  BY <1>4 DEF IsTuple
<1>6. places \in SUBSET DOMAIN joined
  BY <1>3, <1>4
<1>7. ASSUME NEW i \in 1..N PROVE \E m \in places : entries[m].kind = entries[i].kind
  <2> DEFINE S == {m \in 1..N : entries[m].kind = entries[i].kind}
  <2>1. i \in S /\ S \subseteq Nat
    OBVIOUS
  <2>2. PICK m \in S : \A j \in S : m <= j
    <3> HIDE DEF S
    <3> QED BY <2>1, LeastNatural
  <2>3. ASSUME NEW j \in 1..m - 1, alike(j, m) PROVE FALSE
    <3>1. j \in S
      BY <2>3
    <3>2. j \in Nat /\ m \in Nat /\ j < m
      OBVIOUS
    <3> QED BY <2>2, <3>1, <3>2
  <2>4. m \in places
    <3> HIDE DEF alike
    <3> QED BY <1>3, <2>3
  <2> QED BY <2>4
<1> HIDE DEF joined, places
<1>8. /\ IsTuple(Chosen(joined, places))
      /\ Range(Chosen(joined, places)) = {joined[i] : i \in places}
  BY <1>5, <1>6, RangeOfChosen
<1>9. KindsOf(Merged(entries)) = {joined[i].kind : i \in places}
  BY <1>1, <1>8, KindsOfRange
<1>10. KindsOf(entries) = {entries[i].kind : i \in 1..N}
  BY <1>3 DEF KindsOf
<1>11. places \subseteq 1..N
  BY <1>4, <1>6
<1>12. {joined[i].kind : i \in places} = {entries[i].kind : i \in 1..N}
  <2>1. \A i \in places : joined[i].kind = entries[i].kind
    BY <1>4, <1>11
  <2> QED BY ONLY <1>7, <1>11, <2>1
<1> QED BY <1>1, <1>8, <1>9, <1>10, <1>12

LEMMA JoinedKinds ==
  ASSUME NEW s, NEW t, IsTuple(s), IsTuple(t)
  PROVE  IsTuple(s \o t) /\ KindsOf(s \o t) = KindsOf(s) \cup KindsOf(t)
<1>1. PICK m \in Nat : s = [i \in 1..m |-> s[i]]
  BY DEF IsTuple
<1>2. PICK n \in Nat : t = [i \in 1..n |-> t[i]]
  BY DEF IsTuple
<1>3. /\ s \o t = [i \in 1..m + n |-> (s \o t)[i]]
      /\ Range(s \o t) = Range(s) \cup Range(t)
  BY ONLY <1>1, <1>2, JoinedRange
<1>4. m + n \in Nat
  OBVIOUS
<1>5. IsTuple(s \o t)
  BY ONLY <1>3, <1>4 DEF IsTuple
<1>6. {x.kind : x \in Range(s) \cup Range(t)}
        = {x.kind : x \in Range(s)} \cup {x.kind : x \in Range(t)}
  OBVIOUS
<1> QED BY <1>3, <1>5, <1>6, KindsOfRange

LEMMA ShortTuples ==
  /\ IsTuple(<<>>) /\ KindsOf(<<>>) = {}
  /\ \A a : IsTuple(<<a>>) /\ KindsOf(<<a>>) = {a.kind}
  /\ \A a, b, c : /\ IsTuple(<<a, b, c>>)
                  /\ KindsOf(<<a, b, c>>) = {a.kind, b.kind, c.kind}
  /\ \A a, b, c, d, e : /\ IsTuple(<<a, b, c, d, e>>)
                        /\ KindsOf(<<a, b, c, d, e>>) = {a.kind, b.kind, c.kind, d.kind, e.kind}
  /\ \A a, b, c, d, e, f :
       /\ IsTuple(<<a, b, c, d, e, f>>)
       /\ KindsOf(<<a, b, c, d, e, f>>) = {a.kind, b.kind, c.kind, d.kind, e.kind, f.kind}
<1>1. IsTuple(<<>>) /\ KindsOf(<<>>) = {}
  <2>1. <<>> = [i \in 1..0 |-> <<>>[i]] /\ DOMAIN <<>> = {}
    OBVIOUS
  <2> QED BY <2>1 DEF IsTuple, KindsOf
<1>2. ASSUME NEW a PROVE IsTuple(<<a>>) /\ KindsOf(<<a>>) = {a.kind}
  <2> DEFINE t == <<a>>
  <2>1. DOMAIN t = 1..1 /\ t = [i \in 1..1 |-> t[i]] /\ t[1] = a
    OBVIOUS
  <2>2. \A i \in 1..1 : i = 1
    OBVIOUS
  <2> HIDE DEF t
  <2>3. KindsOf(t) = {a.kind}
    BY <2>1, <2>2 DEF KindsOf
  <2>4. IsTuple(t)
    BY <2>1 DEF IsTuple
  <2> QED BY <2>3, <2>4 DEF t
<1>3. ASSUME NEW a, NEW b, NEW c
      PROVE  IsTuple(<<a, b, c>>) /\ KindsOf(<<a, b, c>>) = {a.kind, b.kind, c.kind}
  <2> DEFINE t == <<a, b, c>>
  <2>1. /\ DOMAIN t = 1..3 /\ t = [i \in 1..3 |-> t[i]]
        /\ t[1] = a /\ t[2] = b /\ t[3] = c
    OBVIOUS
  <2>2. \A i : i \in 1..3 <=> i = 1 \/ i = 2 \/ i = 3
    OBVIOUS
  <2> HIDE DEF t
  <2>3. KindsOf(t) = {a.kind, b.kind, c.kind}
    BY <2>1, <2>2 DEF KindsOf
  <2>4. IsTuple(t)
    BY <2>1 DEF IsTuple
  <2> QED BY <2>3, <2>4 DEF t
<1>4. ASSUME NEW a, NEW b, NEW c, NEW d, NEW e
      PROVE  /\ IsTuple(<<a, b, c, d, e>>)
             /\ KindsOf(<<a, b, c, d, e>>) = {a.kind, b.kind, c.kind, d.kind, e.kind}
  <2> DEFINE t == <<a, b, c, d, e>>
  <2>1. /\ DOMAIN t = 1..5 /\ t = [i \in 1..5 |-> t[i]]
        /\ t[1] = a /\ t[2] = b /\ t[3] = c /\ t[4] = d /\ t[5] = e
    OBVIOUS
  <2>2. \A i : i \in 1..5 <=> i = 1 \/ i = 2 \/ i = 3 \/ i = 4 \/ i = 5
    OBVIOUS
  <2> HIDE DEF t
  <2>3. KindsOf(t) = {a.kind, b.kind, c.kind, d.kind, e.kind}
    BY <2>1, <2>2 DEF KindsOf
  <2>4. IsTuple(t)
    BY <2>1 DEF IsTuple
  <2> QED BY <2>3, <2>4 DEF t
<1>5. ASSUME NEW a, NEW b, NEW c, NEW d, NEW e, NEW f
      PROVE  /\ IsTuple(<<a, b, c, d, e, f>>)
             /\ KindsOf(<<a, b, c, d, e, f>>)
                  = {a.kind, b.kind, c.kind, d.kind, e.kind, f.kind}
  <2> DEFINE t == <<a, b, c, d, e, f>>
  <2>1. /\ DOMAIN t = 1..6 /\ t = [i \in 1..6 |-> t[i]]
        /\ t[1] = a /\ t[2] = b /\ t[3] = c /\ t[4] = d /\ t[5] = e /\ t[6] = f
    OBVIOUS
  <2>2. \A i : i \in 1..6 <=> i = 1 \/ i = 2 \/ i = 3 \/ i = 4 \/ i = 5 \/ i = 6
    OBVIOUS
  <2> HIDE DEF t
  <2>3. KindsOf(t) = {a.kind, b.kind, c.kind, d.kind, e.kind, f.kind}
    BY <2>1, <2>2 DEF KindsOf
  <2>4. IsTuple(t)
    BY <2>1 DEF IsTuple
  <2> QED BY <2>3, <2>4 DEF t
<1> QED BY <1>1, <1>2, <1>3, <1>4, <1>5

LEMMA EntrySays == \A kind, sel : Entry(kind, sel).kind = kind /\ Entry(kind, sel).sel = sel
BY DEF Entry

\* The kinds that a task's envelope is made of.
BaseKinds == {"fs.read", "fs.write", "fs.create", "fs.link", "process.exec", "process.exit"}

LEMMA TaskKinds ==
  ASSUME NEW an, NEW home, NEW task, task = Task(an, home)
  PROVE  IsTuple(task) /\ KindsOf(task) \subseteq BaseKinds
<1>1. \/ task = <<>>
      \/ \E a, b, c, d, e :
           /\ task = <<a, b, c, d, e>>
           /\ a.kind = "fs.read" /\ b.kind = "fs.write" /\ c.kind = "fs.create"
           /\ d.kind = "process.exec" /\ e.kind = "process.exit"
      \/ \E a : task = <<a>> /\ a.kind = "fs.read"
  <2>1. \/ task = <<>>
        \/ \E r, x : task = <<Entry("fs.read", r), Entry("fs.write", r), Entry("fs.create", r),
                              Entry("process.exec", x), Entry("process.exit", x)>>
        \/ \E r : task = <<Entry("fs.read", r)>>
    <3>1. CASE home = <<>>
      BY <3>1, Zenon DEF Task
    <3>2. CASE home # <<>> /\ an.task \in {"build", "test", "dependency-install"}
      BY <3>2, Zenon DEF Task
    <3>3. CASE /\ home # <<>> /\ an.task \notin {"build", "test", "dependency-install"}
               /\ ReachesGitRemote(an)
      BY <3>3, Zenon DEF Task
    <3>4. CASE /\ home # <<>> /\ an.task \notin {"build", "test", "dependency-install"}
               /\ ~ReachesGitRemote(an)
      BY <3>4, Zenon DEF Task
    <3> QED BY <3>1, <3>2, <3>3, <3>4, Zenon
  <2>2. ASSUME NEW r, NEW x,
               task = <<Entry("fs.read", r), Entry("fs.write", r), Entry("fs.create", r),
                        Entry("process.exec", x), Entry("process.exit", x)>>
        PROVE  \E a, b, c, d, e :
                 /\ task = <<a, b, c, d, e>>
                 /\ a.kind = "fs.read" /\ b.kind = "fs.write" /\ c.kind = "fs.create"
                 /\ d.kind = "process.exec" /\ e.kind = "process.exit"
    <3>1. PICK a, b, c, d, e :
            /\ a = Entry("fs.read", r) /\ b = Entry("fs.write", r)
            /\ c = Entry("fs.create", r) /\ d = Entry("process.exec", x)
            /\ e = Entry("process.exit", x)
      OBVIOUS
    <3>2. task = <<a, b, c, d, e>>
      BY ONLY <2>2, <3>1
    <3>3. /\ a.kind = "fs.read" /\ b.kind = "fs.write" /\ c.kind = "fs.create"
          /\ d.kind = "process.exec" /\ e.kind = "process.exit"
      BY ONLY <3>1, EntrySays
    <3> QED BY ONLY <3>2, <3>3
  <2>3. ASSUME NEW r, task = <<Entry("fs.read", r)>>
        PROVE  \E a : task = <<a>> /\ a.kind = "fs.read"
    BY ONLY <2>3, EntrySays
  <2> QED BY ONLY <2>1, <2>2, <2>3, Zenon
<1>2. CASE task = <<>>
  BY ONLY <1>2, ShortTuples
<1>3. CASE \E a, b, c, d, e :
             /\ task = <<a, b, c, d, e>>
             /\ a.kind = "fs.read" /\ b.kind = "fs.write" /\ c.kind = "fs.create"
             /\ d.kind = "process.exec" /\ e.kind = "process.exit"
  <2>1. PICK a, b, c, d, e :
          /\ task = <<a, b, c, d, e>>
          /\ a.kind = "fs.read" /\ b.kind = "fs.write" /\ c.kind = "fs.create"
          /\ d.kind = "process.exec" /\ e.kind = "process.exit"
    BY ONLY <1>3
  <2>2. IsTuple(task) /\ KindsOf(task) = {a.kind, b.kind, c.kind, d.kind, e.kind}
    <3>1. /\ IsTuple(<<a, b, c, d, e>>)
          /\ KindsOf(<<a, b, c, d, e>>) = {a.kind, b.kind, c.kind, d.kind, e.kind}
      BY ONLY ShortTuples
    <3> QED BY ONLY <2>1, <3>1
  <2>3. {a.kind, b.kind, c.kind, d.kind, e.kind} \subseteq BaseKinds
    BY ONLY <2>1 DEF BaseKinds
  <2> QED BY ONLY <2>2, <2>3
<1>4. CASE \E a : task = <<a>> /\ a.kind = "fs.read"
  <2>1. PICK a : task = <<a>> /\ a.kind = "fs.read"
    BY ONLY <1>4
  <2>2. IsTuple(task) /\ KindsOf(task) = {a.kind}
    BY ONLY <2>1, ShortTuples, Zenon
  <2> QED BY ONLY <2>1, <2>2 DEF BaseKinds
<1> QED BY ONLY <1>1, <1>2, <1>3, <1>4, Zenon

LEMMA NetworkEntries ==
  ASSUME NEW an, NEW resolvers, NEW network, network = Network(an, resolvers)
  PROVE  IsTuple(network) /\ KindsOf(network) \subseteq {"net.connect"}
<1>1. \/ network = <<>>
      \/ \E s, t :
           /\ network = s \o t
           /\ s = <<>> \/ \E a : s = <<a>> /\ a.kind = "net.connect"
           /\ t = <<>> \/ \E a : t = <<a>> /\ a.kind = "net.connect"
  <2> DEFINE entry(holds, sel) == IF holds THEN <<Entry("net.connect", sel)>> ELSE <<>>
  <2>1. \/ network = <<>>
        \/ \E p, r, q, u : network = entry(p, r) \o entry(q, u)
    <3>1. CASE ~an.network
      BY <3>1, Zenon DEF Network
    <3>2. CASE an.network
      BY <3>2, Zenon DEF Network
    <3> QED BY <3>1, <3>2
  <2>2. \A p, r : entry(p, r) = <<>> \/ \E a : entry(p, r) = <<a>> /\ a.kind = "net.connect"
    BY ONLY EntrySays, Zenon
  <2> HIDE DEF entry
  <2> QED BY ONLY <2>1, <2>2, Zenon
<1>2. ASSUME NEW s, s = <<>> \/ \E a : s = <<a>> /\ a.kind = "net.connect"
      PROVE  IsTuple(s) /\ KindsOf(s) \subseteq {"net.connect"}
  <2>1. CASE s = <<>>
    BY ONLY <2>1, ShortTuples
  <2>2. CASE \E a : s = <<a>> /\ a.kind = "net.connect"
    <3>1. PICK a : s = <<a>> /\ a.kind = "net.connect"
      BY ONLY <2>2
    <3>2. IsTuple(s) /\ KindsOf(s) = {a.kind}
      BY ONLY <3>1, ShortTuples, Zenon
    <3> QED BY ONLY <3>1, <3>2
  <2> QED BY ONLY <1>2, <2>1, <2>2, Zenon
<1>3. CASE network = <<>>
  BY ONLY <1>2, <1>3
<1>4. CASE network # <<>>
  <2>1. PICK s, t :
          /\ network = s \o t
          /\ s = <<>> \/ \E a : s = <<a>> /\ a.kind = "net.connect"
          /\ t = <<>> \/ \E a : t = <<a>> /\ a.kind = "net.connect"
    BY ONLY <1>1, <1>4
  <2>2. /\ IsTuple(s) /\ KindsOf(s) \subseteq {"net.connect"}
        /\ IsTuple(t) /\ KindsOf(t) \subseteq {"net.connect"}
    BY ONLY <1>2, <2>1
  <2>3. IsTuple(s \o t) /\ KindsOf(s \o t) = KindsOf(s) \cup KindsOf(t)
    BY ONLY <2>2, JoinedKinds
  <2> QED BY ONLY <2>1, <2>2, <2>3
<1> QED BY ONLY <1>3, <1>4

LEMMA WantedKinds ==
  ASSUME NEW an, NEW ws, NEW home, NEW resolvers, NEW wanted,
         wanted = Base(ws, home) \o Task(an, home) \o Network(an, resolvers)
  PROVE  /\ IsTuple(wanted) /\ BaseKinds \subseteq KindsOf(wanted)
         /\ KindsOf(wanted) \subseteq BaseKinds \cup {"net.connect"}
<1> PICK base, task, network :
      base = Base(ws, home) /\ task = Task(an, home) /\ network = Network(an, resolvers)
  OBVIOUS
<1>1. IsTuple(base) /\ KindsOf(base) = BaseKinds
  <2>1. \E a, b, c, d, e, f :
          /\ base = <<a, b, c, d, e, f>>
          /\ a.kind = "fs.read" /\ b.kind = "fs.write" /\ c.kind = "fs.create"
          /\ d.kind = "fs.link" /\ e.kind = "process.exec" /\ f.kind = "process.exit"
    <3>1. \E r, w, x :
            base = <<Entry("fs.read", r), Entry("fs.write", w), Entry("fs.create", w),
                     Entry("fs.link", w), Entry("process.exec", x), Entry("process.exit", x)>>
      BY Zenon DEF Base
    <3>2. PICK r, w, x :
            base = <<Entry("fs.read", r), Entry("fs.write", w), Entry("fs.create", w),
                     Entry("fs.link", w), Entry("process.exec", x), Entry("process.exit", x)>>
      BY ONLY <3>1
    <3>3. PICK a, b, c, d, e, f :
            /\ a = Entry("fs.read", r) /\ b = Entry("fs.write", w) /\ c = Entry("fs.create", w)
            /\ d = Entry("fs.link", w) /\ e = Entry("process.exec", x)
            /\ f = Entry("process.exit", x)
      OBVIOUS
    <3>4. base = <<a, b, c, d, e, f>>
      BY ONLY <3>2, <3>3
    <3>5. /\ a.kind = "fs.read" /\ b.kind = "fs.write" /\ c.kind = "fs.create"
          /\ d.kind = "fs.link" /\ e.kind = "process.exec" /\ f.kind = "process.exit"
      BY ONLY <3>3, EntrySays
    <3> QED BY ONLY <3>4, <3>5
  <2>2. PICK a, b, c, d, e, f :
          /\ base = <<a, b, c, d, e, f>>
          /\ a.kind = "fs.read" /\ b.kind = "fs.write" /\ c.kind = "fs.create"
          /\ d.kind = "fs.link" /\ e.kind = "process.exec" /\ f.kind = "process.exit"
    BY ONLY <2>1
  <2>3. IsTuple(base) /\ KindsOf(base) = {a.kind, b.kind, c.kind, d.kind, e.kind, f.kind}
    <3>1. /\ IsTuple(<<a, b, c, d, e, f>>)
          /\ KindsOf(<<a, b, c, d, e, f>>)
               = {a.kind, b.kind, c.kind, d.kind, e.kind, f.kind}
      BY ONLY ShortTuples
    <3> QED BY ONLY <2>2, <3>1
  <2>4. {a.kind, b.kind, c.kind, d.kind, e.kind, f.kind} = BaseKinds
    BY ONLY <2>2 DEF BaseKinds
  <2> QED BY ONLY <2>3, <2>4, Zenon
<1>2. IsTuple(task) /\ KindsOf(task) \subseteq BaseKinds
  BY TaskKinds
<1>3. IsTuple(network) /\ KindsOf(network) \subseteq {"net.connect"}
  BY NetworkEntries
<1>4. IsTuple(base \o task) /\ KindsOf(base \o task) = KindsOf(base) \cup KindsOf(task)
  BY ONLY <1>1, <1>2, JoinedKinds
<1> PICK first : first = base \o task
  OBVIOUS
<1>5. IsTuple(first \o network) /\ KindsOf(first \o network) = KindsOf(first) \cup KindsOf(network)
  BY ONLY <1>3, <1>4, first = base \o task, JoinedKinds
<1>6. wanted = first \o network
  OBVIOUS
<1> QED BY ONLY <1>1, <1>2, <1>3, <1>4, <1>5, <1>6, first = base \o task

LEMMA MadeSays ==
  \A w, g, d, e, r, m, t :
    LET made == [ok |-> TRUE, reason |-> "", warnings |-> w,
                 envelope |-> [grants |-> g, denials |-> d, expires |-> e, root |-> r,
                               maxDuration |-> m, maxProcesses |-> 0, maxWrites |-> 0,
                               maxBytes |-> 0, task |-> t]]
    IN made.warnings = w /\ made.envelope.grants = g /\ made.envelope.denials = d
<1> TAKE w, g, d, e, r, m, t
<1> DEFINE envelope == [grants |-> g, denials |-> d, expires |-> e, root |-> r,
                        maxDuration |-> m, maxProcesses |-> 0, maxWrites |-> 0,
                        maxBytes |-> 0, task |-> t]
           made == [ok |-> TRUE, reason |-> "", warnings |-> w, envelope |-> envelope]
<1>1. envelope.grants = g /\ envelope.denials = d
  BY ONLY Zenon
<1> HIDE DEF envelope
<1>2. made.warnings = w /\ made.envelope = envelope
  BY ONLY Zenon
<1> HIDE DEF made
<1>3. made.warnings = w /\ made.envelope.grants = g /\ made.envelope.denials = d
  BY ONLY <1>1, <1>2
<1> QED BY ONLY <1>3 DEF made, envelope

\* An envelope that was made: what was asked for, without what is forbidden and
\* what nothing observes, and a warning for each of these.
MadeFrom(made, wanted, denied, observable, limits) ==
  LET permitted == OfKinds(wanted, Kinds \ limits.forbidden)
  IN /\ made.envelope.grants = OfKinds(permitted, observable)
     /\ made.envelope.denials = OfKinds(denied, observable)
     /\ \E others :
          /\ made.warnings
               = {<<"grant dropped", g.kind>> :
                    g \in {x \in Range(permitted) : x.kind \notin observable}} \cup others
          /\ \A w \in others :
               \/ \E k : w = <<"denial dropped", k>> \/ w = <<"forbidden", k>>
               \/ w = <<"names are not resolved", "">> \/ w = <<"low confidence", "">>

LEMMA GenerateMakes ==
  ASSUME NEW an, NEW ws, NEW home, NEW resolvers, NEW observable, NEW limits, NEW expires,
         NEW made, made = Generate(an, ws, home, resolvers, observable, limits, expires), made.ok
  PROVE  MadeFrom(made, Merged(Base(ws, home) \o Task(an, home) \o Network(an, resolvers)),
                  Denials(an, ws, home), observable, limits)
<1> PICK wanted, denied :
      /\ wanted = Merged(Base(ws, home) \o Task(an, home) \o Network(an, resolvers))
      /\ denied = Denials(an, ws, home)
  OBVIOUS
<1> PICK permitted : permitted = OfKinds(wanted, Kinds \ limits.forbidden)
  OBVIOUS
<1> PICK grants : grants = OfKinds(permitted, observable)
  OBVIOUS
<1> DEFINE dropped(entries, what) ==
             {<<what, g.kind>> : g \in {x \in Range(entries) : x.kind \notin observable}}
           warn(holds, what) == IF holds THEN {<<what, "">>} ELSE {}
           named == dropped(permitted, "grant dropped")
           forbidden == {<<"forbidden", g.kind>> : g \in Range(wanted) \ Range(permitted)}
           names == warn(\E g \in Range(grants) : NamesHosts(g), "names are not resolved")
           low == warn(an.confidence < limits.minConfidence, "low confidence")
           warnings == named \cup dropped(denied, "denial dropped") \cup forbidden \cup names \cup low
           full == [ok |-> TRUE, reason |-> "", warnings |-> warnings,
                    envelope |->
                      [grants |-> grants, denials |-> OfKinds(denied, observable),
                       expires |-> expires, root |-> ws, maxDuration |-> limits.ttl,
                       maxProcesses |-> 0, maxWrites |-> 0, maxBytes |-> 0, task |-> an.task]]
<1>1. \/ \E reason : made = NotGenerated(reason)
      \/ made = full
  BY Zenon DEF Generate
<1>2. \A reason : NotGenerated(reason).ok = FALSE
  BY DEF NotGenerated
<1>3. made = full
  BY <1>1, <1>2
<1>4. /\ made.warnings = warnings /\ made.envelope.grants = grants
      /\ made.envelope.denials = OfKinds(denied, observable)
  <2> HIDE DEF warnings
  <2> QED BY ONLY <1>3, MadeSays, Zenon
<1> DEFINE others == dropped(denied, "denial dropped") \cup forbidden \cup names \cup low
<1>5. warnings = named \cup others
  <2> HIDE DEF named, forbidden, names, low, dropped
  <2> QED OBVIOUS
<1>6. \A w \in others :
        \/ \E k : w = <<"denial dropped", k>> \/ w = <<"forbidden", k>>
        \/ w = <<"names are not resolved", "">> \/ w = <<"low confidence", "">>
  <2>1. \A w \in dropped(denied, "denial dropped") : \E k : w = <<"denial dropped", k>>
    BY ONLY Zenon
  <2>2. \A w \in forbidden : \E k : w = <<"forbidden", k>>
    BY ONLY Zenon
  <2>3. /\ \A w \in names : w = <<"names are not resolved", "">>
        /\ \A w \in low : w = <<"low confidence", "">>
    BY ONLY Zenon
  <2> HIDE DEF forbidden, names, low, dropped
  <2> QED BY ONLY <2>1, <2>2, <2>3, Zenon
<1> HIDE DEF others, warnings
<1>7. made.warnings = named \cup others
  BY <1>4, <1>5
<1>8. MadeFrom(made, wanted, denied, observable, limits)
  BY <1>4, <1>6, <1>7, Zenon DEF MadeFrom
<1> QED BY <1>8

LEMMA DenialsAreTuple ==
  ASSUME NEW an, NEW ws, NEW home
  PROVE  IsTuple(Denials(an, ws, home))
<1>1. \E a, b, c : Denials(an, ws, home) = <<a, b, c>>
  BY Zenon DEF Denials
<1>2. \A a, b, c : IsTuple(<<a, b, c>>)
  BY ONLY ShortTuples
<1> QED BY ONLY <1>1, <1>2

LEMMA MadeHonestly ==
  ASSUME NEW made, NEW wanted, NEW denied, NEW observable, NEW limits,
         IsTuple(wanted), IsTuple(denied),
         BaseKinds \subseteq KindsOf(wanted), KindsOf(wanted) \subseteq BaseKinds \cup {"net.connect"},
         (BaseKinds \cup {"net.connect"}) \ {"fs.link"} \subseteq observable,
         MadeFrom(made, wanted, denied, observable, limits)
  PROVE  /\ KindsOf(made.envelope.grants) \cup KindsOf(made.envelope.denials) \subseteq observable
         /\ \A w \in made.warnings : w[1] \notin {"unobservable", "no records", "successes only"}
         /\ Naming(made.warnings, "grant dropped")
              = {<<"grant dropped", k>> : k \in {"fs.link"} \ (observable \cup limits.forbidden)}
<1> PICK permitted : permitted = OfKinds(wanted, Kinds \ limits.forbidden)
  OBVIOUS
<1>1. /\ IsTuple(permitted)
      /\ Range(permitted) = {x \in Range(wanted) : x.kind \in Kinds \ limits.forbidden}
  BY OfKindsSays
<1>2. /\ Range(OfKinds(permitted, observable)) = {x \in Range(permitted) : x.kind \in observable}
      /\ Range(OfKinds(denied, observable)) = {x \in Range(denied) : x.kind \in observable}
  BY <1>1, OfKindsSays
<1>3. PICK others :
        /\ made.envelope.grants = OfKinds(permitted, observable)
        /\ made.envelope.denials = OfKinds(denied, observable)
        /\ made.warnings
             = {<<"grant dropped", g.kind>> :
                  g \in {x \in Range(permitted) : x.kind \notin observable}} \cup others
        /\ \A w \in others :
             \/ \E k : w = <<"denial dropped", k>> \/ w = <<"forbidden", k>>
             \/ w = <<"names are not resolved", "">> \/ w = <<"low confidence", "">>
  BY DEF MadeFrom
<1>4. KindsOf(made.envelope.grants) \cup KindsOf(made.envelope.denials) \subseteq observable
  <2> PICK grants, denials : grants = made.envelope.grants /\ denials = made.envelope.denials
    OBVIOUS
  <2>1. \A x \in Range(grants) \cup Range(denials) : x.kind \in observable
    BY <1>2, <1>3
  <2>2. /\ KindsOf(grants) = {x.kind : x \in Range(grants)}
        /\ KindsOf(denials) = {x.kind : x \in Range(denials)}
    BY ONLY KindsOfRange
  <2>3. KindsOf(grants) \cup KindsOf(denials) \subseteq observable
    BY ONLY <2>1, <2>2
  <2> QED BY <2>3
<1> DEFINE Dropped(w) == \E g \in Range(permitted) : g.kind \notin observable
                                                     /\ w = <<"grant dropped", g.kind>>
<1>5. \A w : w \in made.warnings <=> Dropped(w) \/ w \in others
  BY <1>3
<1>6. \A w : Dropped(w) => w[1] = "grant dropped"
  <2>1. ASSUME NEW k, NEW w, w = <<"grant dropped", k>> PROVE w[1] = "grant dropped"
    BY ONLY <2>1
  <2> QED BY <2>1
<1>7. \A w \in others : w[1] \in {"denial dropped", "forbidden", "names are not resolved",
                                  "low confidence"}
  <2>1. ASSUME NEW k, NEW w, w = <<"denial dropped", k>> PROVE w[1] = "denial dropped"
    BY ONLY <2>1
  <2>2. ASSUME NEW k, NEW w, w = <<"forbidden", k>> PROVE w[1] = "forbidden"
    BY ONLY <2>2
  <2>3. ASSUME NEW w, w = <<"names are not resolved", "">> PROVE w[1] = "names are not resolved"
    BY ONLY <2>3
  <2>4. ASSUME NEW w, w = <<"low confidence", "">> PROVE w[1] = "low confidence"
    BY ONLY <2>4
  <2> QED BY ONLY <1>3, <2>1, <2>2, <2>3, <2>4
<1>8. "fs.link" \in Kinds /\ "fs.link" \in BaseKinds
  BY DEF Kinds, FilesystemKinds, ProcessKinds, NetworkKinds, PrivilegeKinds, IPCKinds, BaseKinds
<1>9. KindsOf(wanted) = {x.kind : x \in Range(wanted)}
  BY KindsOfRange
<1>10. \A k : (\E g \in Range(permitted) : g.kind = k /\ k \notin observable)
                <=> k \in {"fs.link"} \ (observable \cup limits.forbidden)
  <2> TAKE k
  <2>1. (\E g \in Range(permitted) : g.kind = k)
          <=> k \in KindsOf(wanted) /\ k \in Kinds \ limits.forbidden
    BY <1>1, <1>9
  <2>2. k \in KindsOf(wanted) /\ k \notin observable <=> k = "fs.link" /\ k \notin observable
    BY <1>8
  <2> QED BY <1>8, <2>1, <2>2
<1>11. \A w : Dropped(w)
               <=> \E k \in {"fs.link"} \ (observable \cup limits.forbidden) : w = <<"grant dropped", k>>
  BY <1>10
<1> HIDE DEF Dropped
<1>12. \A w \in made.warnings : w[1] \notin {"unobservable", "no records", "successes only"}
  BY ONLY <1>5, <1>6, <1>7
<1>13. \A w : w \in made.warnings /\ w[1] = "grant dropped" <=> Dropped(w)
  BY ONLY <1>5, <1>6, <1>7
<1>14. Naming(made.warnings, "grant dropped")
         = {<<"grant dropped", k>> : k \in {"fs.link"} \ (observable \cup limits.forbidden)}
  BY ONLY <1>11, <1>13 DEF Naming
<1> QED BY <1>4, <1>12, <1>14

-----------------------------------------------------------------------------
\* What the self-test saw run reports a refused open.
LEMMA SelfTestReports ==
  ASSUME NEW host, NEW A \in SUBSET AllProbes, SelfTestPasses(host, A)
  PROVE  Reported(A \ host.silent, "fs.read", "openat", TRUE)
<1> PICK B, p : B = A \ host.silent /\ p = EmitterOf("openat")
  OBVIOUS
<1>1. B \in SUBSET AllProbes
  OBVIOUS
<1>2. "openat" \in Range(AllFamilies)
  BY FamilyNames
<1>3. "openat" \in Complete(B)
  BY <1>2 DEF SelfTestPasses, Complete
<1>4. p.emits = "file_open" /\ "openat" \in p.calls /\ p.successOnly = FALSE
  BY DEF EmitterOf, Program, OpenCalls
<1>5. "fs.read" \in Reports(p)
  BY <1>4 DEF Reports, CapabilitiesFor
<1>6. /\ "fs.read" \in Family["openat"].kinds /\ "openat" \in Family["openat"].calls
      /\ ~Family["openat"].successOnly
  BY <1>2, <1>4, <1>5, FamilyIs
<1>7. Reported(B, "fs.read", "openat", TRUE)
  BY <1>1, <1>3, <1>6, ReportedIsWatched
<1> QED BY <1>7

\* A daemon that has started sees the kinds every envelope is made of, but for links.
LEMMA StartedSees ==
  ASSUME NEW A \in SUBSET AllProbes, NEW coverage, coverage = ComputeCoverage(A),
         coverage.floorIntact, UnobservableCore(coverage) = {}
  PROVE  (BaseKinds \cup {"net.connect"}) \ {"fs.link"} \subseteq ReportedKinds(A)
<1>1. FloorFamilies \subseteq Complete(A) /\ coverage.observable = ReportedKinds(A)
  BY CoverageIs
<1>2. CoreKinds \subseteq ReportedKinds(A)
  BY <1>1 DEF UnobservableCore
<1>3. ASSUME NEW f \in FloorFamilies PROVE Reports(EmitterOf(f)) \subseteq ReportedKinds(A)
  <2>1. f \in Range(AllFamilies)
    BY FamilyNames DEF FloorFamilies, SoloFamilies
  <2>2. Family[f].kinds = Reports(EmitterOf(f))
    BY <2>1, FamilyIs
  <2> QED BY <1>1, <2>2, ReportedKindsAre
<1>4. /\ EmitterOf("proc_exec").emits = "proc_exec" /\ EmitterOf("proc_exit").emits = "proc_exit"
  BY DEF EmitterOf, Program
<1>5. /\ Reports(EmitterOf("proc_exec")) = {"process.exec"}
      /\ Reports(EmitterOf("proc_exit")) = {"process.exit"}
  BY <1>4 DEF Reports, CapabilitiesFor
<1>6. "process.exec" \in ReportedKinds(A) /\ "process.exit" \in ReportedKinds(A)
  BY <1>3, <1>5 DEF FloorFamilies
<1> QED BY <1>2, <1>6 DEF BaseKinds, CoreKinds

\* What a session says of the host and of the limits it was created under: what
\* will not be seen of it, and what its envelope left out.
Honest(s, A, limits, host) ==
  LET seen == ReportedKinds(A)
      unseen == ReportedKinds(AllProbes) \ seen
      unreported(k) == LostCalls(A, k, FALSE)
      weakened(k) == LostCalls(A, k, TRUE) \ unreported(k)
  IN /\ Naming(s.warnings, "unobservable") = {<<"unobservable", k>> : k \in unseen}
     /\ Naming(s.warnings, "no records")
          = {<<"no records", k, unreported(k)>> : k \in {x \in seen : unreported(x) # {}}}
     /\ Naming(s.warnings, "successes only")
          = {<<"successes only", k, weakened(k)>> : k \in {x \in seen : weakened(x) # {}}}
     /\ KindsOf(s.envelope.grants) \cup KindsOf(s.envelope.denials) \subseteq seen
     /\ Naming(s.warnings, "grant dropped")
          = {<<"grant dropped", k>> : k \in {"fs.link"} \ (seen \cup limits.forbidden)}
     /\ s.mode = "enforce" => unseen = {} /\ \A k \in seen : LostCalls(A, k, TRUE) = {}
     /\ Reported(A \ host.silent, "fs.read", "openat", TRUE)

LEMMA SessionsAreHonest ==
  ASSUME NEW a \in Created
  PROVE  Honest(a.session, a.attached, a.daemon.limits, a.host)
<1> PICK s, A, limits, host :
      s = a.session /\ A = a.attached /\ limits = a.daemon.limits /\ host = a.host
  OBVIOUS
<1> PICK seen : seen = ReportedKinds(A)
  OBVIOUS
<1> PICK named, started, an, made : MadeFor(a, named, started, an, made)
  BY ONLY a \in Created, CreatedFrom
<1>1. /\ started = Startup(host, named) /\ A = started.attached
      /\ made = Generate(an, a.request.ws, a.request.home, a.daemon.resolvers,
                         started.coverage.observable, limits, limits.ttl)
      /\ AnsweredFrom(s, started, made, a.request.mode)
  BY DEF MadeFor
<1>2. started.ok /\ made.ok
  BY <1>1 DEF AnsweredFrom
<1>3. /\ A \in SUBSET AllProbes /\ started.coverage = ComputeCoverage(A)
      /\ started.coverage.floorIntact /\ UnobservableCore(started.coverage) = {}
      /\ SelfTestPasses(host, A)
  BY ONLY <1>1, <1>2, StartedHas
<1> PICK coverage : coverage = started.coverage
  OBVIOUS
<1>4. /\ coverage = ComputeCoverage(A) /\ coverage.observable = seen
      /\ coverage.degraded = (Complete(A) # Range(AllFamilies))
      /\ (BaseKinds \cup {"net.connect"}) \ {"fs.link"} \subseteq seen
  BY ONLY <1>3, coverage = started.coverage, seen = ReportedKinds(A), CoverageIs, StartedSees
<1> PICK wanted, denied, joined :
      /\ joined = Base(a.request.ws, a.request.home) \o Task(an, a.request.home)
                    \o Network(an, a.daemon.resolvers)
      /\ wanted = Merged(joined)
      /\ denied = Denials(an, a.request.ws, a.request.home)
  OBVIOUS
<1>5. /\ IsTuple(joined) /\ BaseKinds \subseteq KindsOf(joined)
      /\ KindsOf(joined) \subseteq BaseKinds \cup {"net.connect"}
  BY WantedKinds
<1>6. IsTuple(wanted) /\ KindsOf(wanted) = KindsOf(joined)
  BY ONLY <1>5, wanted = Merged(joined), MergedKinds
<1>7. IsTuple(denied)
  BY DenialsAreTuple
<1>8. MadeFrom(made, wanted, denied, seen, limits)
  <2> PICK ws, home, resolvers, expires :
        /\ ws = a.request.ws /\ home = a.request.home /\ resolvers = a.daemon.resolvers
        /\ expires = limits.ttl
    OBVIOUS
  <2>1. made = Generate(an, ws, home, resolvers, seen, limits, expires)
    BY <1>1, <1>4
  <2>2. MadeFrom(made, Merged(Base(ws, home) \o Task(an, home) \o Network(an, resolvers)),
                 Denials(an, ws, home), seen, limits)
    BY ONLY <1>2, <2>1, GenerateMakes
  <2> QED BY <2>2
<1>9. /\ KindsOf(made.envelope.grants) \cup KindsOf(made.envelope.denials) \subseteq seen
      /\ \A w \in made.warnings : w[1] \notin {"unobservable", "no records", "successes only"}
      /\ Naming(made.warnings, "grant dropped")
           = {<<"grant dropped", k>> : k \in {"fs.link"} \ (seen \cup limits.forbidden)}
  <2>1. BaseKinds \subseteq KindsOf(wanted)
    BY ONLY <1>5, <1>6
  <2>2. KindsOf(wanted) \subseteq BaseKinds \cup {"net.connect"}
    BY ONLY <1>5, <1>6
  <2>3. (BaseKinds \cup {"net.connect"}) \ {"fs.link"} \subseteq seen
    BY ONLY <1>4
  <2>4. IsTuple(wanted)
    BY ONLY <1>6
  <2> QED BY ONLY <1>7, <1>8, <2>1, <2>2, <2>3, <2>4, MadeHonestly, Zenon
<1>10. PICK weaker, asked, told :
         /\ told = CoverageWarnings(ComputeCoverage(A))
         /\ s.warnings = made.warnings \cup weaker \cup told
         /\ \A w \in weaker : w = <<"weaker mode", asked>>
  <2>1. \E weaker : /\ s.warnings = made.warnings \cup weaker \cup CoverageWarnings(started.coverage)
                    /\ \A w \in weaker : w = <<"weaker mode", a.request.mode>>
    BY <1>1, Zenon DEF AnsweredFrom
  <2> QED BY <1>3, <2>1
<1>11. \A w \in weaker : w[1] = "weaker mode"
  <2>1. ASSUME NEW w, w = <<"weaker mode", asked>> PROVE w[1] = "weaker mode"
    BY ONLY <2>1
  <2> QED BY ONLY <1>10, <2>1
<1>12. /\ \A what \in {"unobservable", "no records", "successes only"} :
            Naming(s.warnings, what) = Naming(told, what)
       /\ Naming(told, "grant dropped") = {} =>
            Naming(s.warnings, "grant dropped") = Naming(made.warnings, "grant dropped")
  BY ONLY <1>9, <1>10, <1>11 DEF Naming
<1> PICK unseen : unseen = ReportedKinds(AllProbes) \ seen
  OBVIOUS
<1>13. /\ Naming(told, "unobservable") = {<<"unobservable", k>> : k \in unseen}
       /\ Naming(told, "no records")
            = {<<"no records", k, LostCalls(A, k, FALSE)>> :
                 k \in {x \in seen : LostCalls(A, x, FALSE) # {}}}
       /\ Naming(told, "successes only")
            = {<<"successes only", k, LostCalls(A, k, TRUE) \ LostCalls(A, k, FALSE)>> :
                 k \in {x \in seen : LostCalls(A, x, TRUE) \ LostCalls(A, x, FALSE) # {}}}
       /\ Naming(told, "grant dropped") = {}
  <2>1. /\ Naming(told, "unobservable")
             = {<<"unobservable", k>> : k \in ReportedKinds(AllProbes) \ ReportedKinds(A)}
        /\ Naming(told, "no records")
             = {<<"no records", k, LostCalls(A, k, FALSE)>> :
                  k \in {x \in ReportedKinds(A) : LostCalls(A, x, FALSE) # {}}}
        /\ Naming(told, "successes only")
             = {<<"successes only", k, LostCalls(A, k, TRUE) \ LostCalls(A, k, FALSE)>> :
                  k \in {x \in ReportedKinds(A) :
                           LostCalls(A, x, TRUE) \ LostCalls(A, x, FALSE) # {}}}
        /\ Naming(told, "grant dropped") = {}
    BY ONLY <1>3, <1>10, CoverageIsTold
  <2> QED BY ONLY <2>1, seen = ReportedKinds(A), unseen = ReportedKinds(AllProbes) \ seen
<1>14. s.mode = "enforce" => unseen = {} /\ \A k \in seen : LostCalls(A, k, TRUE) = {}
  <2>1. s.mode = "enforce" => Complete(A) = Range(AllFamilies)
    BY <1>1, <1>4 DEF AnsweredFrom
  <2> QED BY <1>3, <2>1, WholeLosesNothing
<1>15. Reported(A \ host.silent, "fs.read", "openat", TRUE)
  BY ONLY <1>3, SelfTestReports
<1>16. s.envelope = made.envelope
  BY <1>1 DEF AnsweredFrom
<1>17. /\ Naming(s.warnings, "unobservable") = {<<"unobservable", k>> : k \in unseen}
       /\ Naming(s.warnings, "no records")
            = {<<"no records", k, LostCalls(A, k, FALSE)>> :
                 k \in {x \in seen : LostCalls(A, x, FALSE) # {}}}
       /\ Naming(s.warnings, "successes only")
            = {<<"successes only", k, LostCalls(A, k, TRUE) \ LostCalls(A, k, FALSE)>> :
                 k \in {x \in seen : LostCalls(A, x, TRUE) \ LostCalls(A, x, FALSE) # {}}}
  BY ONLY <1>12, <1>13
<1>18. KindsOf(s.envelope.grants) \cup KindsOf(s.envelope.denials) \subseteq seen
  BY ONLY <1>9, <1>16
<1>19. Naming(s.warnings, "grant dropped")
         = {<<"grant dropped", k>> : k \in {"fs.link"} \ (seen \cup limits.forbidden)}
  BY ONLY <1>9, <1>12, <1>13
<1>20. Honest(s, A, limits, host)
  BY ONLY <1>14, <1>15, <1>17, <1>18, <1>19, Zenon,
          seen = ReportedKinds(A), unseen = ReportedKinds(AllProbes) \ seen DEF Honest
<1> QED BY ONLY <1>20, s = a.session /\ A = a.attached /\ limits = a.daemon.limits /\ host = a.host

\* createSession answers with exactly what ComputeCoverage lost and Generate left
\* out: on every host, for every configuration and for every request, whoever creates
\* a session is told what will not be seen of it.
THEOREM AdmissionsAreHonest == Spec => []AdmissionIsHonest
<1>1. AdmissionIsHonest
  BY SessionsAreHonest, Zenon DEF AdmissionIsHonest, Honest
<1> QED BY <1>1, PTL

-----------------------------------------------------------------------------
\* What an operation on a file is judged as.
FileKinds == {"fs.read", "fs.write", "fs.create", "fs.link"}

LEMMA FileKindsAre ==
  \A k \in FileKinds :
    /\ DomainOf(k) = "filesystem" /\ Applicable(k) = {"paths"}
    /\ ~SpawnsProcess(k) /\ k # ""
<1>1. \A k \in FileKinds : DomainOf(k) = "filesystem"
  BY DEF FileKinds, DomainOf, FilesystemKinds, ProcessKinds, NetworkKinds, PrivilegeKinds,
         IPCKinds, KernelKinds
<1> QED BY <1>1 DEF FileKinds, Applicable, SpawnsProcess

LEMMA EventsSay ==
  \A k, p, t, f, h, po, pr, a, tr, x, s, u, o, b, d :
    LET e == [kind |-> k, payload |-> p, path |-> t, flags |-> f, hosts |-> h, port |-> po,
              protocol |-> pr, argv |-> a, truncated |-> tr, executable |-> x, clock |-> 0,
              id |-> 0, succeeded |-> s, unverified |-> u, own |-> o, bytes |-> b, dropped |-> d]
    IN e.kind = k /\ e.payload = p /\ e.path = t /\ e.flags = f /\ e.clock = 0
OBVIOUS

LEMMA DecodeSays ==
  \A r : LET e == Decode(r)
         IN /\ e.kind = KindOfRecord(r) /\ e.payload = PayloadOf(r) /\ e.path = TargetPath(r)
            /\ e.flags = Flags(r.access, r.creat) /\ e.clock = 0
BY ONLY EventsSay, Zenon DEF Decode

\* An open and a link of a path, and what they are decoded to.
Opens(e, path, access, creat) ==
  /\ path # <<>> /\ access \in {"rdonly", "wronly", "rdwr"} /\ creat \in BOOLEAN
  /\ e = Opening(path, access, creat)

OpenedAs(e, path, access, creat) ==
  /\ e.kind = IF creat THEN "fs.create" ELSE IF access = "rdonly" THEN "fs.read" ELSE "fs.write"
  /\ e.payload = "file" /\ e.path = path /\ e.flags = Flags(access, creat) /\ e.clock = 0

LinkedAs(e, path) == e.kind = "fs.link" /\ e.payload = "file" /\ e.path = path /\ e.clock = 0

LEMMA OpeningIs ==
  ASSUME NEW path, NEW access, NEW creat, NEW e, Opens(e, path, access, creat)
  PROVE  OpenedAs(e, path, access, creat)
<1>0. /\ path # <<>> /\ access \in {"rdonly", "wronly", "rdwr"} /\ creat \in BOOLEAN
      /\ e = Opening(path, access, creat)
  BY DEF Opens
<1> DEFINE r == [Cleared EXCEPT !.type = "file_open", !.name = path, !.found = path,
                                !.access = access, !.creat = creat, !.flags = {"info"}]
<1>1. /\ r.type = "file_open" /\ r.name = path /\ r.found = path /\ r.access = access
      /\ r.creat = creat /\ r.flags = {"info"} /\ r.absolute = TRUE
  BY DEF Cleared
<1>2. e = Decode(r)
  BY <1>0 DEF Opening
<1> HIDE DEF r
<1>3. PayloadOf(r) = "file" /\ KindOfRecord(r) = KindForOpenFlags(r)
  BY <1>1 DEF PayloadOf, KindOfRecord
<1>4. ~IsTruncated(r) /\ ~IsKernelPath(r) /\ DirStatus(r) = ""
  <2>1. ~IsTruncated(r)
    BY <1>1, <1>3 DEF IsTruncated
  <2>2. ~IsKernelPath(r) /\ DirStatus(r) = ""
    BY <1>1 DEF IsKernelPath, DirStatus
  <2> QED BY <2>1, <2>2
<1>5. TargetPath(r) = path
  <2>1. Resolved(r) = path
    BY <1>0, <1>1, <1>4 DEF Resolved
  <2> QED BY <1>3, <2>1 DEF TargetPath
<1>6. /\ e.kind = KindOfRecord(r) /\ e.payload = PayloadOf(r) /\ e.path = TargetPath(r)
      /\ e.flags = Flags(r.access, r.creat) /\ e.clock = 0
  BY ONLY <1>2, DecodeSays
<1>7. KindForOpenFlags(r) = IF creat THEN "fs.create" ELSE IF access = "rdonly" THEN "fs.read"
                            ELSE "fs.write"
  BY <1>1 DEF KindForOpenFlags
<1> QED BY ONLY <1>1, <1>3, <1>5, <1>6, <1>7 DEF OpenedAs

LEMMA LinkingIs ==
  ASSUME NEW path, path # <<>>, NEW e, e = Linking(path)
  PROVE  LinkedAs(e, path)
<1> DEFINE r == [Cleared EXCEPT !.type = "file_link", !.name = path, !.flags = {"complete"}]
<1>1. r.type = "file_link" /\ r.name = path /\ r.flags = {"complete"} /\ r.absolute = TRUE
  BY DEF Cleared
<1>2. e = Decode(r)
  BY DEF Linking
<1> HIDE DEF r
<1>3. PayloadOf(r) = "file" /\ KindOfRecord(r) = "fs.link"
  BY <1>1 DEF PayloadOf, KindOfRecord
<1>4. ~IsTruncated(r) /\ IsKernelPath(r)
  BY <1>1 DEF IsTruncated, IsKernelPath, WalkedByKernel
<1>5. TargetPath(r) = path
  <2>1. Resolved(r) = path
    BY <1>1, <1>4 DEF Resolved
  <2> QED BY <1>3, <2>1 DEF TargetPath
<1>6. /\ e.kind = KindOfRecord(r) /\ e.payload = PayloadOf(r) /\ e.path = TargetPath(r)
      /\ e.clock = 0
  BY ONLY <1>2, DecodeSays
<1> QED BY ONLY <1>3, <1>5, <1>6 DEF LinkedAs

LEMMA FilesAreFew == IsFiniteSet(FileKinds)
<1>1. \A S, x : IsFiniteSet(S) => IsFiniteSet(S \cup {x})
  BY FS_AddElement
<1>2. IsFiniteSet({} \cup {"fs.read"} \cup {"fs.write"} \cup {"fs.create"} \cup {"fs.link"})
  BY <1>1, FS_EmptySet
<1>3. FileKinds = {} \cup {"fs.read"} \cup {"fs.write"} \cup {"fs.create"} \cup {"fs.link"}
  BY DEF FileKinds
<1> QED BY <1>2, <1>3

LEMMA AtLeastTwo ==
  ASSUME NEW S, IsFiniteSet(S), NEW a \in S, NEW b \in S, a # b
  PROVE  ~(Cardinality(S) < 2)
<1>1. Cardinality(S) \in Nat
  BY FS_CardinalityType
<1>2. Cardinality(S) # 0
  BY FS_EmptySet
<1>3. Cardinality(S) # 1
  BY FS_Singleton
<1> QED BY <1>1, <1>2, <1>3

\* The kinds a denial is consulted for.
LEMMA OpeningDenied ==
  ASSUME NEW path, NEW access, NEW creat, NEW e, Opens(e, path, access, creat)
  PROVE  /\ ExercisedBesides(e) \subseteq {"fs.read", "fs.write", "fs.create"}
         /\ access # "wronly" => "fs.read" \in {e.kind} \cup ExercisedBesides(e)
         /\ access # "rdonly" \/ creat => "fs.write" \in {e.kind} \cup ExercisedBesides(e)
<1>1. /\ e.kind = IF creat THEN "fs.create" ELSE IF access = "rdonly" THEN "fs.read"
                  ELSE "fs.write"
      /\ e.payload = "file" /\ e.flags = Flags(access, creat)
  BY OpeningIs DEF OpenedAs
<1>0. access \in {"rdonly", "wronly", "rdwr"} /\ creat \in BOOLEAN
  BY DEF Opens
<1> DEFINE kinds == OpenExercises(e.flags)
<1>2. e.flags.access = access /\ e.flags.creat = creat
  BY <1>1 DEF Flags
<1>3. /\ kinds \subseteq {"fs.read", "fs.write", "fs.create"}
      /\ "fs.read" \in kinds <=> access # "wronly"
      /\ "fs.write" \in kinds <=> access # "rdonly" \/ creat
      /\ "fs.create" \in kinds <=> creat
  BY <1>0, <1>2 DEF OpenExercises
<1>4. e.kind \in kinds
  BY <1>1, <1>3
<1>5. ExercisedBesides(e) = IF Cardinality(kinds) < 2 THEN {} ELSE kinds \ {e.kind}
  <2>1. e.kind # "fs.link" /\ ~(e.payload # "file")
    BY <1>1
  <2> QED BY <2>1, Zenon DEF ExercisedBesides
<1>6. IsFiniteSet(kinds)
  <2>1. kinds \subseteq FileKinds
    BY <1>3 DEF FileKinds
  <2> QED BY <2>1, FilesAreFew, FS_Subset
<1> HIDE DEF kinds
<1>7. \A k \in kinds : k \in {e.kind} \cup ExercisedBesides(e)
  <2> TAKE k \in kinds
  <2>1. k # e.kind => ~(Cardinality(kinds) < 2)
    BY <1>4, <1>6, AtLeastTwo
  <2> QED BY <1>5, <2>1
<1> QED BY <1>3, <1>5, <1>7

LEMMA LinkingDenied ==
  ASSUME NEW path, path # <<>>, NEW e, e = Linking(path)
  PROVE  ExercisedBesides(e) = {"fs.read", "fs.write"}
<1> DEFINE kinds == {"fs.link", "fs.read", "fs.write"}
<1>1. e.kind = "fs.link" /\ e.payload = "file"
  BY LinkingIs DEF LinkedAs
<1>2. ExercisedBesides(e) = IF Cardinality(kinds) < 2 THEN {} ELSE kinds \ {"fs.link"}
  <2>1. ~(e.payload # "file")
    BY <1>1
  <2> QED BY <1>1, <2>1, Zenon DEF ExercisedBesides
<1>3. IsFiniteSet(kinds)
  <2>1. kinds \subseteq FileKinds
    BY DEF FileKinds
  <2> QED BY <2>1, FilesAreFew, FS_Subset
<1>4. ~(Cardinality(kinds) < 2)
  <2>1. "fs.link" \in kinds /\ "fs.read" \in kinds /\ "fs.link" # "fs.read"
    OBVIOUS
  <2> HIDE DEF kinds
  <2> QED BY <1>3, <2>1, AtLeastTwo
<1> QED BY <1>2, <1>4

LEMMA FileIsObserved ==
  ASSUME NEW e, e.kind \in FileKinds, e.payload = "file"
  PROVE  Observe(e).kind = e.kind /\ Observe(e).target = e.path /\ Observe(e) # Unobservable
<1> DEFINE of == [Unobservable EXCEPT !.kind = e.kind]
<1>1. DomainOf(e.kind) = "filesystem" /\ e.kind # ""
  BY FileKindsAre
<1>2. Observe(e) = [of EXCEPT !.target = e.path]
  BY <1>1 DEF Observe
<1>3. Observe(e).kind = e.kind /\ Observe(e).target = e.path /\ Unobservable.kind = ""
  BY <1>2 DEF Unobservable
<1> QED BY <1>1, <1>3

\* Every way to an operation on a path is one of an open or a link.
IsOperation(e, path) ==
  /\ e.kind \in FileKinds /\ e.payload = "file" /\ e.path = path /\ e.clock = 0
  /\ Observe(e).kind = e.kind /\ Observe(e).target = path /\ Observe(e) # Unobservable
  /\ DeniableKinds(e, Observe(e)) \subseteq FileKinds

LEMMA WaysAreOperations ==
  ASSUME NEW path, path # <<>>
  PROVE  /\ \A e \in WaysToRead(path) :
              IsOperation(e, path) /\ "fs.read" \in DeniableKinds(e, Observe(e))
         /\ \A e \in WaysToChange(path) :
              IsOperation(e, path) /\ "fs.write" \in DeniableKinds(e, Observe(e))
<1>1. ASSUME NEW access \in {"rdonly", "wronly", "rdwr"}, NEW creat \in BOOLEAN,
             NEW e, e = Opening(path, access, creat)
      PROVE  /\ IsOperation(e, path)
             /\ access # "wronly" => "fs.read" \in DeniableKinds(e, Observe(e))
             /\ access # "rdonly" \/ creat => "fs.write" \in DeniableKinds(e, Observe(e))
  <2>0. Opens(e, path, access, creat)
    BY <1>1 DEF Opens
  <2>1. /\ e.kind \in FileKinds /\ e.payload = "file" /\ e.path = path /\ e.clock = 0
    BY <2>0, OpeningIs DEF FileKinds, OpenedAs
  <2>2. Observe(e).kind = e.kind /\ Observe(e).target = path /\ Observe(e) # Unobservable
    BY <2>1, FileIsObserved
  <2>3. DeniableKinds(e, Observe(e)) = {e.kind} \cup ExercisedBesides(e)
    BY <2>2 DEF DeniableKinds
  <2>4. /\ ExercisedBesides(e) \subseteq {"fs.read", "fs.write", "fs.create"}
        /\ access # "wronly" => "fs.read" \in {e.kind} \cup ExercisedBesides(e)
        /\ access # "rdonly" \/ creat => "fs.write" \in {e.kind} \cup ExercisedBesides(e)
    BY <2>0, OpeningDenied
  <2>5. {e.kind} \cup ExercisedBesides(e) \subseteq FileKinds
    BY <2>1, <2>4 DEF FileKinds
  <2> QED BY <2>1, <2>2, <2>3, <2>4, <2>5 DEF IsOperation
<1>2. ASSUME NEW e, e = Linking(path)
      PROVE  IsOperation(e, path) /\ {"fs.read", "fs.write"} \subseteq DeniableKinds(e, Observe(e))
  <2>1. /\ e.kind \in FileKinds /\ e.payload = "file" /\ e.path = path /\ e.clock = 0
    BY <1>2, LinkingIs DEF FileKinds, LinkedAs
  <2>2. Observe(e).kind = e.kind /\ Observe(e).target = path /\ Observe(e) # Unobservable
    BY <2>1, FileIsObserved
  <2>3. DeniableKinds(e, Observe(e)) = {e.kind} \cup {"fs.read", "fs.write"}
    BY <1>2, <2>2, LinkingDenied DEF DeniableKinds
  <2> QED BY <2>1, <2>2, <2>3 DEF IsOperation, FileKinds
<1>3. ASSUME NEW access \in {"rdonly", "wronly", "rdwr"}, NEW creat \in BOOLEAN,
             NEW e, e = Opening(path, access, creat)
      PROVE  e.flags.access = access /\ (e.flags.creat <=> creat)
  <2>1. Opens(e, path, access, creat)
    BY <1>3 DEF Opens
  <2>2. e.flags = Flags(access, creat)
    BY <2>1, OpeningIs DEF OpenedAs
  <2> QED BY <2>2 DEF Flags
<1>6. ASSUME NEW e \in WaysToRead(path)
      PROVE  IsOperation(e, path) /\ "fs.read" \in DeniableKinds(e, Observe(e))
  <2>1. CASE e = Linking(path)
    BY <1>2, <2>1
  <2>2. CASE e # Linking(path)
    <3>1. e \in Openings(path) /\ e.flags.access # "wronly"
      BY <2>2 DEF WaysToRead
    <3>2. PICK access \in {"rdonly", "wronly", "rdwr"}, creat \in BOOLEAN : e = Opening(path, access, creat)
      BY <3>1 DEF Openings
    <3>3. access # "wronly"
      BY <1>3, <3>1, <3>2
    <3> QED BY <1>1, <3>2, <3>3
  <2> QED BY <2>1, <2>2
<1>7. ASSUME NEW e \in WaysToChange(path)
      PROVE  IsOperation(e, path) /\ "fs.write" \in DeniableKinds(e, Observe(e))
  <2>1. CASE e = Linking(path)
    BY <1>2, <2>1
  <2>2. CASE e # Linking(path)
    <3>1. e \in Openings(path) /\ (e.flags.access # "rdonly" \/ e.flags.creat)
      BY <2>2 DEF WaysToChange
    <3>2. PICK access \in {"rdonly", "wronly", "rdwr"}, creat \in BOOLEAN : e = Opening(path, access, creat)
      BY <3>1 DEF Openings
    <3>3. access # "rdonly" \/ creat
      BY <1>3, <3>1, <3>2
    <3> QED BY <1>1, <3>2, <3>3
  <2> QED BY <2>1, <2>2
<1> QED BY <1>6, <1>7

-----------------------------------------------------------------------------
\* Paths, and the patterns that are made of them.

LEMMA PathIsSequence ==
  ASSUME NEW p, IsSegments(p)
  PROVE  /\ p \in Seq(Range(p)) /\ DOMAIN p = 1..Len(p) /\ Len(p) \in Nat
         /\ \A S : Range(p) \subseteq S => p \in Seq(S)
<1> PICK n : n = Len(p)
  OBVIOUS
<1>1. n \in Nat /\ p = [i \in 1..n |-> p[i]]
  BY DEF IsSegments
<1>2. DOMAIN p = 1..n
  BY <1>1
<1>3. ASSUME NEW S, Range(p) \subseteq S PROVE p \in Seq(S)
  <2>1. \A i \in 1..n : p[i] \in S
    BY <1>2, <1>3 DEF Range
  <2>2. p \in [1..n -> S]
    BY <1>1, <2>1
  <2> QED BY <1>1, <2>2, TupleIsSequence
<1> QED BY <1>1, <1>2, <1>3

LEMMA SequenceIsPath ==
  ASSUME NEW S, NEW p \in Seq(S)
  PROVE  IsSegments(p)
<1> PICK n : n = Len(p)
  OBVIOUS
<1>1. n \in Nat /\ DOMAIN p = 1..n /\ p \in [1..n -> S]
  BY LenProperties
<1>2. p = [i \in 1..n |-> p[i]]
  BY <1>1
<1> QED BY <1>1, <1>2 DEF IsSegments

\* What is joined of two paths.
Joins(r, p, q) ==
  /\ Len(r) = Len(p) + Len(q)
  /\ \A i \in 1..Len(p) : r[i] = p[i]
  /\ \A i \in 1..Len(q) : r[Len(p) + i] = q[i]

LEMMA PathsJoin ==
  ASSUME NEW p, NEW q, IsSegments(p), IsSegments(q)
  PROVE  IsSegments(p \o q) /\ Joins(p \o q, p, q)
<1> PICK S : S = Range(p) \cup Range(q)
  OBVIOUS
<1>1. p \in Seq(S) /\ q \in Seq(S)
  BY PathIsSequence
<1> PICK r, m, n : r = p \o q /\ m = Len(p) /\ n = Len(q)
  OBVIOUS
<1>2. /\ r \in Seq(S) /\ Len(r) = m + n
      /\ \A i \in 1..m + n : r[i] = IF i <= m THEN p[i] ELSE q[i - m]
  BY <1>1, ConcatProperties
<1>3. m \in Nat /\ n \in Nat
  BY <1>1, LenProperties
<1>4. \A i \in 1..m : r[i] = p[i]
  <2> TAKE i \in 1..m
  <2>1. i \in 1..m + n /\ i <= m
    BY <1>3
  <2> QED BY <1>2, <2>1
<1>5. \A i \in 1..n : r[m + i] = q[i]
  <2> TAKE i \in 1..n
  <2>1. m + i \in 1..m + n /\ ~(m + i <= m) /\ m + i - m = i
    BY <1>3
  <2> QED BY <1>2, <2>1
<1>6. IsSegments(r)
  BY <1>2, SequenceIsPath
<1> QED BY <1>2, <1>4, <1>5, <1>6 DEF Joins

\* Two of the same length and segments are one.
LEMMA SamePath ==
  ASSUME NEW p, NEW q, IsSegments(p), IsSegments(q), Len(p) = Len(q),
         \A i \in 1..Len(p) : p[i] = q[i]
  PROVE  p = q
<1> PICK n : n = Len(p)
  OBVIOUS
<1>1. p = [i \in 1..n |-> p[i]] /\ q = [i \in 1..n |-> q[i]]
  BY DEF IsSegments
<1>2. [i \in 1..n |-> p[i]] = [i \in 1..n |-> q[i]]
  OBVIOUS
<1> QED BY <1>1, <1>2

LEMMA ShortPaths ==
  /\ IsSegments(<<>>) /\ Len(<<>>) = 0
  /\ \A a : IsSegments(<<a>>) /\ Len(<<a>>) = 1 /\ <<a>>[1] = a
  /\ \A a, b : IsSegments(<<a, b>>) /\ Len(<<a, b>>) = 2 /\ <<a, b>>[1] = a /\ <<a, b>>[2] = b
  /\ \A a, b, c : /\ IsSegments(<<a, b, c>>) /\ Len(<<a, b, c>>) = 3
                  /\ <<a, b, c>>[1] = a /\ <<a, b, c>>[2] = b /\ <<a, b, c>>[3] = c
<1>1. IsSegments(<<>>) /\ Len(<<>>) = 0
  <2>1. <<>> \in Seq({})
    OBVIOUS
  <2> QED BY <2>1, SequenceIsPath
<1>2. ASSUME NEW a
      PROVE  IsSegments(<<a>>) /\ Len(<<a>>) = 1 /\ <<a>>[1] = a
  <2>1. <<a>> \in Seq({a}) /\ Len(<<a>>) = 1 /\ <<a>>[1] = a
    OBVIOUS
  <2> QED BY <2>1, SequenceIsPath
<1>3. ASSUME NEW a, NEW b
      PROVE  IsSegments(<<a, b>>) /\ Len(<<a, b>>) = 2 /\ <<a, b>>[1] = a /\ <<a, b>>[2] = b
  <2>1. <<a, b>> \in Seq({a, b}) /\ Len(<<a, b>>) = 2 /\ <<a, b>>[1] = a /\ <<a, b>>[2] = b
    OBVIOUS
  <2> QED BY <2>1, SequenceIsPath
<1>4. ASSUME NEW a, NEW b, NEW c
      PROVE  /\ IsSegments(<<a, b, c>>) /\ Len(<<a, b, c>>) = 3
             /\ <<a, b, c>>[1] = a /\ <<a, b, c>>[2] = b /\ <<a, b, c>>[3] = c
  <2>1. /\ <<a, b, c>> \in Seq({a, b, c}) /\ Len(<<a, b, c>>) = 3
        /\ <<a, b, c>>[1] = a /\ <<a, b, c>>[2] = b /\ <<a, b, c>>[3] = c
    OBVIOUS
  <2> QED BY <2>1, SequenceIsPath
<1> QED BY <1>1, <1>2, <1>3, <1>4

\* What a pattern of a path is.
LEMMA LiteralsAre ==
  /\ \A s : Lit(s) # Deep /\ Lit(s).covers = {s}
  /\ \A s, t : Lit(s) = Lit(t) => s = t
BY DEF Lit, Deep

LEMMA ExactlyIs ==
  ASSUME NEW p, IsSegments(p)
  PROVE  /\ IsSegments(Exactly(p)) /\ Len(Exactly(p)) = Len(p)
         /\ \A i \in 1..Len(p) : Exactly(p)[i] = AsSegment(p[i])
<1> PICK n, e : n = Len(p) /\ e = Exactly(p)
  OBVIOUS
<1>1. n \in Nat /\ DOMAIN p = 1..n
  BY PathIsSequence
<1>2. e = [i \in 1..n |-> AsSegment(p[i])]
  BY <1>1 DEF Exactly
<1> PICK S : S = {AsSegment(p[i]) : i \in 1..n}
  OBVIOUS
<1>3. e \in [1..n -> S] /\ \A i \in 1..n : e[i] = AsSegment(p[i])
  BY <1>2
<1>4. e \in Seq(S) /\ Len(e) = n
  BY <1>1, <1>3, TupleIsSequence
<1> QED BY <1>3, <1>4, SequenceIsPath

\* A path that does not read as a pattern is one of its own names.
LEMMA PlainSegments ==
  ASSUME NEW p, IsSegments(p), Plain(p)
  PROVE  \A i \in 1..Len(p) : AsSegment(p[i]) = Lit(p[i])
<1>1. DOMAIN p = 1..Len(p)
  BY PathIsSequence
<1> QED BY <1>1 DEF Plain, AsSegment

LEMMA PlainJoins ==
  ASSUME NEW p, NEW q, IsSegments(p), IsSegments(q), Plain(p), Plain(q)
  PROVE  Plain(p \o q)
<1> PICK m, n, r : m = Len(p) /\ n = Len(q) /\ r = p \o q
  OBVIOUS
<1>1. IsSegments(r) /\ Joins(r, p, q)
  BY PathsJoin
<1>2. /\ m \in Nat /\ n \in Nat /\ Len(r) = m + n
      /\ \A i \in 1..m : r[i] = p[i]
      /\ \A i \in 1..n : r[m + i] = q[i]
  BY <1>1 DEF IsSegments, Joins
<1>3. DOMAIN p = 1..m /\ DOMAIN q = 1..n /\ DOMAIN r = 1..m + n
  BY <1>1, <1>2, PathIsSequence
<1>4. ASSUME NEW i \in 1..m + n PROVE r[i] \notin DOMAIN Globs
  <2>1. CASE i \in 1..m
    BY <1>2, <1>3, <2>1 DEF Plain
  <2>2. CASE i \notin 1..m
    <3> PICK j : j = i - m
      OBVIOUS
    <3>1. j \in 1..n /\ i = m + j
      BY <1>2, <2>2
    <3> QED BY <1>2, <1>3, <3>1 DEF Plain
  <2> QED BY <2>1, <2>2
<1> QED BY <1>3, <1>4 DEF Plain

\* So are the names the generator writes of its own.
LEMMA OwnNamesArePlain ==
  /\ Plain(<<"etc", "shadow">>) /\ Plain(<<"root">>) /\ Plain(<<".aws">>) /\ Plain(<<".netrc">>)
  /\ Plain(<<".ssh">>) /\ Plain(<<".bashrc">>) /\ Plain(<<".git", "hooks">>)
  /\ Plain(<<".github", "workflows">>)
<1>1. ASSUME NEW a, a \notin DOMAIN Globs PROVE Plain(<<a>>)
  BY <1>1 DEF Plain
<1>2. ASSUME NEW a, NEW b, a \notin DOMAIN Globs, b \notin DOMAIN Globs PROVE Plain(<<a, b>>)
  BY <1>2 DEF Plain
<1>3. \A a \in {"etc", "shadow", "root", ".aws", ".netrc", ".ssh", ".bashrc", ".git", "hooks",
                ".github", "workflows"} : a \notin DOMAIN Globs
  BY GlobsAssumption
<1> QED BY <1>1, <1>2, <1>3

\* The path, and all that is below it.
BelowOf(pattern, p) ==
  /\ IsSegments(pattern) /\ Len(pattern) = Len(p) + 1
  /\ \A i \in 1..Len(p) : pattern[i] = AsSegment(p[i])
  /\ pattern[Len(p) + 1] = Deep

LEMMA BelowIs ==
  ASSUME NEW p, IsSegments(p)
  PROVE  BelowOf(Below(p), p)
<1> PICK e, d, r : e = Exactly(p) /\ d = <<Deep>> /\ r = Below(p)
  OBVIOUS
<1>1. IsSegments(e) /\ Len(e) = Len(p) /\ \A i \in 1..Len(p) : e[i] = AsSegment(p[i])
  BY ExactlyIs
<1>2. IsSegments(d) /\ Len(d) = 1 /\ d[1] = Deep
  BY ShortPaths
<1>3. r = e \o d
  BY DEF Below
<1>4. IsSegments(r) /\ Joins(r, e, d)
  BY ONLY <1>1, <1>2, <1>3, PathsJoin
<1>5. 1 \in 1..1
  OBVIOUS
<1> QED BY <1>1, <1>2, <1>4, <1>5 DEF BelowOf, Joins

LEMMA HomeIsJoined ==
  ASSUME NEW h, NEW p, IsSegments(h), IsSegments(p)
  PROVE  /\ Exactly(h) \o Exactly(p) = Exactly(h \o p)
         /\ Exactly(h) \o Below(p) = Below(h \o p)
<1> PICK a, b, c, r, s : a = Exactly(h) /\ b = Exactly(p) /\ c = Below(p) /\ r = h \o p /\ s = Exactly(r)
  OBVIOUS
<1> PICK m, n : m = Len(h) /\ n = Len(p)
  OBVIOUS
<1>1. IsSegments(a) /\ Len(a) = m /\ \A i \in 1..m : a[i] = AsSegment(h[i])
  BY ExactlyIs
<1>2. IsSegments(b) /\ Len(b) = n /\ \A i \in 1..n : b[i] = AsSegment(p[i])
  BY ExactlyIs
<1>3. BelowOf(c, p)
  BY BelowIs
<1>4. IsSegments(r) /\ Joins(r, h, p)
  BY PathsJoin
<1>5. IsSegments(s) /\ Len(s) = Len(r) /\ \A i \in 1..Len(r) : s[i] = AsSegment(r[i])
  BY ONLY <1>4, s = Exactly(r), ExactlyIs
<1>6. m \in Nat /\ n \in Nat
  BY DEF IsSegments
<1>7. /\ Len(r) = m + n /\ \A i \in 1..m : r[i] = h[i]
      /\ \A i \in 1..n : r[m + i] = p[i]
  BY <1>4 DEF Joins
<1>8. IsSegments(a \o b) /\ Joins(a \o b, a, b)
  BY ONLY <1>1, <1>2, PathsJoin
<1>9. a \o b = s
  <2> PICK t : t = a \o b
    OBVIOUS
  <2>1. /\ IsSegments(t) /\ Len(t) = m + n /\ \A i \in 1..m : t[i] = a[i]
        /\ \A i \in 1..n : t[m + i] = b[i]
    BY <1>1, <1>2, <1>8 DEF Joins
  <2>2. ASSUME NEW i \in 1..m + n PROVE t[i] = s[i]
    <3>1. CASE i <= m
      <4>1. i \in 1..m
        BY <1>6, <3>1
      <4> QED BY <1>1, <1>5, <1>7, <2>1, <4>1
    <3>2. CASE ~(i <= m)
      <4> PICK j : j = i - m
        OBVIOUS
      <4>1. j \in 1..n /\ i = m + j
        BY <1>6, <3>2
      <4> QED BY <1>2, <1>5, <1>7, <2>1, <4>1
    <3> QED BY <3>1, <3>2
  <2>3. t = s
    BY ONLY <1>5, <1>7, <2>1, <2>2, SamePath
  <2> QED BY <2>3
<1>10. a \o c = Below(r)
  <2> PICK t, w : t = a \o c /\ w = Below(r)
    OBVIOUS
  <2>1. /\ IsSegments(c) /\ Len(c) = n + 1 /\ \A i \in 1..n : c[i] = AsSegment(p[i])
        /\ c[n + 1] = Deep
    BY <1>3 DEF BelowOf
  <2>2. IsSegments(t) /\ Joins(t, a, c)
    BY ONLY <1>1, <2>1, t = a \o c, PathsJoin
  <2>3. /\ Len(t) = m + (n + 1) /\ \A i \in 1..m : t[i] = a[i]
        /\ \A i \in 1..n + 1 : t[m + i] = c[i]
    BY <1>1, <2>1, <2>2 DEF Joins
  <2>4. BelowOf(w, r)
    BY ONLY <1>4, w = Below(r), BelowIs
  <2>5. /\ IsSegments(w) /\ Len(w) = m + n + 1 /\ \A i \in 1..m + n : w[i] = AsSegment(r[i])
        /\ w[m + n + 1] = Deep
    BY <1>7, <2>4 DEF BelowOf
  <2>6. ASSUME NEW i \in 1..m + n + 1 PROVE t[i] = w[i]
    <3>1. CASE i <= m
      <4>1. i \in 1..m /\ i \in 1..m + n
        BY <1>6, <3>1
      <4> QED BY <1>1, <1>7, <2>3, <2>5, <4>1
    <3>2. CASE ~(i <= m)
      <4> PICK j : j = i - m
        OBVIOUS
      <4>1. j \in 1..n + 1 /\ i = m + j
        BY <1>6, <3>2
      <4>2. CASE j = n + 1
        <5>1. i = m + n + 1
          BY <1>6, <4>1, <4>2
        <5> QED BY <2>1, <2>3, <2>5, <4>1, <4>2, <5>1
      <4>3. CASE j # n + 1
        <5>1. j \in 1..n /\ m + j \in 1..m + n
          BY ONLY <1>6, <4>1, <4>3
        <5>2. t[m + j] = c[j]
          BY ONLY <2>3, <4>1
        <5>3. c[j] = AsSegment(p[j])
          BY ONLY <2>1, <5>1
        <5>4. w[m + j] = AsSegment(r[m + j])
          BY ONLY <2>5, <5>1
        <5>5. r[m + j] = p[j]
          BY ONLY <1>7, <5>1
        <5> QED BY ONLY <4>1, <5>2, <5>3, <5>4, <5>5
      <4> QED BY <4>2, <4>3
    <3> QED BY <3>1, <3>2
  <2>7. Len(t) = Len(w)
    BY <1>6, <2>3, <2>5
  <2>8. \A i \in 1..Len(t) : t[i] = w[i]
    BY <2>5, <2>6, <2>7
  <2>9. t = w
    BY ONLY <2>2, <2>5, <2>7, <2>8, SamePath
  <2> QED BY <2>9
<1> QED BY <1>9, <1>10

\* The path lies at this one or below it.
Reaches(path, p) == Len(p) <= Len(path) /\ \A i \in 1..Len(p) : path[i] = p[i]

LEMMA ReachesByJoining ==
  ASSUME NEW p, NEW q, IsSegments(p), IsSegments(q)
  PROVE  Reaches(p \o q, p)
<1> PICK r : r = p \o q
  OBVIOUS
<1>1. Joins(r, p, q)
  BY PathsJoin
<1>2. Len(p) \in Nat /\ Len(q) \in Nat
  BY DEF IsSegments
<1>3. Len(p) <= Len(r)
  BY <1>1, <1>2 DEF Joins
<1> QED BY <1>1, <1>3 DEF Joins, Reaches

LEMMA BelowCovers ==
  ASSUME NEW pattern, NEW p, NEW path, BelowOf(pattern, p), IsSegments(p), IsSegments(path),
         Reaches(path, p), Plain(p)
  PROVE  Covers(pattern, path)
<1> PICK m, n : m = Len(p) /\ n = Len(path)
  OBVIOUS
<1>1. m \in Nat /\ n \in Nat /\ m <= n
  BY DEF IsSegments, Reaches
<1>2. /\ Len(pattern) = m + 1 /\ DOMAIN pattern = 1..m + 1
      /\ \A i \in 1..m : pattern[i] = Lit(p[i])
      /\ pattern[m + 1] = Deep
  <2>1. IsSegments(pattern) /\ Len(pattern) = m + 1
    BY DEF BelowOf
  <2>2. DOMAIN pattern = 1..m + 1
    BY <2>1, PathIsSequence
  <2>3. \A i \in 1..m : pattern[i] = Lit(p[i])
    BY PlainSegments DEF BelowOf
  <2> QED BY <2>1, <2>2, <2>3 DEF BelowOf
<1> PICK cut : cut = [i \in 0..m + 1 |-> IF i <= m THEN i ELSE n]
  OBVIOUS
<1>3. /\ cut \in [0..m + 1 -> 0..n] /\ cut[0] = 0 /\ cut[m + 1] = n
      /\ \A i \in 0..m : cut[i] = i
  BY <1>1
<1>4. ASSUME NEW i \in 1..m + 1
      PROVE  IF pattern[i] = Deep THEN cut[i] >= cut[i - 1]
             ELSE cut[i] = cut[i - 1] + 1 /\ path[cut[i]] \in pattern[i].covers
  <2>1. CASE i = m + 1
    <3>1. i - 1 \in 0..m /\ i - 1 = m
      BY <1>1, <2>1
    <3>2. pattern[i] = Deep /\ cut[i] = n /\ cut[i - 1] = m
      BY <1>2, <1>3, <2>1, <3>1
    <3> QED BY <1>1, <3>2
  <2>2. CASE i # m + 1
    <3>1. i \in 1..m /\ i \in 0..m /\ i - 1 \in 0..m
      BY <1>1, <2>2
    <3>2. cut[i] = i /\ cut[i - 1] = i - 1 /\ i = i - 1 + 1
      BY <1>3, <3>1
    <3>3. pattern[i] # Deep /\ p[i] \in pattern[i].covers /\ path[i] = p[i]
      BY <1>2, <3>1, LiteralsAre DEF Reaches
    <3> QED BY <3>2, <3>3
  <2> QED BY <2>1, <2>2
<1> QED BY <1>2, <1>3, <1>4 DEF Covers

LEMMA ExactlyCovers ==
  ASSUME NEW p, IsSegments(p), Plain(p)
  PROVE  Covers(Exactly(p), p)
<1> PICK m, pattern : m = Len(p) /\ pattern = Exactly(p)
  OBVIOUS
<1>1. m \in Nat
  BY DEF IsSegments
<1>2. /\ IsSegments(pattern) /\ Len(pattern) = m /\ \A i \in 1..m : pattern[i] = Lit(p[i])
  BY ExactlyIs, PlainSegments
<1>3. DOMAIN pattern = 1..m
  BY <1>2, PathIsSequence
<1> PICK cut : cut = [i \in 0..m |-> i]
  OBVIOUS
<1>4. /\ cut \in [0..m -> 0..m] /\ cut[0] = 0 /\ cut[m] = m
      /\ \A i \in 0..m : cut[i] = i
  BY <1>1
<1>5. ASSUME NEW i \in 1..m
      PROVE  IF pattern[i] = Deep THEN cut[i] >= cut[i - 1]
             ELSE cut[i] = cut[i - 1] + 1 /\ p[cut[i]] \in pattern[i].covers
  <2>1. i \in 0..m /\ i - 1 \in 0..m
    BY <1>1
  <2>2. cut[i] = i /\ cut[i - 1] = i - 1 /\ i = i - 1 + 1
    BY <1>4, <2>1
  <2>3. pattern[i] # Deep /\ p[i] \in pattern[i].covers
    BY <1>2, LiteralsAre
  <2> QED BY <2>2, <2>3
<1> QED BY <1>2, <1>3, <1>4, <1>5 DEF Covers

\* What a pattern matches begins with its literals, and is no longer when it has
\* nothing else.
LEMMA MatchedSegments ==
  ASSUME NEW pattern, NEW path, IsSegments(pattern), IsSegments(path),
         NEW k \in Nat, k <= Len(pattern), \A i \in 1..k : pattern[i] # Deep,
         MatchSegments(pattern, path)
  PROVE  /\ k <= Len(path) /\ \A i \in 1..k : path[i] \in pattern[i].covers
         /\ k = Len(pattern) => k = Len(path)
<1> PICK m, n : m = Len(pattern) /\ n = Len(path)
  OBVIOUS
<1>1. m \in Nat /\ n \in Nat /\ k <= m
  BY DEF IsSegments
<1> DEFINE from == CHOOSE f : CoversFrom(pattern, path, f)
<1>2. CoversFrom(pattern, path, from)
  BY <1>1, CoveringExists
<1>3. MatchSegments(pattern, path) <=> 1 \in from[1]
  BY Zenon DEF MatchSegments, CoversFrom, Covering
<1> HIDE DEF from
<1>4. \A i \in 1..m + 1 : from[i] = Covering(pattern, path, from[i + 1], i)
  BY <1>2 DEF CoversFrom
<1>5. ASSUME NEW i \in 1..k, i \in from[i]
      PROVE  i <= n /\ path[i] \in pattern[i].covers /\ i + 1 \in from[i + 1]
  <2>1. i \in 1..m + 1 /\ ~(i > m) /\ pattern[i] # Deep
    BY <1>1
  <2> PICK next : next = from[i + 1]
    OBVIOUS
  <2>2. i \in Covering(pattern, path, next, i)
    BY <1>4, <1>5, <2>1
  <2>3. i <= n /\ path[i] \in pattern[i].covers /\ i + 1 \in next
    BY ONLY <2>1, <2>2, m = Len(pattern) /\ n = Len(path) DEF Covering
  <2> QED BY <2>3
<1> DEFINE T == {i \in 1..k + 1 : i \notin from[i]}
<1>6. T = {}
  <2> SUFFICES ASSUME T # {} PROVE FALSE
    OBVIOUS
  <2>1. T \subseteq Nat
    OBVIOUS
  <2> HIDE DEF T
  <2>2. PICK i \in T : \A l \in T : i <= l
    BY <2>1, LeastNatural
  <2>3. i \in 1..k + 1 /\ i \notin from[i]
    BY DEF T
  <2>4. i # 1
    BY <1>3, <2>3
  <2> PICK j : j = i - 1
    OBVIOUS
  <2>5. j \in 1..k /\ j \in 1..k + 1 /\ j + 1 = i /\ ~(i <= j)
    BY <2>3, <2>4
  <2>6. j \in from[j]
    BY <2>2, <2>5 DEF T
  <2> QED BY <1>5, <2>3, <2>5, <2>6
<1>7. \A i \in 1..k + 1 : i \in from[i]
  BY <1>6
<1>8. \A i \in 1..k : i <= n /\ path[i] \in pattern[i].covers
  <2> TAKE i \in 1..k
  <2>1. i \in 1..k + 1
    OBVIOUS
  <2> QED BY <1>5, <1>7, <2>1
<1>9. k <= n
  <2>1. k = 0 \/ k \in 1..k
    OBVIOUS
  <2> QED BY <1>1, <1>8, <2>1
<1>10. k = m => k = n
  <2> SUFFICES ASSUME k = m PROVE k = n
    OBVIOUS
  <2>1. m + 1 \in 1..m + 1 /\ m + 1 > m /\ m + 1 \in from[m + 1]
    BY <1>1, <1>7
  <2> PICK next, i : next = from[m + 1 + 1] /\ i = m + 1
    OBVIOUS
  <2>2. i \in Covering(pattern, path, next, i)
    BY <1>4, <2>1
  <2>3. i > n
    BY ONLY <2>1, <2>2, i = m + 1, next = from[m + 1 + 1] /\ i = m + 1, m = Len(pattern) /\ n = Len(path)
       DEF Covering
  <2> QED BY <1>1, <1>9, <2>3
<1> QED BY <1>8, <1>9, <1>10

LEMMA BelowMatches ==
  ASSUME NEW p, NEW path, IsSegments(p), IsSegments(path), Plain(p), MatchPath(Below(p), path)
  PROVE  Reaches(path, p)
<1> PICK m, pattern : m = Len(p) /\ pattern = Below(p)
  OBVIOUS
<1>1. /\ IsSegments(pattern) /\ Len(pattern) = m + 1
      /\ \A i \in 1..m : pattern[i] = Lit(p[i])
  BY BelowIs, PlainSegments DEF BelowOf
<1>2. m \in Nat /\ m <= Len(pattern) /\ \A i \in 1..m : pattern[i] # Deep
  BY <1>1, LiteralsAre DEF IsSegments
<1>3. MatchSegments(pattern, path)
  BY DEF MatchPath
<1>4. m <= Len(path) /\ \A i \in 1..m : path[i] \in pattern[i].covers
  BY <1>1, <1>2, <1>3, MatchedSegments
<1>5. \A i \in 1..m : path[i] = p[i]
  BY <1>1, <1>4, LiteralsAre
<1> QED BY <1>4, <1>5 DEF Reaches

LEMMA ExactlyMatches ==
  ASSUME NEW p, NEW path, IsSegments(p), IsSegments(path), Plain(p), MatchPath(Exactly(p), path)
  PROVE  path = p
<1> PICK m, pattern : m = Len(p) /\ pattern = Exactly(p)
  OBVIOUS
<1>1. /\ IsSegments(pattern) /\ Len(pattern) = m
      /\ \A i \in 1..m : pattern[i] = Lit(p[i])
  BY ExactlyIs, PlainSegments
<1>2. m \in Nat /\ m <= Len(pattern) /\ \A i \in 1..m : pattern[i] # Deep
  BY <1>1, LiteralsAre DEF IsSegments
<1>3. MatchSegments(pattern, path)
  BY DEF MatchPath
<1>4. m = Len(path) /\ \A i \in 1..m : path[i] \in pattern[i].covers
  BY <1>1, <1>2, <1>3, MatchedSegments
<1>5. \A i \in 1..m : path[i] = p[i]
  BY <1>1, <1>4, LiteralsAre
<1> QED BY <1>4, <1>5, SamePath

\* The rules, as they stand in the order of precedence.
LEMMA TaskRulesAre ==
  /\ DOMAIN TaskRules = 1..6
  /\ TaskRules[1].task = "dependency-install" /\ TaskRules[2].task = "test"
  /\ TaskRules[3].task = "build" /\ TaskRules[4].task = "git-operation"
  /\ TaskRules[5].task = "refactor" /\ TaskRules[6].task = "docs-edit"
  /\ TaskRules[1].signals = InstallSignals
  /\ TaskRules[4].signals = {"git commit", "git push"}
<1>1. ASSUME NEW a, NEW b, NEW c, NEW d, NEW e, NEW f
      PROVE  /\ DOMAIN <<a, b, c, d, e, f>> = 1..6
             /\ <<a, b, c, d, e, f>>[1] = a /\ <<a, b, c, d, e, f>>[2] = b
             /\ <<a, b, c, d, e, f>>[3] = c /\ <<a, b, c, d, e, f>>[4] = d
             /\ <<a, b, c, d, e, f>>[5] = e /\ <<a, b, c, d, e, f>>[6] = f
  OBVIOUS
<1>2. \A t, s : LET r == [task |-> t, signals |-> s] IN r.task = t /\ r.signals = s
  OBVIOUS
<1> PICK a, b, c, d, e, f :
      /\ a = [task |-> "dependency-install", signals |-> {"npm install", "upgrade the dependencies"}]
      /\ b = [task |-> "test", signals |-> {"go test"}]
      /\ c = [task |-> "build", signals |-> {"go build"}]
      /\ d = [task |-> "git-operation", signals |-> {"git commit", "git push"}]
      /\ e = [task |-> "refactor", signals |-> {"refactor"}]
      /\ f = [task |-> "docs-edit", signals |-> {"readme"}]
  OBVIOUS
<1>3. TaskRules = <<a, b, c, d, e, f>>
  BY DEF TaskRules
<1>4. /\ a.task = "dependency-install" /\ b.task = "test" /\ c.task = "build"
      /\ d.task = "git-operation" /\ e.task = "refactor" /\ f.task = "docs-edit"
      /\ a.signals = {"npm install", "upgrade the dependencies"}
      /\ d.signals = {"git commit", "git push"}
  OBVIOUS
<1>5. /\ DOMAIN TaskRules = 1..6
      /\ TaskRules[1] = a /\ TaskRules[2] = b /\ TaskRules[3] = c /\ TaskRules[4] = d
      /\ TaskRules[5] = e /\ TaskRules[6] = f
  BY ONLY <1>1, <1>3
<1> QED BY ONLY <1>4, <1>5 DEF InstallSignals

\* A task is git's only when nothing before it in the table is asked for.
LEMMA GitIsAsked ==
  ASSUME NEW prompt, Classify(prompt).task = "git-operation"
  PROVE  /\ prompt.phrases \cap {"git commit", "git push"} # {}
         /\ \A i \in 1..3 : prompt.phrases \cap TaskRules[i].signals = {}
<1> DEFINE matched == {i \in DOMAIN TaskRules : Says(prompt, TaskRules[i].signals)}
           least == CHOOSE i \in matched : \A j \in matched : i <= j
<1>1. \/ Classify(prompt) = Unmatched
      \/ /\ matched # {}
         /\ \/ Classify(prompt) = [task |-> TaskRules[least].task, confidence |-> 90, ambiguities |-> {}]
            \/ Classify(prompt) = [task |-> TaskRules[least].task, confidence |-> 60, ambiguities |-> {"several tasks"}]
  BY Zenon DEF Classify
<1>2. Unmatched.task = "unknown"
  BY DEF Unmatched
<1>3. \A t, c, a : [task |-> t, confidence |-> c, ambiguities |-> a].task = t
  OBVIOUS
<1>4. matched # {} /\ TaskRules[least].task = "git-operation"
  <2> PICK class, task : class = Classify(prompt) /\ task = TaskRules[least].task
    OBVIOUS
  <2>1. class.task = "git-operation"
    OBVIOUS
  <2>2. class # Unmatched
    BY <1>2, <2>1
  <2>3. \E c, a : class = [task |-> task, confidence |-> c, ambiguities |-> a]
    BY <1>1, <2>2, Zenon
  <2>4. task = "git-operation"
    BY ONLY <1>3, <2>1, <2>3
  <2> QED BY <1>1, <2>2, <2>4, Zenon
<1>5. matched \subseteq 1..6
  BY TaskRulesAre
<1>6. \E i \in matched : \A j \in matched : i <= j
  <2>1. matched \subseteq Nat
    BY <1>5
  <2> HIDE DEF matched
  <2> QED BY <1>4, <2>1, LeastNatural
<1>7. least \in matched /\ \A j \in matched : least <= j
  BY <1>6
<1> HIDE DEF least, matched
<1>8. least = 4
  <2> PICK l : l = least
    OBVIOUS
  <2>1. l \in 1..6 /\ TaskRules[l].task = "git-operation"
    BY <1>4, <1>5, <1>7
  <2>2. l = 1 \/ l = 2 \/ l = 3 \/ l = 4 \/ l = 5 \/ l = 6
    BY <2>1
  <2>3. l = 4
    BY ONLY <2>1, <2>2, TaskRulesAre
  <2> QED BY <2>3
<1>9. Says(prompt, TaskRules[4].signals)
  BY <1>7, <1>8 DEF matched
<1>10. ASSUME NEW i \in 1..3 PROVE ~Says(prompt, TaskRules[i].signals)
  <2>1. i \in 1..6 /\ ~(least <= i)
    BY <1>8
  <2>2. i \notin matched
    BY <1>7, <2>1
  <2> QED BY <2>1, <2>2, TaskRulesAre DEF matched
<1> QED BY <1>9, <1>10, TaskRulesAre DEF Says

\* A task that may read keys was asked for by a prompt that is about git and reaches
\* a network.
LEMMA RemoteIsAsked ==
  ASSUME NEW prompt, NEW languages, NEW an, an = Analyze(Sanitize(prompt).prompt, languages),
         ReachesGitRemote(an)
  PROVE  ForGitRemote(prompt)
<1> PICK clean : clean = Sanitize(prompt).prompt
  OBVIOUS
<1>1. clean.phrases = prompt.phrases
  <2>1. clean = Prompt(prompt.phrases, prompt.hosts, prompt.words, FALSE)
    BY DEF Sanitize
  <2> QED BY <2>1 DEF Prompt
<1> DEFINE class == Classify(clean)
           network == Says(clean, NetworkSignals) \/ class.task = "dependency-install"
<1>2. an.task = class.task /\ (an.network <=> network)
  <2>1. \A t, n, h, d, w, c, a :
          LET r == [task |-> t, network |-> n, hosts |-> h, destructive |-> d,
                    workspaceOnly |-> w, confidence |-> c, ambiguities |-> a]
          IN r.task = t /\ r.network = n
    OBVIOUS
  <2>2. an.task = class.task /\ an.network = network
    BY <2>1, Zenon DEF Analyze
  <2> QED BY <2>2
<1>3. class.task = "git-operation" /\ Says(clean, NetworkSignals)
  BY <1>2 DEF ReachesGitRemote
<1>4. /\ clean.phrases \cap {"git commit", "git push"} # {}
      /\ \A i \in 1..3 : clean.phrases \cap TaskRules[i].signals = {}
  BY <1>3, GitIsAsked
<1>5. clean.phrases \cap InstallSignals = {}
  <2>1. 1 \in 1..3
    OBVIOUS
  <2> QED BY ONLY <1>4, <2>1, TaskRulesAre
<1>6. clean.phrases \cap {"git push", "download"} # {}
  <2>1. PICK phrase : phrase \in clean.phrases /\ phrase \in NetworkSignals
    BY <1>3 DEF Says
  <2>2. phrase \notin InstallSignals
    BY <1>5, <2>1
  <2>3. phrase \in {"git push", "download"}
    BY ONLY <2>1, <2>2 DEF NetworkSignals, InstallSignals
  <2> QED BY <2>1, <2>3
<1>7. clean.phrases \cap UNION {TaskRules[i].signals : i \in 1..3} = {}
  <2>1. ASSUME NEW phrase \in clean.phrases, phrase \in UNION {TaskRules[i].signals : i \in 1..3}
        PROVE  FALSE
    <3>1. PICK i \in 1..3 : phrase \in TaskRules[i].signals
      BY <2>1
    <3> QED BY <1>4, <3>1
  <2> QED BY <2>1
<1> QED BY <1>1, <1>4, <1>6, <1>7 DEF ForGitRemote

-----------------------------------------------------------------------------
\* The bounds of an envelope that was made.
LEMMA BoundsSay ==
  \A w, g, d, e, r, m, t :
    LET made == [ok |-> TRUE, reason |-> "", warnings |-> w,
                 envelope |-> [grants |-> g, denials |-> d, expires |-> e, root |-> r,
                               maxDuration |-> m, maxProcesses |-> 0, maxWrites |-> 0,
                               maxBytes |-> 0, task |-> t]]
        env == made.envelope
    IN /\ env.expires = e /\ env.maxDuration = m /\ env.maxProcesses = 0
       /\ env.maxWrites = 0 /\ env.maxBytes = 0
<1> TAKE w, g, d, e, r, m, t
<1> DEFINE envelope == [grants |-> g, denials |-> d, expires |-> e, root |-> r,
                        maxDuration |-> m, maxProcesses |-> 0, maxWrites |-> 0,
                        maxBytes |-> 0, task |-> t]
           made == [ok |-> TRUE, reason |-> "", warnings |-> w, envelope |-> envelope]
<1>1. /\ envelope.expires = e /\ envelope.maxDuration = m /\ envelope.maxProcesses = 0
      /\ envelope.maxWrites = 0 /\ envelope.maxBytes = 0
  BY ONLY Zenon
<1> HIDE DEF envelope
<1>2. made.envelope = envelope
  BY ONLY Zenon
<1> HIDE DEF made
<1>3. /\ made.envelope.expires = e /\ made.envelope.maxDuration = m
      /\ made.envelope.maxProcesses = 0 /\ made.envelope.maxWrites = 0 /\ made.envelope.maxBytes = 0
  BY ONLY <1>1, <1>2
<1> QED BY ONLY <1>3 DEF made, envelope

BoundedBy(env, ttl) ==
  /\ env.expires = ttl /\ env.maxDuration = ttl /\ env.maxProcesses = 0
  /\ env.maxWrites = 0 /\ env.maxBytes = 0

LEMMA GenerateBounds ==
  ASSUME NEW an, NEW ws, NEW home, NEW resolvers, NEW observable, NEW limits,
         NEW made, made = Generate(an, ws, home, resolvers, observable, limits, limits.ttl), made.ok
  PROVE  ws # <<>> /\ BoundedBy(made.envelope, limits.ttl)
<1>1. \/ \E reason : made = NotGenerated(reason)
      \/ /\ ws # <<>>
         /\ \E w, g, d, t :
              made = [ok |-> TRUE, reason |-> "", warnings |-> w,
                      envelope |-> [grants |-> g, denials |-> d, expires |-> limits.ttl, root |-> ws,
                                    maxDuration |-> limits.ttl, maxProcesses |-> 0, maxWrites |-> 0,
                                    maxBytes |-> 0, task |-> t]]
  BY Zenon DEF Generate
<1>2. \A reason : NotGenerated(reason).ok = FALSE
  BY DEF NotGenerated
<1>3. ws # <<>>
  BY <1>1, <1>2
<1>4. PICK w, g, d, t :
        made = [ok |-> TRUE, reason |-> "", warnings |-> w,
                envelope |-> [grants |-> g, denials |-> d, expires |-> limits.ttl, root |-> ws,
                              maxDuration |-> limits.ttl, maxProcesses |-> 0, maxWrites |-> 0,
                              maxBytes |-> 0, task |-> t]]
  BY <1>1, <1>2
<1>5. BoundedBy(made.envelope, limits.ttl)
  BY ONLY <1>4, BoundsSay, Zenon DEF BoundedBy
<1> QED BY <1>3, <1>5

\* The paths of an entry that names nothing else.
PathsOnly(sel) ==
  /\ sel.executables = {} /\ sel.hosts = {} /\ sel.ports = {} /\ sel.protocols = {}
  /\ sel.args = {} /\ sel.max = 0

LEMMA ToPathsSay ==
  \A patterns : /\ ToPaths(patterns).paths = patterns
                /\ PathsOnly(ToPaths(patterns))
BY DEF ToPaths, NoSelector, PathsOnly

\* What is denied.
InRoot(ws, home) == home = <<"root">> \/ IsStrictPrefix(<<"root">>, ws)

DeniedReads(an, ws, home) ==
  InHome(home, {Below(<<".aws">>), Exactly(<<".netrc">>)}
                 \cup (IF ReachesGitRemote(an) THEN {} ELSE {Below(<<".ssh">>)}))
  \cup {Exactly(<<"etc", "shadow">>)}
  \cup (IF InRoot(ws, home) THEN {} ELSE {Below(<<"root">>)})

DeniedWrites(an, ws, home) ==
  {Below(ws \o <<".git", "hooks">>)}
  \cup InHome(home, {Below(<<".ssh">>), Exactly(<<".bashrc">>)})
  \cup (IF an.task = "git-operation" THEN {} ELSE {Below(ws \o <<".github", "workflows">>)})

LEMMA DenialsSay ==
  ASSUME NEW an, NEW ws, NEW home
  PROVE  Denials(an, ws, home)
           = <<Entry("fs.read", ToPaths(DeniedReads(an, ws, home))),
               Entry("fs.write", ToPaths(DeniedWrites(an, ws, home))),
               Entry("fs.create", ToPaths(DeniedWrites(an, ws, home)))>>
BY Zenon DEF Denials, DeniedReads, DeniedWrites, InRoot

\* Pattern by pattern.
LEMMA ReadsDenied ==
  ASSUME NEW an, NEW ws, NEW home, IsSegments(home), NEW q
  PROVE  q \in DeniedReads(an, ws, home) <=>
           \/ home # <<>> /\ q = Below(home \o <<".aws">>)
           \/ home # <<>> /\ q = Exactly(home \o <<".netrc">>)
           \/ home # <<>> /\ ~ReachesGitRemote(an) /\ q = Below(home \o <<".ssh">>)
           \/ q = Exactly(<<"etc", "shadow">>)
           \/ ~InRoot(ws, home) /\ q = Below(<<"root">>)
<1> PICK e : e = Exactly(home)
  OBVIOUS
<1> PICK aws, netrc, ssh, shadow, root :
      /\ aws = Below(<<".aws">>) /\ netrc = Exactly(<<".netrc">>)
      /\ ssh = Below(<<".ssh">>) /\ shadow = Exactly(<<"etc", "shadow">>)
      /\ root = Below(<<"root">>)
  OBVIOUS
<1>1. /\ e \o aws = Below(home \o <<".aws">>) /\ e \o netrc = Exactly(home \o <<".netrc">>)
      /\ e \o ssh = Below(home \o <<".ssh">>)
  <2>1. IsSegments(<<".aws">>) /\ IsSegments(<<".netrc">>) /\ IsSegments(<<".ssh">>)
    BY ShortPaths
  <2> QED BY <2>1, HomeIsJoined
<1>2. q \in DeniedReads(an, ws, home) <=>
        \/ q \in InHome(home, {aws, netrc} \cup (IF ReachesGitRemote(an) THEN {} ELSE {ssh}))
        \/ q = shadow
        \/ ~InRoot(ws, home) /\ q = root
  BY DEF DeniedReads
<1>3. q \in InHome(home, {aws, netrc} \cup (IF ReachesGitRemote(an) THEN {} ELSE {ssh})) <=>
        home # <<>> /\ \/ q = e \o aws \/ q = e \o netrc
                       \/ ~ReachesGitRemote(an) /\ q = e \o ssh
  <2> PICK S : S = {aws, netrc} \cup (IF ReachesGitRemote(an) THEN {} ELSE {ssh})
    OBVIOUS
  <2>1. \A p : p \in S <=> p = aws \/ p = netrc \/ (~ReachesGitRemote(an) /\ p = ssh)
    OBVIOUS
  <2>2. q \in InHome(home, S) <=> home # <<>> /\ \E p \in S : q = e \o p
    BY ONLY e = Exactly(home), Zenon DEF InHome
  <2>3. (\E p \in S : q = e \o p) <=> \/ q = e \o aws \/ q = e \o netrc
                                      \/ ~ReachesGitRemote(an) /\ q = e \o ssh
    BY ONLY <2>1
  <2> QED BY <2>2, <2>3
<1> QED BY <1>1, <1>2, <1>3

LEMMA WritesDenied ==
  ASSUME NEW an, NEW ws, NEW home, IsSegments(home), NEW q
  PROVE  q \in DeniedWrites(an, ws, home) <=>
           \/ q = Below(ws \o <<".git", "hooks">>)
           \/ home # <<>> /\ q = Below(home \o <<".ssh">>)
           \/ home # <<>> /\ q = Exactly(home \o <<".bashrc">>)
           \/ an.task # "git-operation" /\ q = Below(ws \o <<".github", "workflows">>)
<1> PICK e : e = Exactly(home)
  OBVIOUS
<1> PICK bashrc, ssh, hooks, flows :
      /\ bashrc = Exactly(<<".bashrc">>)
      /\ ssh = Below(<<".ssh">>) /\ hooks = Below(ws \o <<".git", "hooks">>)
      /\ flows = Below(ws \o <<".github", "workflows">>)
  OBVIOUS
<1>1. /\ e \o bashrc = Exactly(home \o <<".bashrc">>)
      /\ e \o ssh = Below(home \o <<".ssh">>)
  <2>1. IsSegments(<<".bashrc">>) /\ IsSegments(<<".ssh">>)
    BY ShortPaths
  <2> QED BY <2>1, HomeIsJoined
<1>2. q \in DeniedWrites(an, ws, home) <=>
        \/ q = hooks
        \/ q \in InHome(home, {ssh, bashrc})
        \/ an.task # "git-operation" /\ q = flows
  BY DEF DeniedWrites
<1>3. q \in InHome(home, {ssh, bashrc}) <=> home # <<>> /\ (q = e \o ssh \/ q = e \o bashrc)
  <2> PICK S : S = {ssh, bashrc}
    OBVIOUS
  <2>1. q \in InHome(home, S) <=> home # <<>> /\ \E p \in S : q = e \o p
    BY ONLY e = Exactly(home), Zenon DEF InHome
  <2> QED BY <2>1
<1> QED BY <1>1, <1>2, <1>3

\* All of them are patterns of paths.
LEMMA PatternsOfPaths ==
  ASSUME NEW p, IsSegments(p)
  PROVE  IsSegments(Exactly(p)) /\ IsSegments(Below(p))
BY ExactlyIs, BelowIs DEF BelowOf

LEMMA DeniedPatterns ==
  ASSUME NEW an, NEW ws, NEW home, IsSegments(ws), IsSegments(home)
  PROVE  \A q \in DeniedReads(an, ws, home) \cup DeniedWrites(an, ws, home) : IsSegments(q)
<1> PICK aws, netrc, ssh, bashrc, shadow, root, hooks, flows :
      /\ aws = <<".aws">> /\ netrc = <<".netrc">> /\ ssh = <<".ssh">> /\ bashrc = <<".bashrc">>
      /\ shadow = <<"etc", "shadow">> /\ root = <<"root">> /\ hooks = <<".git", "hooks">>
      /\ flows = <<".github", "workflows">>
  OBVIOUS
<1>1. /\ IsSegments(aws) /\ IsSegments(netrc) /\ IsSegments(ssh) /\ IsSegments(bashrc)
      /\ IsSegments(shadow) /\ IsSegments(root) /\ IsSegments(hooks) /\ IsSegments(flows)
  BY ShortPaths
<1>2. /\ IsSegments(home \o aws) /\ IsSegments(home \o netrc) /\ IsSegments(home \o ssh)
      /\ IsSegments(home \o bashrc) /\ IsSegments(ws \o hooks) /\ IsSegments(ws \o flows)
  BY <1>1, PathsJoin
<1>3. \A p : IsSegments(p) => IsSegments(Exactly(p)) /\ IsSegments(Below(p))
  BY PatternsOfPaths
<1>4. ASSUME NEW q \in DeniedReads(an, ws, home) PROVE IsSegments(q)
  BY <1>1, <1>2, <1>3, ReadsDenied
<1>5. ASSUME NEW q \in DeniedWrites(an, ws, home) PROVE IsSegments(q)
  BY <1>1, <1>2, <1>3, WritesDenied
<1> QED BY <1>4, <1>5

LEMMA LongerReaches ==
  ASSUME NEW p, IsSegments(p)
  PROVE  /\ \A a, b : Reaches(p \o <<a, b>>, p \o <<a>>)
         /\ \A a, b, c : Reaches(p \o <<a, b, c>>, p \o <<a, b>>)
<1>1. ASSUME NEW s, NEW t, IsSegments(s), IsSegments(t), Len(s) <= Len(t),
             \A i \in 1..Len(s) : s[i] = t[i]
      PROVE  Reaches(p \o t, p \o s)
  <2> PICK x, y, m, k, l : x = p \o t /\ y = p \o s /\ m = Len(p) /\ k = Len(s) /\ l = Len(t)
    OBVIOUS
  <2>1. Joins(x, p, t) /\ Joins(y, p, s)
    BY <1>1, PathsJoin
  <2>2. /\ Len(x) = m + l /\ \A i \in 1..m : x[i] = p[i]
        /\ \A i \in 1..l : x[m + i] = t[i]
        /\ Len(y) = m + k /\ \A i \in 1..m : y[i] = p[i]
        /\ \A i \in 1..k : y[m + i] = s[i]
    BY <2>1 DEF Joins
  <2>3. m \in Nat /\ k \in Nat /\ l \in Nat /\ k <= l
    BY <1>1 DEF IsSegments
  <2>4. ASSUME NEW i \in 1..m + k PROVE x[i] = y[i]
    <3>1. CASE i <= m
      <4>1. i \in 1..m
        BY <2>3, <3>1
      <4> QED BY ONLY <2>2, <4>1
    <3>2. CASE ~(i <= m)
      <4> PICK j : j = i - m
        OBVIOUS
      <4>1. j \in 1..k /\ j \in 1..l /\ i = m + j
        BY ONLY <2>3, <3>2, j = i - m, i \in 1..m + k
      <4>2. s[j] = t[j]
        BY <1>1, <4>1
      <4> QED BY ONLY <2>2, <4>1, <4>2
    <3> QED BY <3>1, <3>2
  <2>5. m + k <= m + l
    BY <2>3
  <2> QED BY <2>2, <2>4, <2>5 DEF Reaches
<1>2. ASSUME NEW a, NEW b PROVE Reaches(p \o <<a, b>>, p \o <<a>>)
  <2> PICK s, t : s = <<a>> /\ t = <<a, b>>
    OBVIOUS
  <2>1. IsSegments(s) /\ IsSegments(t) /\ Len(s) = 1 /\ Len(t) = 2 /\ s[1] = a /\ t[1] = a
    BY ShortPaths
  <2>2. Len(s) <= Len(t) /\ \A i \in 1..Len(s) : s[i] = t[i]
    <3>1. \A i \in 1..1 : i = 1
      OBVIOUS
    <3> QED BY <2>1, <3>1
  <2>3. Reaches(p \o t, p \o s)
    BY ONLY <1>1, <2>1, <2>2
  <2> QED BY <2>3
<1>3. ASSUME NEW a, NEW b, NEW c PROVE Reaches(p \o <<a, b, c>>, p \o <<a, b>>)
  <2> PICK s, t : s = <<a, b>> /\ t = <<a, b, c>>
    OBVIOUS
  <2>1. /\ IsSegments(s) /\ IsSegments(t) /\ Len(s) = 2 /\ Len(t) = 3
        /\ s[1] = a /\ t[1] = a /\ s[2] = b /\ t[2] = b
    BY ShortPaths
  <2>2. Len(s) <= Len(t) /\ \A i \in 1..Len(s) : s[i] = t[i]
    <3>1. \A i \in 1..2 : i = 1 \/ i = 2
      OBVIOUS
    <3> QED BY <2>1, <3>1
  <2>3. Reaches(p \o t, p \o s)
    BY ONLY <1>1, <2>1, <2>2
  <2> QED BY <2>3
<1> QED BY <1>2, <1>3

-----------------------------------------------------------------------------
\* What a denial covers is not permitted.
LEMMA DeniedIsRefused ==
  ASSUME NEW env, Admissible(env), NEW i \in DOMAIN env.denials,
         NEW d, d = env.denials[i], d.kind \in FileKinds, \A p \in d.sel.paths : IsSegments(p),
         NEW path, IsSegments(path), NEW q \in d.sel.paths, Covers(q, path),
         NEW e, IsOperation(e, path), d.kind \in DeniableKinds(e, Observe(e))
  PROVE  ~Permits(env, e)
<1> SUFFICES ASSUME Permits(env, e) PROVE FALSE
  OBVIOUS
<1> PICK obs, as, st : obs = Observe(e) /\ as = As(obs, d.kind) /\ st = Unspent(env)
  OBVIOUS
<1>1. Match(d, as) \notin {Yes, Unclear}
  <2>1. Validate(env, e, st, 1).verdict = "within_envelope"
    BY DEF Permits
  <2> QED BY <2>1, WithinIsUndenied
<1>2. as.kind = d.kind /\ as.target = path
  <2>1. as.kind = d.kind /\ as.target = obs.target
    BY AsKeeps
  <2> QED BY <2>1 DEF IsOperation
<1>3. DomainOf(d.kind) = "filesystem" /\ Applicable(d.kind) = {"paths"}
  BY FileKindsAre
<1>4. Match(d, as) = MatchPaths(d.sel.paths, path)
  BY <1>2, <1>3 DEF Match
<1>5. ~BadPaths(d.sel.paths)
  <2>1. ~Unmatchable(d)
    BY DEF Admissible
  <2> QED BY <1>3, <2>1 DEF Unmatchable
<1>6. MayCoverPath(d.sel.paths, path)
  BY DEF MayCoverPath
<1>7. Len(path) \in Nat
  BY DEF IsSegments
<1>8. MatchPaths(d.sel.paths, path) \in {Yes, Unclear}
  BY <1>5, <1>6, <1>7, CoveredPathAnswers
<1> QED BY <1>1, <1>4, <1>8

-----------------------------------------------------------------------------
\* The denials of an envelope, where reads and writes are observed.
Denied(env, reads, writes) ==
  /\ \A d \in Range(env.denials) :
       \/ d.kind = "fs.read" /\ d.sel = ToPaths(reads)
       \/ d.kind \in {"fs.write", "fs.create"} /\ d.sel = ToPaths(writes)
  /\ \E d \in Range(env.denials) : d.kind = "fs.read" /\ d.sel = ToPaths(reads)
  /\ \E d \in Range(env.denials) : d.kind = "fs.write" /\ d.sel = ToPaths(writes)

LEMMA DenialsAreKept ==
  ASSUME NEW env, NEW an, NEW ws, NEW home, NEW observable,
         env.denials = OfKinds(Denials(an, ws, home), observable),
         "fs.read" \in observable, "fs.write" \in observable
  PROVE  Denied(env, DeniedReads(an, ws, home), DeniedWrites(an, ws, home))
<1> PICK R, W, denied, reads, writes :
      /\ R = DeniedReads(an, ws, home) /\ W = DeniedWrites(an, ws, home)
      /\ denied = Denials(an, ws, home) /\ reads = ToPaths(R) /\ writes = ToPaths(W)
  OBVIOUS
<1> PICK a, b, c :
      /\ a = Entry("fs.read", reads) /\ b = Entry("fs.write", writes)
      /\ c = Entry("fs.create", writes)
  OBVIOUS
<1>1. denied = <<a, b, c>>
  BY DenialsSay
<1>2. \A x, y, z : Range(<<x, y, z>>) = {x, y, z}
  <2> TAKE x, y, z
  <2> PICK t : t = <<x, y, z>>
    OBVIOUS
  <2>1. DOMAIN t = 1..3 /\ t[1] = x /\ t[2] = y /\ t[3] = z
    OBVIOUS
  <2>2. \A i : i \in 1..3 <=> i = 1 \/ i = 2 \/ i = 3
    OBVIOUS
  <2>3. Range(t) = {x, y, z}
    BY ONLY <2>1, <2>2 DEF Range
  <2> QED BY <2>3
<1>3. Range(denied) = {a, b, c}
  BY ONLY <1>1, <1>2
<1>4. IsTuple(denied)
  BY DenialsAreTuple
<1>5. Range(env.denials) = {x \in {a, b, c} : x.kind \in observable}
  BY ONLY <1>3, <1>4, env.denials = OfKinds(Denials(an, ws, home), observable),
          denied = Denials(an, ws, home), OfKindsSays
<1>6. /\ a.kind = "fs.read" /\ a.sel = reads /\ b.kind = "fs.write" /\ b.sel = writes
      /\ c.kind = "fs.create" /\ c.sel = writes
  BY EntrySays
<1> QED BY <1>5, <1>6 DEF Denied

\* What an entry of them covers is permitted to nobody.
LEMMA KeptFromReading ==
  ASSUME NEW env, NEW reads, NEW writes, Denied(env, reads, writes), Admissible(env),
         \A p \in reads : IsSegments(p),
         NEW path, IsSegments(path), path # <<>>, NEW q \in reads, Covers(q, path)
  PROVE  \A e \in WaysToRead(path) : ~Permits(env, e)
<1> TAKE e \in WaysToRead(path)
<1>1. PICK i \in DOMAIN env.denials :
        env.denials[i].kind = "fs.read" /\ env.denials[i].sel = ToPaths(reads)
  BY DEF Denied, Range
<1> PICK d : d = env.denials[i]
  OBVIOUS
<1>2. d.kind \in FileKinds /\ d.sel.paths = reads
  BY <1>1, ToPathsSay DEF FileKinds
<1>3. IsOperation(e, path) /\ d.kind \in DeniableKinds(e, Observe(e))
  BY <1>1, WaysAreOperations
<1>4. q \in d.sel.paths /\ \A p \in d.sel.paths : IsSegments(p)
  BY <1>2
<1> QED BY <1>2, <1>3, <1>4, DeniedIsRefused

LEMMA KeptFromChanging ==
  ASSUME NEW env, NEW reads, NEW writes, Denied(env, reads, writes), Admissible(env),
         \A p \in writes : IsSegments(p),
         NEW path, IsSegments(path), path # <<>>, NEW q \in writes, Covers(q, path)
  PROVE  \A e \in WaysToChange(path) : ~Permits(env, e)
<1> TAKE e \in WaysToChange(path)
<1>1. PICK i \in DOMAIN env.denials :
        env.denials[i].kind = "fs.write" /\ env.denials[i].sel = ToPaths(writes)
  BY DEF Denied, Range
<1> PICK d : d = env.denials[i]
  OBVIOUS
<1>2. d.kind \in FileKinds /\ d.sel.paths = writes
  BY <1>1, ToPathsSay DEF FileKinds
<1>3. IsOperation(e, path) /\ d.kind \in DeniableKinds(e, Observe(e))
  BY <1>1, WaysAreOperations
<1>4. q \in d.sel.paths /\ \A p \in d.sel.paths : IsSegments(p)
  BY <1>2
<1> QED BY <1>2, <1>3, <1>4, DeniedIsRefused

-----------------------------------------------------------------------------
\* What is kept, and what is fixed, is covered by what is denied.
Shielded(patterns, path) ==
  IsSegments(path) /\ path # <<>> /\ \E q \in patterns : Covers(q, path)

LEMMA ShieldedBelow ==
  ASSUME NEW patterns, NEW p, NEW path, IsSegments(p), IsSegments(path), path # <<>>,
         Reaches(path, p), Plain(p), Below(p) \in patterns
  PROVE  Shielded(patterns, path)
<1> PICK q : q = Below(p)
  OBVIOUS
<1>1. BelowOf(q, p)
  BY BelowIs
<1>2. Covers(q, path)
  BY <1>1, BelowCovers
<1> QED BY <1>2 DEF Shielded

LEMMA ShieldedExactly ==
  ASSUME NEW patterns, NEW p, IsSegments(p), p # <<>>, Plain(p), Exactly(p) \in patterns
  PROVE  Shielded(patterns, p)
BY ExactlyCovers DEF Shielded

LEMMA LongerIsPath ==
  ASSUME NEW p, IsSegments(p), NEW t, IsSegments(t), Len(t) > 0
  PROVE  IsSegments(p \o t) /\ p \o t # <<>>
<1> PICK r : r = p \o t
  OBVIOUS
<1>1. IsSegments(r) /\ Joins(r, p, t)
  BY PathsJoin
<1> PICK m, n : m = Len(p) /\ n = Len(t)
  OBVIOUS
<1>2. m \in Nat /\ n \in Nat /\ n > 0 /\ Len(r) = m + n
  BY <1>1 DEF IsSegments, Joins
<1>3. Len(r) # 0
  BY ONLY <1>2
<1> QED BY <1>1, <1>3, ShortPaths

LEMMA KeptIsShielded ==
  ASSUME NEW an, NEW ws, NEW home, IsSegments(ws), IsSegments(home),
         NEW path \in Stores(home) \cup (IF ReachesGitRemote(an) THEN {} ELSE Keys(home))
  PROVE  Shielded(DeniedReads(an, ws, home), path)
<1> PICK R : R = DeniedReads(an, ws, home)
  OBVIOUS
<1>1. \/ path = <<"etc", "shadow">>
      \/ home # <<>> /\ Plain(home) /\ path = home \o <<".aws", "token">>
      \/ home # <<>> /\ Plain(home) /\ path = home \o <<".netrc">>
      \/ home # <<>> /\ Plain(home) /\ ~ReachesGitRemote(an) /\ path = home \o <<".ssh", "id">>
  BY DEF Stores, Keys, Held
<1>2. CASE path = <<"etc", "shadow">>
  <2> PICK p : p = <<"etc", "shadow">>
    OBVIOUS
  <2>1. IsSegments(p) /\ p # <<>>
    BY ShortPaths
  <2>2. Exactly(p) \in R
    BY ReadsDenied
  <2>3. Plain(p)
    BY OwnNamesArePlain
  <2> QED BY <1>2, <2>1, <2>2, <2>3, ShieldedExactly
<1>3. CASE home # <<>> /\ Plain(home) /\ path = home \o <<".aws", "token">>
  <2> PICK s, t, p : s = <<".aws">> /\ t = <<".aws", "token">> /\ p = home \o s
    OBVIOUS
  <2>1. IsSegments(s) /\ IsSegments(t) /\ Len(t) > 0
    BY ShortPaths
  <2>2. IsSegments(path) /\ path # <<>> /\ IsSegments(p)
    BY <1>3, <2>1, LongerIsPath, PathsJoin
  <2>3. Reaches(path, p)
    BY <1>3, LongerReaches
  <2>4. Below(p) \in R
    BY <1>3, ReadsDenied
  <2>5. Plain(p)
    BY <1>3, <2>1, OwnNamesArePlain, PlainJoins
  <2> QED BY <2>2, <2>3, <2>4, <2>5, ShieldedBelow
<1>4. CASE home # <<>> /\ Plain(home) /\ path = home \o <<".netrc">>
  <2> PICK t : t = <<".netrc">>
    OBVIOUS
  <2>1. IsSegments(t) /\ Len(t) > 0
    BY ShortPaths
  <2>2. IsSegments(path) /\ path # <<>>
    BY <1>4, <2>1, LongerIsPath
  <2>3. Exactly(path) \in R
    BY <1>4, ReadsDenied
  <2>4. Plain(path)
    BY <1>4, <2>1, OwnNamesArePlain, PlainJoins
  <2> QED BY <2>2, <2>3, <2>4, ShieldedExactly
<1>5. CASE home # <<>> /\ Plain(home) /\ ~ReachesGitRemote(an) /\ path = home \o <<".ssh", "id">>
  <2> PICK s, t, p : s = <<".ssh">> /\ t = <<".ssh", "id">> /\ p = home \o s
    OBVIOUS
  <2>1. IsSegments(s) /\ IsSegments(t) /\ Len(t) > 0
    BY ShortPaths
  <2>2. IsSegments(path) /\ path # <<>> /\ IsSegments(p)
    BY <1>5, <2>1, LongerIsPath, PathsJoin
  <2>3. Reaches(path, p)
    BY <1>5, LongerReaches
  <2>4. Below(p) \in R
    BY <1>5, ReadsDenied
  <2>5. Plain(p)
    BY <1>5, <2>1, OwnNamesArePlain, PlainJoins
  <2> QED BY <2>2, <2>3, <2>4, <2>5, ShieldedBelow
<1> QED BY <1>1, <1>2, <1>3, <1>4, <1>5

LEMMA FixedIsShielded ==
  ASSUME NEW an, NEW ws, NEW home, IsSegments(ws), IsSegments(home),
         NEW path \in Hooks(ws, home) \cup Keys(home)
                        \cup (IF an.task = "git-operation" THEN {} ELSE Workflows(ws))
  PROVE  Shielded(DeniedWrites(an, ws, home), path)
<1> PICK W : W = DeniedWrites(an, ws, home)
  OBVIOUS
<1>1. \/ Plain(ws) /\ path = ws \o <<".git", "hooks", "post">>
      \/ home # <<>> /\ Plain(home) /\ path = home \o <<".bashrc">>
      \/ home # <<>> /\ Plain(home) /\ path = home \o <<".ssh", "rc">>
      \/ home # <<>> /\ Plain(home) /\ path = home \o <<".ssh", "id">>
      \/ an.task # "git-operation" /\ Plain(ws) /\ path = ws \o <<".github", "workflows", "ci">>
  BY DEF Hooks, Keys, Workflows, Held
<1>2. CASE Plain(ws) /\ path = ws \o <<".git", "hooks", "post">>
  <2> PICK s, t, p : s = <<".git", "hooks">> /\ t = <<".git", "hooks", "post">> /\ p = ws \o s
    OBVIOUS
  <2>1. IsSegments(s) /\ IsSegments(t) /\ Len(t) > 0
    BY ShortPaths
  <2>2. IsSegments(path) /\ path # <<>> /\ IsSegments(p)
    BY <1>2, <2>1, LongerIsPath, PathsJoin
  <2>3. Reaches(path, p)
    BY <1>2, LongerReaches
  <2>4. Below(p) \in W
    BY WritesDenied
  <2>5. Plain(p)
    BY <1>2, <2>1, OwnNamesArePlain, PlainJoins
  <2> QED BY <2>2, <2>3, <2>4, <2>5, ShieldedBelow
<1>3. CASE home # <<>> /\ Plain(home) /\ path = home \o <<".bashrc">>
  <2> PICK t : t = <<".bashrc">>
    OBVIOUS
  <2>1. IsSegments(t) /\ Len(t) > 0
    BY ShortPaths
  <2>2. IsSegments(path) /\ path # <<>>
    BY <1>3, <2>1, LongerIsPath
  <2>3. Exactly(path) \in W
    BY <1>3, WritesDenied
  <2>4. Plain(path)
    BY <1>3, <2>1, OwnNamesArePlain, PlainJoins
  <2> QED BY <2>2, <2>3, <2>4, ShieldedExactly
<1>4. ASSUME NEW name, home # <<>>, Plain(home), path = home \o <<".ssh", name>>
      PROVE  Shielded(W, path)
  <2> PICK s, t, p : s = <<".ssh">> /\ t = <<".ssh", name>> /\ p = home \o s
    OBVIOUS
  <2>1. IsSegments(s) /\ IsSegments(t) /\ Len(t) > 0
    BY ShortPaths
  <2>2. IsSegments(path) /\ path # <<>> /\ IsSegments(p)
    BY <1>4, <2>1, LongerIsPath, PathsJoin
  <2>3. Reaches(path, p)
    BY <1>4, LongerReaches
  <2>4. Below(p) \in W
    BY <1>4, WritesDenied
  <2>5. Plain(p)
    BY <1>4, <2>1, OwnNamesArePlain, PlainJoins
  <2> QED BY <2>2, <2>3, <2>4, <2>5, ShieldedBelow
<1>5. CASE an.task # "git-operation" /\ Plain(ws) /\ path = ws \o <<".github", "workflows", "ci">>
  <2> PICK s, t, p :
        s = <<".github", "workflows">> /\ t = <<".github", "workflows", "ci">> /\ p = ws \o s
    OBVIOUS
  <2>1. IsSegments(s) /\ IsSegments(t) /\ Len(t) > 0
    BY ShortPaths
  <2>2. IsSegments(path) /\ path # <<>> /\ IsSegments(p)
    BY <1>5, <2>1, LongerIsPath, PathsJoin
  <2>3. Reaches(path, p)
    BY <1>5, LongerReaches
  <2>4. Below(p) \in W
    BY <1>5, WritesDenied
  <2>5. Plain(p)
    BY <1>5, <2>1, OwnNamesArePlain, PlainJoins
  <2> QED BY <2>2, <2>3, <2>4, <2>5, ShieldedBelow
<1> QED BY <1>1, <1>2, <1>3, <1>4, <1>5

-----------------------------------------------------------------------------
\* What is granted.
Patterns(S) == IsFiniteSet(S) /\ \A p \in S : IsSegments(p)

LEMMA PatternsJoin ==
  /\ \A p : IsSegments(p) => Patterns({p})
  /\ \A S, T : Patterns(S) /\ Patterns(T) => Patterns(S \cup T)
<1>1. ASSUME NEW p, IsSegments(p) PROVE Patterns({p})
  BY <1>1, FS_Singleton DEF Patterns
<1>2. ASSUME NEW S, NEW T, Patterns(S), Patterns(T) PROVE Patterns(S \cup T)
  BY <1>2, FS_Union DEF Patterns
<1> QED BY <1>1, <1>2

LEMMA HomedPatterns ==
  ASSUME NEW home, IsSegments(home), NEW S, Patterns(S)
  PROVE  /\ Patterns(InHome(home, S))
         /\ home # <<>> /\ S # {} => InHome(home, S) # {}
<1> PICK e : e = Exactly(home)
  OBVIOUS
<1>0. \A q : q \in InHome(home, S) <=> home # <<>> /\ \E p \in S : q = e \o p
  <2> TAKE q
  <2> QED BY ONLY e = Exactly(home), Zenon DEF InHome
<1> PICK I : I = InHome(home, S)
  OBVIOUS
<1>1. \A q : q \in I <=> home # <<>> /\ \E p \in S : q = e \o p
  BY <1>0
<1>2. IsSegments(e)
  BY ExactlyIs
<1>3. \A q \in I : IsSegments(q)
  <2> TAKE q \in I
  <2>1. PICK p \in S : q = e \o p
    BY <1>1
  <2>2. IsSegments(p)
    BY DEF Patterns
  <2> QED BY <1>2, <2>1, <2>2, PathsJoin
<1>4. IsFiniteSet(I)
  <2> PICK f, T : T = {e \o p : p \in S} /\ f = [p \in S |-> e \o p]
    OBVIOUS
  <2>1. f \in [S -> T] /\ \A u \in I : \E x \in S : u = f[x]
    BY <1>1
  <2>2. IsFiniteSet(S)
    BY DEF Patterns
  <2> QED BY ONLY <2>1, <2>2, FiniteImage
<1> QED BY <1>1, <1>3, <1>4 DEF Patterns

\* An entry that names paths, and only these.
NamesPaths(sel) == \E S : sel = ToPaths(S) /\ Patterns(S) /\ S # {}

BaseReads(ws, home) ==
  {Below(ws)} \cup SystemReads \cup InHome(home, {Exactly(<<".gitconfig">>), Below(<<".cache">>)})

BaseWrites(ws, home) ==
  {Below(ws), Below(<<"tmp">>), Exactly(<<"dev", "null">>)}
  \cup InHome(home, {Below(<<".cache">>)})

Caches(home) == InHome(home, {Below(<<"go">>), Below(<<".npm">>)})

LEMMA BaseSays ==
  ASSUME NEW ws, NEW home
  PROVE  \E x : Base(ws, home)
                  = <<Entry("fs.read", ToPaths(BaseReads(ws, home))),
                      Entry("fs.write", ToPaths(BaseWrites(ws, home))),
                      Entry("fs.create", ToPaths(BaseWrites(ws, home))),
                      Entry("fs.link", ToPaths(BaseWrites(ws, home))),
                      Entry("process.exec", x), Entry("process.exit", x)>>
BY Zenon DEF Base, BaseReads, BaseWrites

LEMMA TaskSays ==
  ASSUME NEW an, NEW home
  PROVE  \/ Task(an, home) = <<>>
         \/ /\ home # <<>>
            /\ \E x : Task(an, home)
                        = <<Entry("fs.read", ToPaths(Caches(home))),
                            Entry("fs.write", ToPaths(Caches(home))),
                            Entry("fs.create", ToPaths(Caches(home))),
                            Entry("process.exec", x), Entry("process.exit", x)>>
         \/ /\ home # <<>>
            /\ Task(an, home) = <<Entry("fs.read", ToPaths(InHome(home, {Below(<<".ssh">>)})))>>
<1>1. CASE home = <<>>
  BY <1>1, Zenon DEF Task
<1>2. CASE home # <<>> /\ an.task \in {"build", "test", "dependency-install"}
  BY <1>2, Zenon DEF Task, Caches
<1>3. CASE /\ home # <<>> /\ an.task \notin {"build", "test", "dependency-install"}
           /\ ReachesGitRemote(an)
  BY <1>3, Zenon DEF Task
<1>4. CASE /\ home # <<>> /\ an.task \notin {"build", "test", "dependency-install"}
           /\ ~ReachesGitRemote(an)
  BY <1>4, Zenon DEF Task
<1> QED BY <1>1, <1>2, <1>3, <1>4, Zenon

LEMMA GrantedPatterns ==
  ASSUME NEW ws, NEW home, IsSegments(ws), IsSegments(home)
  PROVE  /\ Patterns(BaseReads(ws, home)) /\ Below(ws) \in BaseReads(ws, home)
         /\ Patterns(BaseWrites(ws, home)) /\ Below(ws) \in BaseWrites(ws, home)
         /\ home # <<>> => /\ NamesPaths(ToPaths(Caches(home)))
                           /\ NamesPaths(ToPaths(InHome(home, {Below(<<".ssh">>)})))
<1>1. \A a : Patterns({Below(<<a>>)}) /\ Patterns({Exactly(<<a>>)})
  <2> TAKE a
  <2> PICK p, q, r : p = <<a>> /\ q = Below(p) /\ r = Exactly(p)
    OBVIOUS
  <2>1. IsSegments(q) /\ IsSegments(r)
    BY ShortPaths, PatternsOfPaths
  <2> QED BY <2>1, PatternsJoin
<1>2. \A a, b : Patterns({Exactly(<<a, b>>)})
  <2> TAKE a, b
  <2> PICK p, r : p = <<a, b>> /\ r = Exactly(p)
    OBVIOUS
  <2>1. IsSegments(r)
    BY ShortPaths, PatternsOfPaths
  <2> QED BY <2>1, PatternsJoin
<1>3. Patterns({Below(ws)})
  BY PatternsOfPaths, PatternsJoin
<1>4. \A a, b : Patterns({a}) /\ Patterns({b}) => Patterns({a, b})
  <2> TAKE a, b
  <2>1. {a, b} = {a} \cup {b}
    OBVIOUS
  <2> QED BY <2>1, PatternsJoin
<1>5. \A a, b, c : Patterns({a, b}) /\ Patterns({c}) => Patterns({a, b, c})
  <2> TAKE a, b, c
  <2>1. {a, b, c} = {a, b} \cup {c}
    OBVIOUS
  <2> QED BY <2>1, PatternsJoin
<1>6. \A a, b, c, d : Patterns({a, b}) /\ Patterns({c, d}) => Patterns({a, b, c, d})
  <2> TAKE a, b, c, d
  <2>1. {a, b, c, d} = {a, b} \cup {c, d}
    OBVIOUS
  <2> QED BY <2>1, PatternsJoin
<1>7. Patterns(SystemReads)
  <2>1. /\ Patterns({Below(<<"usr">>), Exactly(<<"etc", "passwd">>)})
        /\ Patterns({Below(<<"proc">>), Below(<<"tmp">>)})
    BY <1>1, <1>2, <1>4
  <2> QED BY <1>6, <2>1 DEF SystemReads
<1>8. Patterns(BaseReads(ws, home)) /\ Below(ws) \in BaseReads(ws, home)
  <2> PICK S, I : S = {Exactly(<<".gitconfig">>), Below(<<".cache">>)} /\ I = InHome(home, S)
    OBVIOUS
  <2>1. Patterns(S)
    BY <1>1, <1>4
  <2>2. Patterns(I)
    BY <2>1, HomedPatterns
  <2>3. BaseReads(ws, home) = {Below(ws)} \cup SystemReads \cup I
    BY DEF BaseReads
  <2>4. Patterns({Below(ws)} \cup SystemReads)
    BY <1>3, <1>7, PatternsJoin
  <2> QED BY <2>2, <2>3, <2>4, PatternsJoin
<1>9. Patterns(BaseWrites(ws, home)) /\ Below(ws) \in BaseWrites(ws, home)
  <2> PICK S, I : S = {Below(<<".cache">>)} /\ I = InHome(home, S)
    OBVIOUS
  <2>1. Patterns(I)
    BY <1>1, HomedPatterns
  <2> PICK W : W = {Below(ws), Below(<<"tmp">>), Exactly(<<"dev", "null">>)}
    OBVIOUS
  <2>2. BaseWrites(ws, home) = W \cup I
    BY DEF BaseWrites
  <2>3. Patterns({Below(ws), Below(<<"tmp">>)})
    BY <1>1, <1>3, <1>4
  <2>4. Patterns(W)
    BY <1>2, <1>5, <2>3
  <2> QED BY <2>1, <2>2, <2>4, PatternsJoin
<1>10. ASSUME home # <<>>
       PROVE  /\ NamesPaths(ToPaths(Caches(home)))
              /\ NamesPaths(ToPaths(InHome(home, {Below(<<".ssh">>)})))
  <2> PICK S, T : S = {Below(<<"go">>), Below(<<".npm">>)} /\ T = {Below(<<".ssh">>)}
    OBVIOUS
  <2>1. Patterns(S) /\ Patterns(T) /\ S # {} /\ T # {}
    BY <1>1, <1>4
  <2>2. /\ Patterns(InHome(home, S)) /\ InHome(home, S) # {}
        /\ Patterns(InHome(home, T)) /\ InHome(home, T) # {}
    BY <1>10, <2>1, HomedPatterns
  <2> QED BY <2>2 DEF NamesPaths, Caches
<1> QED BY <1>8, <1>9, <1>10

-----------------------------------------------------------------------------
\* What is merged of entries that name paths names them all, and nothing else.
LEMMA WidenedIs ==
  ASSUME NEW sel, NamesPaths(sel), NEW others, IsFiniteSet(others),
         \A o \in others : NamesPaths(o), NEW w, w = Widened(sel, others)
  PROVE  PathsOnly(w) /\ Patterns(w.paths) /\ sel.paths \subseteq w.paths
<1> PICK U : U = UNION {o.paths : o \in others}
  OBVIOUS
<1>1. PICK S : sel = ToPaths(S) /\ Patterns(S)
  BY DEF NamesPaths
<1>2. \A o \in others : PathsOnly(o) /\ Patterns(o.paths)
  BY ToPathsSay DEF NamesPaths
<1>3. Patterns(U)
  <2>1. IsFiniteSet({o.paths : o \in others})
    <3> PICK f, T : T = {o.paths : o \in others} /\ f = [o \in others |-> o.paths]
      OBVIOUS
    <3>1. f \in [others -> T] /\ \A u \in T : \E x \in others : u = f[x]
      OBVIOUS
    <3>2. IsFiniteSet(T)
      BY ONLY <3>1, IsFiniteSet(others), FiniteImage
    <3> QED BY <3>2
  <2>2. \A T \in {o.paths : o \in others} : IsFiniteSet(T)
    BY <1>2 DEF Patterns
  <2>3. IsFiniteSet(U)
    BY <2>1, <2>2, FS_UNION
  <2>4. \A p \in U : IsSegments(p)
    BY <1>2 DEF Patterns
  <2> QED BY <2>3, <2>4 DEF Patterns
<1>4. /\ UNION {o.hosts : o \in others} = {} /\ UNION {o.executables : o \in others} = {}
  BY <1>2 DEF PathsOnly
<1>5. /\ w.paths = S \cup U /\ w.hosts = {} /\ w.executables = {} /\ w.ports = {}
      /\ w.protocols = {} /\ w.args = {} /\ w.max = 0
  BY <1>1, <1>4 DEF Widened, ToPaths, NoSelector
<1>6. sel.paths = S
  BY <1>1, ToPathsSay
<1>7. Patterns(S \cup U)
  BY <1>1, <1>3, PatternsJoin
<1> QED BY <1>5, <1>6, <1>7 DEF PathsOnly

\* The entries of a kind are merged into the first of them.
LEMMA MergedFiles ==
  ASSUME NEW entries, IsTuple(entries), NEW k, NEW b \in DOMAIN entries, entries[b].kind = k,
         \A i \in DOMAIN entries : entries[i].kind = k => NamesPaths(entries[i].sel),
         \A i \in 1..b - 1 : entries[i].kind # k,
         NEW x \in Range(Merged(entries)), x.kind = k
  PROVE  PathsOnly(x.sel) /\ Patterns(x.sel.paths) /\ entries[b].sel.paths \subseteq x.sel.paths
<1> DEFINE alike(i, j) == /\ entries[i].kind = entries[j].kind
                          /\ SameDims(entries[i].sel, entries[j].sel)
           later(i) == {entries[j].sel : j \in {l \in DOMAIN entries : l > i /\ alike(i, l)}}
           joined == [i \in DOMAIN entries |->
                        Entry(entries[i].kind, Widened(entries[i].sel, later(i)))]
           places == {i \in DOMAIN entries : \A j \in 1..i - 1 : ~alike(j, i)}
<1>1. Merged(entries) = Chosen(joined, places)
  BY Zenon DEF Merged
<1>2. PICK N \in Nat : entries = [i \in 1..N |-> entries[i]]
  BY DEF IsTuple
<1>3. DOMAIN entries = 1..N
  BY <1>2
<1>4. /\ DOMAIN joined = 1..N /\ joined = [i \in 1..N |-> joined[i]]
  BY <1>3
<1>5. \A i \in 1..N : /\ joined[i].kind = entries[i].kind
                      /\ joined[i].sel = Widened(entries[i].sel, later(i))
  <2> TAKE i \in 1..N
  <2>1. joined[i] = Entry(entries[i].kind, Widened(entries[i].sel, later(i)))
    BY <1>3
  <2> QED BY <2>1, EntrySays
<1>6. IsTuple(joined)
  BY <1>4 DEF IsTuple
<1>7. places \in SUBSET DOMAIN joined
  BY <1>3, <1>4
<1>8. ASSUME NEW i \in places, entries[i].kind = k PROVE i = b
  <2>1. i \in 1..N /\ b \in 1..N /\ \A j \in 1..i - 1 : ~alike(j, i)
    BY <1>3
  <2>2. alike(b, i)
    <3>1. NamesPaths(entries[b].sel) /\ NamesPaths(entries[i].sel)
      BY <1>3, <1>8, <2>1
    <3>2. \A a, c : NamesPaths(a) /\ NamesPaths(c) => SameDims(a, c)
      BY ToPathsSay DEF NamesPaths, PathsOnly, SameDims
    <3> QED BY <1>8, <3>1, <3>2
  <2> HIDE DEF alike
  <2>3. ~(b < i)
    <3>1. b < i => b \in 1..i - 1
      BY <2>1
    <3> QED BY <2>1, <2>2, <3>1
  <2>4. ~(i < b)
    <3>1. i < b => i \in 1..b - 1
      BY <2>1
    <3> QED BY <1>8, <3>1
  <2> QED BY <2>1, <2>3, <2>4
<1>9. later(b) \subseteq {entries[j].sel : j \in {l \in 1..N : entries[l].kind = k}}
  BY <1>3
<1>10. IsFiniteSet(later(b)) /\ \A o \in later(b) : NamesPaths(o)
  <2> PICK L, T, f : L = later(b) /\ T = {entries[j].sel : j \in 1..N}
                     /\ f = [j \in 1..N |-> entries[j].sel]
    OBVIOUS
  <2>1. f \in [1..N -> T] /\ \A u \in L : \E j \in 1..N : u = f[j]
    <3>1. \A u \in L : \E j \in 1..N : u = entries[j].sel
      BY <1>9
    <3> QED BY ONLY <3>1, L = later(b) /\ T = {entries[j].sel : j \in 1..N}
                     /\ f = [j \in 1..N |-> entries[j].sel]
  <2>2. IsFiniteSet(1..N)
    BY FS_Interval
  <2>3. IsFiniteSet(L)
    BY ONLY <2>1, <2>2, FiniteImage
  <2> QED BY <1>3, <1>9, <2>3
<1> HIDE DEF joined, places, later
<1>11. Range(Chosen(joined, places)) = {joined[i] : i \in places}
  BY <1>6, <1>7, RangeOfChosen
<1>12. PICK i \in places : x = joined[i]
  BY <1>1, <1>11
<1>13. i = b
  <2>1. i \in 1..N
    BY <1>4, <1>7
  <2>2. entries[i].kind = k
    BY <1>5, <1>12, <2>1
  <2> QED BY <1>8, <2>2
<1> PICK sel, others, w : sel = entries[b].sel /\ others = later(b) /\ w = x.sel
  OBVIOUS
<1>14. w = Widened(sel, others) /\ NamesPaths(sel)
  BY <1>3, <1>5, <1>12, <1>13
<1>15. IsFiniteSet(others) /\ \A o \in others : NamesPaths(o)
  BY <1>10
<1> QED BY <1>14, <1>15, WidenedIs

\* The entries that a task's envelope is made of.
LEMMA JoinedHead ==
  ASSUME NEW m \in Nat, NEW n \in Nat, NEW s, NEW t,
         s = [i \in 1..m |-> s[i]], t = [i \in 1..n |-> t[i]]
  PROVE  \A i \in 1..m : (s \o t)[i] = s[i]
<1> PICK S : S = {s[i] : i \in 1..m} \cup {t[i] : i \in 1..n}
  OBVIOUS
<1>1. s \in [1..m -> S] /\ t \in [1..n -> S]
  OBVIOUS
<1>2. s \in Seq(S) /\ t \in Seq(S) /\ Len(s) = m /\ Len(t) = n
  BY <1>1, TupleIsSequence
<1>3. \A i \in 1..Len(s) + Len(t) : (s \o t)[i] = IF i <= Len(s) THEN s[i] ELSE t[i - Len(s)]
  BY ONLY <1>2, ConcatProperties
<1>4. \A i \in 1..m + n : i <= m => (s \o t)[i] = s[i]
  BY <1>2, <1>3
<1> QED BY <1>4

HoldsFiles(entries, p) ==
  /\ \A i \in DOMAIN entries : entries[i].kind \in FileKinds => NamesPaths(entries[i].sel)
  /\ \A k \in FileKinds : \E b \in DOMAIN entries :
       /\ entries[b].kind = k /\ p \in entries[b].sel.paths
       /\ \A i \in 1..b - 1 : entries[i].kind # k

LEMMA JoinedFiles ==
  ASSUME NEW an, NEW ws, NEW home, NEW resolvers, IsSegments(ws), IsSegments(home), NEW joined,
         joined = Base(ws, home) \o Task(an, home) \o Network(an, resolvers)
  PROVE  HoldsFiles(joined, Below(ws))
<1> PICK base, task, network :
      base = Base(ws, home) /\ task = Task(an, home) /\ network = Network(an, resolvers)
  OBVIOUS
<1> PICK reads, writes, caches, keys :
      /\ reads = ToPaths(BaseReads(ws, home)) /\ writes = ToPaths(BaseWrites(ws, home))
      /\ caches = ToPaths(Caches(home)) /\ keys = ToPaths(InHome(home, {Below(<<".ssh">>)}))
  OBVIOUS
<1>1. /\ NamesPaths(reads) /\ Below(ws) \in reads.paths
      /\ NamesPaths(writes) /\ Below(ws) \in writes.paths
      /\ home # <<>> => NamesPaths(caches) /\ NamesPaths(keys)
  <2>1. /\ Patterns(BaseReads(ws, home)) /\ Below(ws) \in BaseReads(ws, home)
        /\ Patterns(BaseWrites(ws, home)) /\ Below(ws) \in BaseWrites(ws, home)
        /\ home # <<>> => /\ NamesPaths(ToPaths(Caches(home)))
                          /\ NamesPaths(ToPaths(InHome(home, {Below(<<".ssh">>)})))
    BY GrantedPatterns
  <2> QED BY <2>1, ToPathsSay DEF NamesPaths
<1>2. PICK x : base = <<Entry("fs.read", reads), Entry("fs.write", writes),
                        Entry("fs.create", writes), Entry("fs.link", writes),
                        Entry("process.exec", x), Entry("process.exit", x)>>
  BY BaseSays
<1>3. PICK a, b, c, d, e, f :
        /\ base = <<a, b, c, d, e, f>>
        /\ a.kind = "fs.read" /\ a.sel = reads /\ b.kind = "fs.write" /\ b.sel = writes
        /\ c.kind = "fs.create" /\ c.sel = writes /\ d.kind = "fs.link" /\ d.sel = writes
        /\ e.kind = "process.exec" /\ f.kind = "process.exit"
  <2>1. PICK a, b, c, d, e, f :
          /\ a = Entry("fs.read", reads) /\ b = Entry("fs.write", writes)
          /\ c = Entry("fs.create", writes) /\ d = Entry("fs.link", writes)
          /\ e = Entry("process.exec", x) /\ f = Entry("process.exit", x)
    OBVIOUS
  <2>2. base = <<a, b, c, d, e, f>>
    BY ONLY <1>2, <2>1
  <2>3. /\ a.kind = "fs.read" /\ a.sel = reads /\ b.kind = "fs.write" /\ b.sel = writes
        /\ c.kind = "fs.create" /\ c.sel = writes /\ d.kind = "fs.link" /\ d.sel = writes
        /\ e.kind = "process.exec" /\ f.kind = "process.exit"
    BY ONLY <2>1, EntrySays
  <2> QED BY ONLY <2>2, <2>3
<1>4. /\ DOMAIN base = 1..6 /\ base = [i \in 1..6 |-> base[i]]
      /\ base[1] = a /\ base[2] = b /\ base[3] = c /\ base[4] = d /\ base[5] = e /\ base[6] = f
  <2>1. \A p, q, r, s, t, u :
          LET v == <<p, q, r, s, t, u>>
          IN /\ DOMAIN v = 1..6 /\ v = [i \in 1..6 |-> v[i]]
             /\ v[1] = p /\ v[2] = q /\ v[3] = r /\ v[4] = s /\ v[5] = t /\ v[6] = u
    OBVIOUS
  <2> QED BY ONLY <1>3, <2>1
<1>5. \A y \in Range(base) : y.kind \in FileKinds => NamesPaths(y.sel)
  <2>1. \A i \in 1..6 : i = 1 \/ i = 2 \/ i = 3 \/ i = 4 \/ i = 5 \/ i = 6
    OBVIOUS
  <2>2. \A y \in Range(base) : y = a \/ y = b \/ y = c \/ y = d \/ y = e \/ y = f
    BY ONLY <1>4, <2>1 DEF Range
  <2>3. e.kind \notin FileKinds /\ f.kind \notin FileKinds
    BY <1>3 DEF FileKinds
  <2> QED BY <1>1, <1>3, <2>2, <2>3
<1>6. \A y \in Range(task) : y.kind \in FileKinds => NamesPaths(y.sel)
  <2>1. CASE task = <<>>
    <3>1. Range(<<>>) = {}
      BY DEF Range
    <3> QED BY <2>1, <3>1
  <2>2. CASE /\ home # <<>>
             /\ \E z : task = <<Entry("fs.read", caches), Entry("fs.write", caches),
                              Entry("fs.create", caches), Entry("process.exec", z),
                              Entry("process.exit", z)>>
    <3>1. PICK z : task = <<Entry("fs.read", caches), Entry("fs.write", caches),
                            Entry("fs.create", caches), Entry("process.exec", z),
                            Entry("process.exit", z)>>
      BY <2>2
    <3>2. PICK p, q, r, s, t :
            /\ p = Entry("fs.read", caches) /\ q = Entry("fs.write", caches)
            /\ r = Entry("fs.create", caches) /\ s = Entry("process.exec", z)
            /\ t = Entry("process.exit", z)
      OBVIOUS
    <3>3. task = <<p, q, r, s, t>>
      BY ONLY <3>1, <3>2
    <3>4. p.sel = caches /\ q.sel = caches /\ r.sel = caches
          /\ s.kind = "process.exec" /\ t.kind = "process.exit"
      BY ONLY <3>2, EntrySays
    <3>5. \A y \in Range(task) : y = p \/ y = q \/ y = r \/ y = s \/ y = t
      <4>1. /\ DOMAIN task = 1..5 /\ task[1] = p /\ task[2] = q /\ task[3] = r
            /\ task[4] = s /\ task[5] = t
        BY ONLY <3>3
      <4>2. \A i \in 1..5 : i = 1 \/ i = 2 \/ i = 3 \/ i = 4 \/ i = 5
        OBVIOUS
      <4> QED BY ONLY <4>1, <4>2 DEF Range
    <3>6. s.kind \notin FileKinds /\ t.kind \notin FileKinds /\ NamesPaths(caches)
      BY <1>1, <2>2, <3>4 DEF FileKinds
    <3> QED BY ONLY <3>4, <3>5, <3>6
  <2>3. CASE home # <<>> /\ task = <<Entry("fs.read", keys)>>
    <3> PICK p : p = Entry("fs.read", keys)
      OBVIOUS
    <3>1. DOMAIN task = 1..1 /\ task[1] = p /\ \A i \in 1..1 : i = 1
      BY <2>3
    <3>2. \A y \in Range(task) : y = p
      BY ONLY <3>1 DEF Range
    <3>3. p.sel = keys
      BY EntrySays
    <3> QED BY <1>1, <2>3, <3>2, <3>3
  <2> QED BY <2>1, <2>2, <2>3, TaskSays
<1>7. IsTuple(task) /\ IsTuple(network) /\ KindsOf(network) \subseteq {"net.connect"}
  BY TaskKinds, NetworkEntries
<1>8. \A y \in Range(network) : y.kind \notin FileKinds
  <2>1. \A y \in Range(network) : y.kind = "net.connect"
    BY <1>7, KindsOfRange
  <2> QED BY <2>1 DEF FileKinds
<1> PICK first : first = base \o task
  OBVIOUS
<1>9. PICK m \in Nat : task = [i \in 1..m |-> task[i]]
  BY <1>7 DEF IsTuple
<1>10. PICK n \in Nat : network = [i \in 1..n |-> network[i]]
  BY <1>7 DEF IsTuple
<1>11. /\ DOMAIN first = 1..6 + m /\ first = [i \in 1..6 + m |-> first[i]]
       /\ Range(first) = Range(base) \cup Range(task) /\ \A i \in 1..6 : first[i] = base[i]
  <2>1. PICK h \in Nat : h = 6
    BY 6 \in Nat
  <2>2. base = [i \in 1..h |-> base[i]]
    BY <1>4, <2>1
  <2>3. /\ DOMAIN (base \o task) = 1..h + m
        /\ base \o task = [i \in 1..h + m |-> (base \o task)[i]]
        /\ Range(base \o task) = Range(base) \cup Range(task)
    <3>1. DOMAIN (base \o task) = 1..h + m
      BY ONLY <1>9, <2>2, JoinedRange
    <3>2. base \o task = [i \in 1..h + m |-> (base \o task)[i]]
      BY ONLY <1>9, <2>2, JoinedRange
    <3>3. Range(base \o task) = Range(base) \cup Range(task)
      BY ONLY <1>9, <2>2, JoinedRange
    <3> QED BY ONLY <3>1, <3>2, <3>3
  <2>4. \A i \in 1..h : (base \o task)[i] = base[i]
    BY ONLY <1>9, <2>2, JoinedHead
  <2> QED BY ONLY <2>1, <2>3, <2>4, first = base \o task
<1>12. /\ DOMAIN joined = 1..6 + m + n
       /\ Range(joined) = Range(first) \cup Range(network)
       /\ \A i \in 1..6 + m : joined[i] = first[i]
  <2>1. joined = first \o network
    OBVIOUS
  <2>2. PICK l \in Nat : l = 6 + m
    BY 6 + m \in Nat
  <2>3. first = [i \in 1..l |-> first[i]]
    BY <1>11, <2>2
  <2>4. DOMAIN (first \o network) = 1..l + n /\ Range(first \o network) = Range(first) \cup Range(network)
    BY ONLY <1>10, <2>3, JoinedRange
  <2>5. \A i \in 1..l : (first \o network)[i] = first[i]
    BY ONLY <1>10, <2>3, JoinedHead
  <2> QED BY ONLY <2>1, <2>2, <2>4, <2>5
<1>13. \A i \in 1..6 : i \in DOMAIN joined /\ joined[i] = base[i]
  <2> TAKE i \in 1..6
  <2>1. i \in 1..6 + m /\ i \in 1..6 + m + n
    OBVIOUS
  <2>2. joined[i] = first[i] /\ first[i] = base[i] /\ i \in DOMAIN joined
    BY ONLY <1>11, <1>12, <2>1, i \in 1..6
  <2> QED BY <2>2
<1>14. \A i \in DOMAIN joined : joined[i].kind \in FileKinds => NamesPaths(joined[i].sel)
  <2> TAKE i \in DOMAIN joined
  <2>1. joined[i] \in Range(joined)
    BY DEF Range
  <2> QED BY <1>5, <1>6, <1>8, <1>11, <1>12, <2>1
<1>15. ASSUME NEW k \in FileKinds
       PROVE  \E b1 \in DOMAIN joined :
                /\ joined[b1].kind = k /\ Below(ws) \in joined[b1].sel.paths
                /\ \A i \in 1..b1 - 1 : joined[i].kind # k
  <2>1. /\ joined[1] = a /\ joined[2] = b /\ joined[3] = c /\ joined[4] = d
        /\ 1 \in DOMAIN joined /\ 2 \in DOMAIN joined /\ 3 \in DOMAIN joined
        /\ 4 \in DOMAIN joined
    BY <1>4, <1>13
  <2>2. CASE k = "fs.read"
    <3>1. \A i : i \notin 1..1 - 1
      OBVIOUS
    <3>2. joined[1].kind = k /\ Below(ws) \in joined[1].sel.paths
      BY <1>1, <1>3, <2>1, <2>2
    <3> QED BY <2>1, <3>1, <3>2
  <2>3. CASE k = "fs.write"
    <3>1. \A i \in 1..2 - 1 : i = 1
      OBVIOUS
    <3>2. joined[2].kind = k /\ Below(ws) \in joined[2].sel.paths /\ joined[1].kind # k
      BY <1>1, <1>3, <2>1, <2>3
    <3> QED BY <2>1, <3>1, <3>2
  <2>4. CASE k = "fs.create"
    <3>1. \A i \in 1..3 - 1 : i = 1 \/ i = 2
      OBVIOUS
    <3>2. /\ joined[3].kind = k /\ Below(ws) \in joined[3].sel.paths
          /\ joined[1].kind # k /\ joined[2].kind # k
      BY <1>1, <1>3, <2>1, <2>4
    <3> QED BY <2>1, <3>1, <3>2
  <2>5. CASE k = "fs.link"
    <3>1. \A i \in 1..4 - 1 : i = 1 \/ i = 2 \/ i = 3
      OBVIOUS
    <3>2. /\ joined[4].kind = k /\ Below(ws) \in joined[4].sel.paths
          /\ joined[1].kind # k /\ joined[2].kind # k /\ joined[3].kind # k
      BY <1>1, <1>3, <2>1, <2>5
    <3> QED BY <2>1, <3>1, <3>2
  <2> QED BY <2>2, <2>3, <2>4, <2>5 DEF FileKinds
<1> QED BY <1>14, <1>15, Zenon DEF HoldsFiles

\* What is granted of files lets the task at its workspace.
Granted(env, ws) ==
  /\ IsTuple(env.grants)
  /\ \A g \in Range(env.grants) : g.kind \in FileKinds =>
       PathsOnly(g.sel) /\ Patterns(g.sel.paths) /\ Below(ws) \in g.sel.paths

LEMMA GrantsAreKept ==
  ASSUME NEW env, NEW an, NEW ws, NEW home, NEW resolvers, NEW allowed, NEW observable,
         IsSegments(ws), IsSegments(home), NEW wanted,
         wanted = Merged(Base(ws, home) \o Task(an, home) \o Network(an, resolvers)),
         env.grants = OfKinds(OfKinds(wanted, allowed), observable)
  PROVE  Granted(env, ws)
<1> PICK joined : joined = Base(ws, home) \o Task(an, home) \o Network(an, resolvers)
  OBVIOUS
<1>1. IsTuple(joined)
  BY WantedKinds
<1>2. wanted = Merged(joined) /\ IsTuple(wanted)
  BY <1>1, MergedKinds
<1>3. HoldsFiles(joined, Below(ws))
  BY JoinedFiles
<1>4. ASSUME NEW x \in Range(wanted), x.kind \in FileKinds
      PROVE  PathsOnly(x.sel) /\ Patterns(x.sel.paths) /\ Below(ws) \in x.sel.paths
  <2> PICK k : k = x.kind
    OBVIOUS
  <2>0. \A l \in FileKinds : \E b \in DOMAIN joined :
          /\ joined[b].kind = l /\ Below(ws) \in joined[b].sel.paths
          /\ \A i \in 1..b - 1 : joined[i].kind # l
    BY <1>3, Zenon DEF HoldsFiles
  <2>1. PICK b \in DOMAIN joined :
          /\ joined[b].kind = k /\ Below(ws) \in joined[b].sel.paths
          /\ \A i \in 1..b - 1 : joined[i].kind # k
    BY ONLY <1>4, <2>0, k = x.kind, Zenon
  <2>2. \A i \in DOMAIN joined : joined[i].kind = k => NamesPaths(joined[i].sel)
    BY <1>3, <1>4 DEF HoldsFiles
  <2>3. x \in Range(Merged(joined))
    BY <1>2
  <2>4. PathsOnly(x.sel) /\ Patterns(x.sel.paths) /\ joined[b].sel.paths \subseteq x.sel.paths
    BY <1>1, <2>1, <2>2, <2>3, MergedFiles
  <2> QED BY <2>1, <2>4
<1> PICK permitted : permitted = OfKinds(wanted, allowed)
  OBVIOUS
<1>5. IsTuple(permitted) /\ Range(permitted) \subseteq Range(wanted)
  BY <1>2, OfKindsSays
<1>6. IsTuple(env.grants) /\ Range(env.grants) \subseteq Range(permitted)
  BY <1>5, OfKindsSays
<1> QED BY <1>4, <1>5, <1>6 DEF Granted

-----------------------------------------------------------------------------
\* The work lies where nothing is denied.
LEMMA LastSegment ==
  ASSUME NEW p, IsSegments(p), NEW m, m = Len(p)
  PROVE  /\ \A a : /\ IsSegments(p \o <<a>>) /\ Len(p \o <<a>>) = m + 1
                   /\ (p \o <<a>>)[m + 1] = a /\ \A i \in 1..m : (p \o <<a>>)[i] = p[i]
         /\ \A a, b : IsSegments(p \o <<a, b>>) /\ Len(p \o <<a, b>>) = m + 2
<1>1. ASSUME NEW a
      PROVE  /\ IsSegments(p \o <<a>>) /\ Len(p \o <<a>>) = m + 1
             /\ (p \o <<a>>)[m + 1] = a /\ \A i \in 1..m : (p \o <<a>>)[i] = p[i]
  <2> PICK t : t = <<a>>
    OBVIOUS
  <2>1. IsSegments(t) /\ Len(t) = 1 /\ t[1] = a /\ 1 \in 1..1
    BY ShortPaths
  <2>2. IsSegments(p \o t) /\ Joins(p \o t, p, t)
    BY <2>1, PathsJoin
  <2> QED BY <2>1, <2>2 DEF Joins
<1>2. ASSUME NEW a, NEW b PROVE IsSegments(p \o <<a, b>>) /\ Len(p \o <<a, b>>) = m + 2
  <2> PICK t : t = <<a, b>>
    OBVIOUS
  <2>1. IsSegments(t) /\ Len(t) = 2
    BY ShortPaths
  <2>2. IsSegments(p \o t) /\ Joins(p \o t, p, t)
    BY <2>1, PathsJoin
  <2> QED BY <2>1, <2>2 DEF Joins
<1> QED BY <1>1, <1>2

\* The directory the work lies in, told by its segments.
IsWork(work, ws) ==
  /\ IsSegments(work) /\ Len(work) = Len(ws) + 1 /\ work[Len(ws) + 1] = "src"
  /\ \A i \in 1..Len(ws) : work[i] = ws[i]

LEMMA WorkIsWork ==
  ASSUME NEW ws, IsSegments(ws)
  PROVE  IsWork(ws \o <<"src">>, ws)
<1> PICK a, work : a = "src" /\ work = ws \o <<a>>
  OBVIOUS
<1>1. IsWork(work, ws)
  BY LastSegment DEF IsWork
<1> QED BY <1>1

LEMMA WorkBelow ==
  ASSUME NEW ws, IsSegments(ws), NEW work, IsWork(work, ws), NEW p, IsSegments(p),
         Reaches(work, p)
  PROVE  Reaches(ws, p) \/ (Len(p) = Len(ws) + 1 /\ p[Len(ws) + 1] = "src")
<1> PICK m, n : m = Len(p) /\ n = Len(ws)
  OBVIOUS
<1>1. m \in Nat /\ n \in Nat
  BY DEF IsSegments
<1>2. m <= n + 1 /\ (\A i \in 1..m : work[i] = p[i]) /\ work[n + 1] = "src"
      /\ \A i \in 1..n : work[i] = ws[i]
  BY DEF Reaches, IsWork
<1>3. CASE m <= n
  <2>1. ASSUME NEW i \in 1..m PROVE ws[i] = p[i]
    <3>1. i \in 1..n
      BY <1>1, <1>3
    <3> QED BY <1>2, <3>1
  <2> QED BY <1>3, <2>1 DEF Reaches
<1>4. CASE ~(m <= n)
  <2>1. m = n + 1 /\ n + 1 \in 1..m
    BY <1>1, <1>2, <1>4
  <2> QED BY <1>2, <2>1
<1> QED BY <1>3, <1>4

LEMMA ReachesIsPrefix ==
  ASSUME NEW ws, IsSegments(ws), NEW p, IsSegments(p), Reaches(ws, p)
  PROVE  IsPrefix(p, ws)
<1> PICK m, n, S : m = Len(p) /\ n = Len(ws) /\ S = Range(ws)
  OBVIOUS
<1>1. m \in Nat /\ n \in Nat /\ m <= n /\ \A i \in 1..m : ws[i] = p[i]
  BY DEF IsSegments, Reaches
<1>3. ASSUME NEW s, IsSegments(s), m <= Len(s)
      PROVE  IsSegments(SubSeq(s, 1, m)) /\ Len(SubSeq(s, 1, m)) = m
             /\ \A i \in 1..m : SubSeq(s, 1, m)[i] = s[i]
  <2> PICK T, l : T = Range(s) /\ l = Len(s)
    OBVIOUS
  <2>1. DOMAIN s = 1..l /\ l \in Nat
    BY <1>3, PathIsSequence
  <2>2. \A i \in 1..m : s[i] \in T
    <3> TAKE i \in 1..m
    <3>1. i \in DOMAIN s
      BY <1>1, <1>3, <2>1
    <3> QED BY <3>1 DEF Range
  <2>3. 1 \in Int /\ m \in Int
    BY <1>1
  <2> PICK o, r : o = 1 /\ r = SubSeq(s, o, m)
    OBVIOUS
  <2>4. /\ r \in Seq(T) /\ Len(r) = IF o <= m THEN m - o + 1 ELSE 0
        /\ \A i \in 1..m - o + 1 : r[i] = s[o + i - 1]
    BY <2>2, <2>3, SubSeqProperties
  <2>5. Len(r) = m
    BY <1>1, <2>4
  <2>6. ASSUME NEW i \in 1..m PROVE r[i] = s[i]
    <3>1. i \in 1..m - o + 1 /\ o + i - 1 = i
      BY <1>1
    <3> QED BY <2>4, <3>1
  <2>7. IsSegments(r)
    BY <2>4, SequenceIsPath
  <2> QED BY <2>5, <2>6, <2>7
<1> PICK a, b : a = SubSeq(p, 1, m) /\ b = SubSeq(ws, 1, m)
  OBVIOUS
<1>4. m <= m
  BY <1>1
<1>5. IsSegments(a) /\ Len(a) = m /\ \A i \in 1..m : a[i] = p[i]
  BY <1>3, <1>4
<1>6. IsSegments(b) /\ Len(b) = m /\ \A i \in 1..m : b[i] = ws[i]
  BY <1>1, <1>3
<1>7. Len(a) = Len(b) /\ \A i \in 1..Len(a) : a[i] = b[i]
  BY <1>1, <1>5, <1>6
<1>8. a = b
  BY ONLY <1>5, <1>6, <1>7, SamePath
<1> QED BY <1>1, <1>8 DEF IsPrefix

LEMMA NotTheWork ==
  ASSUME NEW ws, IsSegments(ws), NEW work, IsWork(work, ws), NEW p, IsSegments(p),
         p[Len(p)] # "src", Plain(p)
  PROVE  /\ MatchPath(Below(p), work) => Reaches(ws, p)
         /\ ~MatchPath(Exactly(p), work)
<1>0. IsSegments(work)
  BY DEF IsWork
<1>1. ASSUME MatchPath(Below(p), work) PROVE Reaches(ws, p)
  <2>1. Reaches(work, p)
    BY <1>0, <1>1, BelowMatches
  <2> QED BY <2>1, WorkBelow
<1>2. ASSUME MatchPath(Exactly(p), work) PROVE FALSE
  <2>1. work = p
    BY <1>0, <1>2, ExactlyMatches
  <2> QED BY <2>1 DEF IsWork
<1> QED BY <1>1, <1>2

\* None of the places that are denied is where the work lies.
LEMMA WorkIsUndenied ==
  ASSUME NEW an, NEW ws, NEW home, IsSegments(ws), IsSegments(home), ~Misplaced(ws, home),
         NEW work, IsWork(work, ws),
         NEW q \in DeniedReads(an, ws, home) \cup DeniedWrites(an, ws, home)
  PROVE  ~MatchPath(q, work)
<1> PICK n : n = Len(ws)
  OBVIOUS
<1>0. n \in Nat /\ IsSegments(work) /\ Len(work) = n + 1
  BY DEF IsSegments, IsWork
<1>p. Plain(ws) /\ Plain(home)
  BY DEF Misplaced
<1>1. ASSUME NEW a, a # "src", Plain(<<a>>), NEW p, p = home \o <<a>>
      PROVE  IsSegments(p) /\ p[Len(p)] # "src" /\ Plain(p)
  <2> PICK m : m = Len(home)
    OBVIOUS
  <2>1. IsSegments(p) /\ Len(p) = m + 1 /\ p[m + 1] = a
    BY ONLY <1>1, m = Len(home), IsSegments(home), LastSegment
  <2>2. IsSegments(<<a>>)
    BY ShortPaths
  <2>3. Plain(p)
    BY <1>1, <1>p, <2>2, PlainJoins
  <2> QED BY <1>1, <2>1, <2>3
<1>2. ASSUME NEW a, NEW p, p = <<a>>
      PROVE  IsSegments(p) /\ Len(p) = 1 /\ p[1] = a
  BY ONLY <1>2, ShortPaths
<1>3. ASSUME NEW a, a # "src", Plain(<<a>>), home # <<>>, MatchPath(Below(home \o <<a>>), work)
      PROVE  IsPrefix(home \o <<a>>, ws)
  <2> PICK p : p = home \o <<a>>
    OBVIOUS
  <2>1. IsSegments(p) /\ p[Len(p)] # "src" /\ Plain(p)
    BY <1>1, <1>3
  <2>2. Reaches(ws, p)
    BY <1>3, <2>1, NotTheWork
  <2> QED BY <2>1, <2>2, ReachesIsPrefix
<1>4. ASSUME NEW a, a # "src", Plain(<<a>>) PROVE ~MatchPath(Exactly(home \o <<a>>), work)
  <2> PICK p : p = home \o <<a>>
    OBVIOUS
  <2>1. IsSegments(p) /\ p[Len(p)] # "src" /\ Plain(p)
    BY <1>1, <1>4
  <2> QED BY <2>1, NotTheWork
<1>5. ~MatchPath(Exactly(<<"etc", "shadow">>), work)
  <2> PICK p : p = <<"etc", "shadow">>
    OBVIOUS
  <2>1. IsSegments(p) /\ Len(p) = 2 /\ p[2] = "shadow"
    BY ShortPaths
  <2>2. p[Len(p)] # "src" /\ Plain(p)
    BY <2>1, OwnNamesArePlain
  <2> QED BY <2>1, <2>2, NotTheWork
<1>6. ASSUME NEW a, NEW b, Plain(<<a, b>>) PROVE ~MatchPath(Below(ws \o <<a, b>>), work)
  <2> SUFFICES ASSUME MatchPath(Below(ws \o <<a, b>>), work) PROVE FALSE
    OBVIOUS
  <2> PICK p : p = ws \o <<a, b>>
    OBVIOUS
  <2>1. IsSegments(p) /\ Len(p) = n + 2
    BY LastSegment
  <2>p. Plain(p)
    <3>1. IsSegments(<<a, b>>)
      BY ShortPaths
    <3> QED BY <1>6, <1>p, <3>1, PlainJoins
  <2>2. Reaches(work, p)
    BY <1>0, <2>1, <2>p, BelowMatches
  <2>3. n + 2 <= n + 1
    BY <1>0, <2>1, <2>2 DEF Reaches
  <2> QED BY <1>0, <2>3
<1>7. ~InRoot(ws, home) => ~MatchPath(Below(<<"root">>), work)
  <2> SUFFICES ASSUME ~InRoot(ws, home), MatchPath(Below(<<"root">>), work) PROVE FALSE
    OBVIOUS
  <2> PICK p : p = <<"root">>
    OBVIOUS
  <2>1. IsSegments(p) /\ p[Len(p)] # "src" /\ Plain(p)
    BY <1>2, OwnNamesArePlain
  <2>2. Reaches(ws, p)
    BY <2>1, NotTheWork
  <2>3. IsPrefix(p, ws)
    BY <2>1, <2>2, ReachesIsPrefix
  <2> QED BY <2>3 DEF InRoot, IsStrictPrefix, Misplaced
<1>8. /\ home # <<>> => ~IsPrefix(home \o <<".aws">>, ws)
      /\ home # <<>> => ~IsPrefix(home \o <<".ssh">>, ws)
  BY <1>p DEF Misplaced, Held
<1>9. CASE q \in DeniedReads(an, ws, home)
  <2>1. \/ home # <<>> /\ q = Below(home \o <<".aws">>)
        \/ home # <<>> /\ q = Exactly(home \o <<".netrc">>)
        \/ home # <<>> /\ ~ReachesGitRemote(an) /\ q = Below(home \o <<".ssh">>)
        \/ q = Exactly(<<"etc", "shadow">>)
        \/ ~InRoot(ws, home) /\ q = Below(<<"root">>)
    BY <1>9, ReadsDenied
  <2>2. CASE home # <<>> /\ q = Below(home \o <<".aws">>)
    BY <1>3, <1>8, <2>2, OwnNamesArePlain
  <2>3. CASE q = Exactly(home \o <<".netrc">>)
    BY <1>4, <2>3, OwnNamesArePlain
  <2>4. CASE home # <<>> /\ q = Below(home \o <<".ssh">>)
    BY <1>3, <1>8, <2>4, OwnNamesArePlain
  <2> QED BY <1>5, <1>7, <2>1, <2>2, <2>3, <2>4
<1>10. CASE q \in DeniedWrites(an, ws, home)
  <2>1. \/ q = Below(ws \o <<".git", "hooks">>)
        \/ home # <<>> /\ q = Below(home \o <<".ssh">>)
        \/ home # <<>> /\ q = Exactly(home \o <<".bashrc">>)
        \/ an.task # "git-operation" /\ q = Below(ws \o <<".github", "workflows">>)
    BY <1>10, WritesDenied
  <2>2. CASE q = Below(ws \o <<".git", "hooks">>)
    BY <1>6, <2>2, OwnNamesArePlain
  <2>3. CASE q = Exactly(home \o <<".bashrc">>)
    BY <1>4, <2>3, OwnNamesArePlain
  <2>4. CASE home # <<>> /\ q = Below(home \o <<".ssh">>)
    BY <1>3, <1>8, <2>4, OwnNamesArePlain
  <2>5. CASE q = Below(ws \o <<".github", "workflows">>)
    BY <1>6, <2>5, OwnNamesArePlain
  <2> QED BY <2>1, <2>2, <2>3, <2>4, <2>5
<1> QED BY <1>9, <1>10

-----------------------------------------------------------------------------
\* The work is permitted.
LEMMA WorkIsMatched ==
  ASSUME NEW ws, IsSegments(ws), IsResolved(ws), Plain(ws), NEW work, IsWork(work, ws)
  PROVE  IsResolved(work) /\ MatchPath(Below(ws), work)
<1> PICK n, q : n = Len(ws) /\ q = Below(ws)
  OBVIOUS
<1>1. /\ n \in Nat /\ IsSegments(work) /\ Len(work) = n + 1 /\ work[n + 1] = "src"
      /\ \A i \in 1..n : work[i] = ws[i]
  BY DEF IsSegments, IsWork
<1>2. DOMAIN ws = 1..n /\ DOMAIN work = 1..n + 1
  BY <1>1, PathIsSequence
<1>3. \A i \in 1..n : ws[i] # Dots
  BY <1>2 DEF IsResolved
<1>4. IsResolved(work)
  <2>1. ASSUME NEW i \in 1..n + 1 PROVE work[i] # Dots
    <3>1. CASE i = n + 1
      BY <1>1, <3>1 DEF Dots
    <3>2. CASE i # n + 1
      <4>1. i \in 1..n
        BY <1>1, <3>2
      <4> QED BY <1>1, <1>3, <4>1
    <3> QED BY <3>1, <3>2
  <2> QED BY <1>2, <2>1 DEF IsResolved
<1>5. BelowOf(q, ws)
  BY BelowIs
<1>6. ValidPattern(q)
  <2>1. /\ IsSegments(q) /\ Len(q) = n + 1 /\ \A i \in 1..n : q[i] = Lit(ws[i])
        /\ q[n + 1] = Deep
    BY <1>5, PlainSegments DEF BelowOf
  <2>2. DOMAIN q = 1..n + 1
    BY <2>1, PathIsSequence
  <2>3. ASSUME NEW i \in 1..n + 1 PROVE q[i] # Lit(Dots)
    <3>1. CASE i = n + 1
      BY <2>1, <3>1, LiteralsAre
    <3>2. CASE i # n + 1
      <4>1. i \in 1..n
        BY <1>1, <3>2
      <4>2. ws[i] # Dots /\ q[i] = Lit(ws[i])
        BY <1>3, <2>1, <4>1
      <4> QED BY ONLY <4>2, LiteralsAre
    <3> QED BY <3>1, <3>2
  <2> QED BY <2>2, <2>3 DEF ValidPattern, Range
<1>7. Reaches(work, ws)
  <2>1. n <= n + 1
    BY <1>1
  <2> QED BY <1>1, <2>1 DEF Reaches
<1>8. Covers(q, work)
  BY <1>1, <1>5, <1>7, BelowCovers
<1>9. IsSegments(q) /\ Len(work) \in Nat
  BY <1>1, <1>5 DEF BelowOf
<1>10. MatchSegments(q, work)
  BY <1>8, <1>9, SegmentsCovered
<1> QED BY <1>4, <1>6, <1>10 DEF MatchPath

LEMMA MatchIsOfPaths ==
  ASSUME NEW entry, NEW obs, obs.kind \in FileKinds, entry.kind = obs.kind
  PROVE  Match(entry, obs) = MatchPaths(entry.sel.paths, obs.target)
<1>1. DomainOf(obs.kind) = "filesystem"
  BY FileKindsAre
<1> QED BY <1>1 DEF Match

LEMMA WorkIsGranted ==
  ASSUME NEW env, NEW ws, Granted(env, ws), IsSegments(ws), IsResolved(ws), Plain(ws),
         NEW work, IsWork(work, ws), NEW obs, obs.kind \in FileKinds, obs.target = work,
         NEW i \in DOMAIN env.grants, env.grants[i].kind = obs.kind
  PROVE  Match(env.grants[i], obs) = Yes
<1> PICK g, q : g = env.grants[i] /\ q = Below(ws)
  OBVIOUS
<1>1. g \in Range(env.grants)
  BY DEF Range
<1>2. q \in g.sel.paths
  BY <1>1 DEF Granted
<1>3. Match(g, obs) = MatchPaths(g.sel.paths, work)
  BY MatchIsOfPaths
<1>4. IsResolved(work) /\ MatchPath(q, work)
  BY WorkIsMatched
<1> QED BY <1>2, <1>3, <1>4 DEF MatchPaths

LEMMA WorkIsUnrefused ==
  ASSUME NEW env, NEW an, NEW ws, NEW home, IsSegments(ws), IsSegments(home), IsResolved(ws),
         ~Misplaced(ws, home), Denied(env, DeniedReads(an, ws, home), DeniedWrites(an, ws, home)),
         NEW work, IsWork(work, ws), NEW obs, obs.kind \in FileKinds, obs.target = work,
         NEW i \in DOMAIN env.denials
  PROVE  Match(env.denials[i], obs) = No
<1> PICK d, R, W : d = env.denials[i] /\ R = DeniedReads(an, ws, home) /\ W = DeniedWrites(an, ws, home)
  OBVIOUS
<1>1. CASE d.kind # obs.kind
  BY <1>1 DEF Match
<1>2. CASE d.kind = obs.kind
  <2>1. d \in Range(env.denials)
    BY DEF Range
  <2>2. d.sel = ToPaths(R) \/ d.sel = ToPaths(W)
    BY <2>1 DEF Denied
  <2>3. d.sel.paths = R \/ d.sel.paths = W
    BY <2>2, ToPathsSay
  <2>4. R # {} /\ W # {}
    BY ReadsDenied, WritesDenied
  <2>5. \A q \in R \cup W : ~MatchPath(q, work)
    BY WorkIsUndenied
  <2>6. IsResolved(work)
    BY WorkIsMatched DEF Misplaced
  <2>7. Match(d, obs) = MatchPaths(d.sel.paths, work)
    BY <1>2, MatchIsOfPaths
  <2> QED BY <2>3, <2>4, <2>5, <2>6, <2>7 DEF MatchPaths
<1> QED BY <1>1, <1>2

\* What is not expired, is observed, is answered by no denial and by a grant is
\* judged by that grant.
LEMMA GrantedIsCovered ==
  ASSUME NEW env, NEW e, NEW st, NEW time, NEW obs, obs = Observe(e), ~Expired(env, e, time),
         obs # Unobservable,
         \A k \in DeniableKinds(e, obs), i \in DOMAIN env.denials :
            Match(env.denials[i], As(obs, k)) = No,
         NEW granting, granting = Answering(env.grants, obs, Yes), granting # {}
  PROVE  Validate(env, e, st, time) = Covered(env, obs, st, MostSpecific(env.grants, granting))
<1> DEFINE denying(answer) ==
             {k \in DeniableKinds(e, Observe(e)) : Answering(env.denials, As(Observe(e), k), answer) # {}}
           granted == Answering(env.grants, Observe(e), Yes)
<1>1. ~Expired(env, e, time) /\ Observe(e) # Unobservable /\ denying(Yes) = {} /\ denying(Unclear) = {}
      /\ granted # {} =>
        Validate(env, e, st, time) = Covered(env, Observe(e), st, MostSpecific(env.grants, granted))
  BY Zenon DEF Validate
<1>2. ASSUME NEW answer \in {Yes, Unclear} PROVE denying(answer) = {}
  <2>1. answer # No
    BY DEF Yes, No, Unclear
  <2>2. \A k \in DeniableKinds(e, obs) : Answering(env.denials, As(obs, k), answer) = {}
    BY <2>1 DEF Answering
  <2> QED BY <2>2
<1>3. denying(Yes) = {} /\ denying(Unclear) = {}
  BY <1>2
<1> HIDE DEF denying
<1> QED BY <1>1, <1>3

LEMMA NothingIsSpent ==
  ASSUME NEW env, NEW ttl \in Nat, BoundedBy(env, ttl), NEW obs, obs.kind \in FileKinds
  PROVE  ~OverSessionBudget(env, obs, Unspent(env))
<1> PICK st : st = Unspent(env)
  OBVIOUS
<1>1. st.elapsed = 0 /\ env.maxDuration = ttl /\ env.maxWrites = 0
  BY DEF Unspent, BoundedBy
<1>2. ~(ttl > 0 /\ 0 > ttl) /\ ~(0 > 0)
  OBVIOUS
<1>3. ~SpawnsProcess(obs.kind) /\ DomainOf(obs.kind) # "network"
  BY FileKindsAre
<1> QED BY ONLY <1>1, <1>2, <1>3, st = Unspent(env) DEF OverSessionBudget

LEMMA WorkIsPermitted ==
  ASSUME NEW env, NEW an, NEW ws, NEW home, IsSegments(ws), IsSegments(home), IsResolved(ws),
         ~Misplaced(ws, home), Denied(env, DeniedReads(an, ws, home), DeniedWrites(an, ws, home)),
         Granted(env, ws), NEW ttl \in Nat \ {0}, BoundedBy(env, ttl),
         NEW work, IsWork(work, ws), NEW e, IsOperation(e, work), e.kind \in KindsOf(env.grants)
  PROVE  Permits(env, e)
<1> PICK obs, st, granting :
      obs = Observe(e) /\ st = Unspent(env) /\ granting = Answering(env.grants, obs, Yes)
  OBVIOUS
<1>1. /\ obs.kind = e.kind /\ obs.kind \in FileKinds /\ obs.target = work /\ obs # Unobservable
      /\ DeniableKinds(e, obs) \subseteq FileKinds /\ e.clock = 0
  BY DEF IsOperation
<1>2. ~Expired(env, e, 1)
  <2>1. env.expires = ttl /\ ~(1 > ttl)
    BY DEF BoundedBy
  <2> QED BY <1>1, <2>1 DEF Expired
<1>3. ASSUME NEW k \in DeniableKinds(e, obs), NEW i \in DOMAIN env.denials
      PROVE  Match(env.denials[i], As(obs, k)) = No
  <2> PICK as : as = As(obs, k)
    OBVIOUS
  <2>1. as.kind = k /\ as.target = obs.target
    BY AsKeeps
  <2>2. as.kind \in FileKinds /\ as.target = work
    BY <1>1, <2>1
  <2> QED BY <2>2, WorkIsUnrefused
<1>4. PICK b \in DOMAIN env.grants : env.grants[b].kind = obs.kind
  BY <1>1 DEF KindsOf
<1>5. b \in granting
  <2>1. Match(env.grants[b], obs) = Yes
    BY <1>1, <1>4, WorkIsGranted DEF Misplaced
  <2> QED BY <2>1 DEF Answering
<1>6. Validate(env, e, st, 1) = Covered(env, obs, st, MostSpecific(env.grants, granting))
  <2> PICK time : time = 1
    OBVIOUS
  <2>1. granting # {}
    BY <1>5
  <2>2. Validate(env, e, st, time) = Covered(env, obs, st, MostSpecific(env.grants, granting))
    BY ONLY obs = Observe(e) /\ st = Unspent(env) /\ granting = Answering(env.grants, obs, Yes),
            time = 1, <1>1, <1>2, <1>3, <2>1, GrantedIsCovered
  <2> QED BY <2>2
<1>7. PICK n \in Nat : DOMAIN env.grants = 1..n
  <2>1. PICK n \in Nat : env.grants = [i \in 1..n |-> env.grants[i]]
    BY DEF Granted, IsTuple
  <2> QED BY <2>1
<1>8. granting \in SUBSET (1..n) /\ \A i \in granting : env.grants[i].kind = obs.kind
  BY <1>7 DEF Answering, Match, Yes, No
<1>9. ASSUME NEW i \in granting
      PROVE  IsSelector(env.grants[i].sel) /\ env.grants[i].sel.max = 0
  <2> PICK g : g = env.grants[i]
    OBVIOUS
  <2>1. g \in Range(env.grants) /\ g.kind \in FileKinds
    BY <1>1, <1>7, <1>8 DEF Range
  <2>2. PathsOnly(g.sel) /\ Patterns(g.sel.paths)
    BY <2>1 DEF Granted
  <2>3. IsFiniteSet({})
    BY FS_EmptySet
  <2>4. /\ g.sel.executables = {} /\ g.sel.hosts = {} /\ g.sel.ports = {}
        /\ g.sel.protocols = {} /\ g.sel.max = 0
        /\ IsFiniteSet(g.sel.paths) /\ \A p \in g.sel.paths : IsSegments(p)
    BY <2>2 DEF PathsOnly, Patterns
  <2> QED BY <2>3, <2>4 DEF IsSelector
<1>10. MostSpecific(env.grants, granting) \in granting
  BY <1>5, <1>8, <1>9, OneGoverns
<1> PICK first : first = MostSpecific(env.grants, granting)
  OBVIOUS
<1>11. ~BudgetExhausted(env.grants[first], st.grantUses[first])
  <2>1. env.grants[first].sel.max = 0 /\ ~(0 > 0)
    BY <1>9, <1>10
  <2> QED BY <2>1 DEF BudgetExhausted
<1>12. ~OverSessionBudget(env, obs, st)
  BY <1>1, NothingIsSpent
<1>13. Covered(env, obs, st, first) = Result("within_envelope", first, {}, obs.kind)
  BY <1>11, <1>12, Zenon DEF Covered
<1>14. \A grant, types, k, verdict : Result(verdict, grant, types, k).verdict = verdict
  BY DEF Result
<1>15. Validate(env, e, st, 1).verdict = "within_envelope"
  BY <1>6, <1>13, <1>14
<1> QED BY <1>15 DEF Permits

\* An envelope that was made for a task confines it.
LEMMA EnvelopesConfine ==
  ASSUME NEW env, NEW an, NEW ws, NEW home, IsSegments(ws), IsSegments(home), IsResolved(ws),
         Denied(env, DeniedReads(an, ws, home), DeniedWrites(an, ws, home)), Admissible(env),
         Granted(env, ws), NEW ttl \in Nat \ {0}, BoundedBy(env, ttl),
         NEW task, task = an.task, NEW forRemote, ReachesGitRemote(an) => forRemote
  PROVE  Confines(env, ws, home, task, forRemote)
<1> DEFINE kept == Stores(home) \cup (IF forRemote THEN {} ELSE Keys(home))
           fixed == Hooks(ws, home) \cup Keys(home)
                      \cup (IF task = "git-operation" THEN {} ELSE Workflows(ws))
           work == ws \o <<"src">>
<1> PICK R, W : R = DeniedReads(an, ws, home) /\ W = DeniedWrites(an, ws, home)
  OBVIOUS
<1>1. \A q \in R \cup W : IsSegments(q)
  BY DeniedPatterns
<1>2. ASSUME NEW path \in kept PROVE \A e \in WaysToRead(path) : ~Permits(env, e)
  <2>1. path \in Stores(home) \cup (IF ReachesGitRemote(an) THEN {} ELSE Keys(home))
    OBVIOUS
  <2>2. Shielded(R, path)
    BY <2>1, KeptIsShielded
  <2>3. PICK q \in R : IsSegments(path) /\ path # <<>> /\ Covers(q, path)
    BY <2>2 DEF Shielded
  <2>4. \A p \in R : IsSegments(p)
    BY <1>1
  <2> QED BY <2>3, <2>4, KeptFromReading
<1>3. ASSUME NEW path \in fixed PROVE \A e \in WaysToChange(path) : ~Permits(env, e)
  <2>1. path \in Hooks(ws, home) \cup Keys(home)
                   \cup (IF an.task = "git-operation" THEN {} ELSE Workflows(ws))
    OBVIOUS
  <2>2. Shielded(W, path)
    BY <2>1, FixedIsShielded
  <2>3. PICK q \in W : IsSegments(path) /\ path # <<>> /\ Covers(q, path)
    BY <2>2 DEF Shielded
  <2>4. \A p \in W : IsSegments(p)
    BY <1>1
  <2> QED BY <2>3, <2>4, KeptFromChanging
<1>4. IsWork(work, ws)
  BY WorkIsWork
<1> HIDE DEF kept, fixed, work
<1>5. work # <<>>
  <2> PICK n : n = Len(ws)
    OBVIOUS
  <2>1. n \in Nat /\ Len(work) = n + 1
    BY <1>4 DEF IsSegments, IsWork
  <2>2. Len(work) # 0
    BY ONLY <2>1
  <2> QED BY <2>2, ShortPaths
<1>6. \A e \in WaysToRead(work) \cup WaysToChange(work) : IsOperation(e, work)
  BY <1>5, WaysAreOperations
<1>7. ASSUME NEW e \in WaysToRead(work) \cup WaysToChange(work)
      PROVE  Permits(env, e) \/ Misplaced(ws, home) \/ e.kind \notin KindsOf(env.grants)
  BY <1>4, <1>6, WorkIsPermitted
<1> QED BY <1>2, <1>3, <1>7, Zenon DEF Confines, kept, fixed, work

LEMMA SessionsConfine ==
  ASSUME NEW a \in Created
  PROVE  Confines(a.session.envelope, a.request.ws, a.request.home, a.session.task,
                  ForGitRemote(a.request.prompt))
<1> PICK s, A, limits, req :
      s = a.session /\ A = a.attached /\ limits = a.daemon.limits /\ req = a.request
  OBVIOUS
<1> PICK ws, home, resolvers, ttl :
      ws = req.ws /\ home = req.home /\ resolvers = a.daemon.resolvers /\ ttl = limits.ttl
  OBVIOUS
<1> PICK named, started, an, made : MadeFor(a, named, started, an, made)
  BY ONLY a \in Created, CreatedFrom
<1>1. /\ started = Startup(a.host, named) /\ A = started.attached
      /\ made = Generate(an, ws, home, resolvers, started.coverage.observable, limits, limits.ttl)
      /\ AnsweredFrom(s, started, made, req.mode)
      /\ an = Analyze(Sanitize(req.prompt).prompt, req.languages)
      /\ s.task = an.task
      /\ a.daemon \in Daemons /\ req \in Requests
  BY DEF MadeFor
<1>2. started.ok /\ made.ok /\ Admissible(made.envelope) /\ s.envelope = made.envelope
  BY <1>1 DEF AnsweredFrom
<1>3. /\ A \in SUBSET AllProbes /\ started.coverage = ComputeCoverage(A)
      /\ started.coverage.floorIntact /\ UnobservableCore(started.coverage) = {}
  BY ONLY <1>1, <1>2, StartedHas
<1> PICK coverage, seen : coverage = started.coverage /\ seen = coverage.observable
  OBVIOUS
<1>4. "fs.read" \in seen /\ "fs.write" \in seen
  <2>1. /\ seen = ReportedKinds(A)
        /\ (BaseKinds \cup {"net.connect"}) \ {"fs.link"} \subseteq ReportedKinds(A)
    BY ONLY <1>3, coverage = started.coverage /\ seen = coverage.observable, CoverageIs, StartedSees
  <2>2. {"fs.read", "fs.write"} \subseteq BaseKinds
    BY DEF BaseKinds
  <2> QED BY <2>1, <2>2
<1>5. IsSegments(ws) /\ IsSegments(home) /\ IsResolved(ws) /\ ttl \in Nat \ {0}
  BY <1>1, RequestsAssumption, DaemonsAssumption
<1> PICK env, wanted, denied :
      /\ env = made.envelope
      /\ wanted = Merged(Base(ws, home) \o Task(an, home) \o Network(an, resolvers))
      /\ denied = Denials(an, ws, home)
  OBVIOUS
<1>6. made = Generate(an, ws, home, resolvers, seen, limits, ttl)
  BY <1>1
<1>7. MadeFrom(made, wanted, denied, seen, limits)
  BY ONLY <1>2, <1>6, GenerateMakes,
          wanted = Merged(Base(ws, home) \o Task(an, home) \o Network(an, resolvers)),
          denied = Denials(an, ws, home)
<1>8. /\ env.grants = OfKinds(OfKinds(wanted, Kinds \ limits.forbidden), seen)
      /\ env.denials = OfKinds(denied, seen)
  BY <1>7 DEF MadeFrom
<1>9. Denied(env, DeniedReads(an, ws, home), DeniedWrites(an, ws, home))
  BY <1>4, <1>8, DenialsAreKept
<1>10. Granted(env, ws)
  <2> PICK allowed : allowed = Kinds \ limits.forbidden
    OBVIOUS
  <2>1. env.grants = OfKinds(OfKinds(wanted, allowed), seen)
    BY <1>8
  <2> QED BY ONLY <1>5, <2>1, GrantsAreKept,
             wanted = Merged(Base(ws, home) \o Task(an, home) \o Network(an, resolvers))
<1>11. BoundedBy(env, ttl)
  <2>1. made = Generate(an, ws, home, resolvers, seen, limits, limits.ttl)
    BY <1>6
  <2>2. BoundedBy(made.envelope, limits.ttl)
    BY ONLY <1>2, <2>1, GenerateBounds
  <2> QED BY <2>2
<1>12. ReachesGitRemote(an) => ForGitRemote(req.prompt)
  <2> PICK prompt, languages : prompt = req.prompt /\ languages = req.languages
    OBVIOUS
  <2>1. an = Analyze(Sanitize(prompt).prompt, languages)
    BY <1>1
  <2> QED BY <2>1, RemoteIsAsked
<1>13. Confines(env, ws, home, s.task, ForGitRemote(req.prompt))
  <2> PICK task, forRemote : task = s.task /\ forRemote = ForGitRemote(req.prompt)
    OBVIOUS
  <2>1. Admissible(env) /\ task = an.task
    BY <1>1, <1>2
  <2>2. Confines(env, ws, home, task, forRemote)
    BY ONLY <1>5, <1>9, <1>10, <1>11, <1>12, <2>1, EnvelopesConfine,
            task = s.task /\ forRemote = ForGitRemote(req.prompt)
  <2> QED BY <2>2
<1> QED BY <1>2, <1>13

\* Denials and Generate keep what Validate then judges by: for every host,
\* configuration and request, and for every way to open or link what it keeps, the
\* envelope a session is created with lets no credential be read in a home that does
\* not read as a pattern and nothing be planted in such a home or workspace, and,
\* when both are such, lets the task work on what it may where its workspace lies.
THEOREM CredentialsAreOutOfReach == Spec => []CredentialsOutOfReach
<1>1. ASSUME NEW x \in Admitted PROVE Confines(x.env, x.ws, x.home, x.task, x.forRemote)
  <2>1. PICK a \in Created :
          x = [env |-> a.session.envelope, ws |-> a.request.ws, home |-> a.request.home,
               task |-> a.session.task, forRemote |-> ForGitRemote(a.request.prompt)]
    BY DEF Admitted
  <2>2. /\ x.env = a.session.envelope /\ x.ws = a.request.ws /\ x.home = a.request.home
        /\ x.task = a.session.task /\ x.forRemote = ForGitRemote(a.request.prompt)
    BY ONLY <2>1, Zenon
  <2>3. Confines(a.session.envelope, a.request.ws, a.request.home, a.session.task,
                 ForGitRemote(a.request.prompt))
    BY SessionsConfine
  <2> QED BY <2>2, <2>3
<1>2. CredentialsOutOfReach
  BY <1>1, Zenon DEF CredentialsOutOfReach
<1> QED BY <1>2, PTL
=============================================================================
