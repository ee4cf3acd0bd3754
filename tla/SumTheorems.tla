----------------------------- MODULE SumTheorems -----------------------------
(***************************************************************************)
(* What the sum of a function's values is (SumFunction of the community    *)
(* modules), and the induction its definition calls for.  The induction    *)
(* theorems of the library take an operator; the form proved here takes    *)
(* the set of counterexamples, and says that it is empty.                  *)
(***************************************************************************)
EXTENDS Functions, FiniteSetTheorems, WellFoundedInduction, TLAPS

LEMMA LeastNatural ==
  ASSUME NEW T, T \subseteq Nat, T # {}
  PROVE  \E x \in T : \A y \in T : x <= y
<1>1. PICK x \in T : \A y \in T : ~ (<<y, x>> \in OpToRel(<, Nat))
  BY NatLessThanWellFounded, WFMin
<1>2. ASSUME NEW y \in T, y < x PROVE FALSE
  <2>1. y \in Nat /\ x \in Nat
    OBVIOUS
  <2>2. <<y, x>> \in OpToRel(<, Nat)
    BY <1>2, <2>1 DEF OpToRel
  <2> QED
    BY <1>1, <2>2
<1> QED
  BY <1>2

-----------------------------------------------------------------------------
\* The element a sum takes out of a set first.
Pick(s) == CHOOSE x \in s : TRUE

\* Nothing can go wrong with a finite set when what is wrong with one is wrong
\* with less of it, too, and nothing is wrong with the empty one.
LEMMA SmallerFails ==
  ASSUME NEW S, IsFiniteSet(S), NEW Bad, Bad \subseteq SUBSET S, {} \notin Bad,
         \A T \in Bad : T \ {Pick(T)} \in Bad
  PROVE  Bad = {}
<1> SUFFICES ASSUME Bad # {} PROVE FALSE
  OBVIOUS
<1>1. \A T \in SUBSET S : IsFiniteSet(T) /\ Cardinality(T) \in Nat
  BY FS_Subset, FS_CardinalityType
<1> DEFINE sizes == {Cardinality(T) : T \in Bad}
<1>2. PICK n \in sizes : \A m \in sizes : n <= m
  <2>1. sizes \subseteq Nat /\ sizes # {}
    BY <1>1
  <2> HIDE DEF sizes
  <2> QED BY <2>1, LeastNatural
<1>3. PICK T \in Bad : Cardinality(T) = n
  OBVIOUS
<1>4. T # {} /\ Pick(T) \in T
  BY DEF Pick
<1>5. Cardinality(T \ {Pick(T)}) = Cardinality(T) - 1
  BY <1>1, <1>4, FS_RemoveElement
<1>6. Cardinality(T \ {Pick(T)}) \in sizes
  OBVIOUS
<1> HIDE DEF sizes
<1> QED BY <1>1, <1>2, <1>3, <1>5, <1>6

\* Where any two elements of a finite set are ordered, one of them is first.
LEMMA FirstExists ==
  ASSUME NEW S, IsFiniteSet(S), S # {}, NEW R,
         \A x, y, z \in S : <<x, y>> \in R /\ <<y, z>> \in R => <<x, z>> \in R,
         \A x, y \in S : x = y \/ <<x, y>> \in R \/ <<y, x>> \in R
  PROVE  \E x \in S : \A y \in S \ {x} : <<x, y>> \in R
<1> DEFINE First(T, x) == x \in T /\ \A y \in T \ {x} : <<x, y>> \in R
           Bad == {T \in SUBSET S : T # {} /\ ~\E x \in T : First(T, x)}
<1>1. ASSUME NEW T \in Bad PROVE T \ {Pick(T)} \in Bad
  <2> DEFINE p == Pick(T)
             U == T \ {p}
  <2>1. T \in SUBSET S /\ T # {} /\ ~\E x \in T : First(T, x)
    OBVIOUS
  <2>2. p \in T
    BY <2>1 DEF Pick
  <2> HIDE DEF p
  <2>3. U # {}
    <3>1. CASE U = {}
      <4>1. First(T, p)
        BY <2>2, <3>1
      <4> QED BY <2>1, <2>2, <4>1
    <3> QED BY <3>1
  <2>4. ASSUME NEW x \in U, First(U, x) PROVE FALSE
    <3>1. x \in T /\ x # p /\ x \in S /\ p \in S
      BY <2>1, <2>2
    <3>2. CASE <<x, p>> \in R
      <4>1. First(T, x)
        BY <2>4, <3>1, <3>2
      <4> QED BY <2>1, <3>1, <4>1
    <3>3. CASE <<p, x>> \in R
      <4>1. \A y \in T \ {p} : <<p, y>> \in R
        <5> TAKE y \in T \ {p}
        <5>1. y \in S /\ (y = x \/ <<x, y>> \in R)
          BY <2>1, <2>4
        <5> QED BY <3>1, <3>3, <5>1
      <4>2. First(T, p)
        BY <2>2, <4>1
      <4> QED BY <2>1, <2>2, <4>2
    <3> QED BY <3>1, <3>2, <3>3
  <2>5. U \in Bad
    <3> HIDE DEF U, First
    <3>1. U \in SUBSET S
      BY <2>1 DEF U
    <3> QED BY <2>3, <2>4, <3>1
  <2> QED BY <2>5 DEF p
<1>2. {} \notin Bad /\ Bad \subseteq SUBSET S
  OBVIOUS
<1>3. Bad = {}
  <2> HIDE DEF Bad
  <2> QED BY <1>1, <1>2, SmallerFails
<1>4. \E x \in S : First(S, x)
  <2> HIDE DEF First
  <2> QED BY <1>3
<1> QED BY <1>4

\* The table of the partial sums, which the definition of SumFunction fills in.
Partial(f, it) ==
  [s \in SUBSET DOMAIN f |-> IF s = {} THEN 0 ELSE f[Pick(s)] + it[s \ {Pick(s)}]]

LEMMA PartialSumsExist ==
  ASSUME NEW S, IsFiniteSet(S), NEW f \in [S -> Int]
  PROVE  \E it : it = Partial(f, it)
<1> DEFINE Upto(n) == {s \in SUBSET S : Cardinality(s) <= n}
           Good(n, it) ==
             /\ it \in [Upto(n) -> Int]
             /\ \A s \in Upto(n) : it[s] = IF s = {} THEN 0 ELSE f[Pick(s)] + it[s \ {Pick(s)}]
           Bad == {n \in Nat : ~\E it : Good(n, it)}
<1>1. \A T \in SUBSET S : IsFiniteSet(T) /\ Cardinality(T) \in Nat
  BY FS_Subset, FS_CardinalityType
<1>2. \A s \in SUBSET S : s # {} => /\ Pick(s) \in S /\ f[Pick(s)] \in Int
                                    /\ s \ {Pick(s)} \in SUBSET S
                                    /\ Cardinality(s \ {Pick(s)}) = Cardinality(s) - 1
  <2> TAKE s \in SUBSET S
  <2> HAVE s # {}
  <2>1. Pick(s) \in s
    BY DEF Pick
  <2> QED BY <1>1, <2>1, FS_RemoveElement
<1>3. 0 \notin Bad
  <2>1. \A s \in Upto(0) : s = {}
    <3> TAKE s \in Upto(0)
    <3>1. s \in SUBSET S /\ Cardinality(s) <= 0
      OBVIOUS
    <3>2. IsFiniteSet(s) /\ Cardinality(s) = 0
      BY <1>1, <3>1
    <3> QED BY <3>2, FS_EmptySet
  <2>2. Good(0, [s \in Upto(0) |-> 0])
    <3> HIDE DEF Upto
    <3> QED BY <2>1
  <2> HIDE DEF Good
  <2> QED BY <2>2
<1>4. ASSUME NEW n \in Nat, n \notin Bad PROVE n + 1 \notin Bad
  <2>1. PICK g : Good(n, g)
    BY <1>4
  <2> DEFINE h == [s \in Upto(n + 1) |-> IF s = {} THEN 0 ELSE f[Pick(s)] + g[s \ {Pick(s)}]]
  <2>2. \A s \in Upto(n + 1) : s # {} => s \ {Pick(s)} \in Upto(n)
    <3> TAKE s \in Upto(n + 1)
    <3> HAVE s # {}
    <3>1. s \in SUBSET S /\ Cardinality(s) <= n + 1
      OBVIOUS
    <3>2. Cardinality(s) \in Nat
      BY <1>1, <3>1
    <3>3. Cardinality(s \ {Pick(s)}) <= n
      BY <1>2, <3>1, <3>2
    <3> QED BY <1>2, <3>1, <3>3
  <2>3. \A s \in Upto(n + 1) : s # {} => f[Pick(s)] \in Int
    BY <1>2
  <2>4. \A s \in Upto(n) : s \in Upto(n + 1)
    <3> TAKE s \in Upto(n)
    <3>1. s \in SUBSET S /\ Cardinality(s) <= n
      OBVIOUS
    <3> QED BY <1>1, <3>1
  <2>5. \A s \in Upto(n) : h[s] = g[s]
    <3> HIDE DEF Upto
    <3> QED BY <2>1, <2>4
  <2>6. Good(n + 1, h)
    <3> HIDE DEF Upto
    <3>1. h \in [Upto(n + 1) -> Int]
      BY <2>1, <2>2, <2>3
    <3>2. \A s \in Upto(n + 1) :
            h[s] = IF s = {} THEN 0 ELSE f[Pick(s)] + h[s \ {Pick(s)}]
      BY <2>2, <2>5
    <3> QED BY <3>1, <3>2
  <2> HIDE DEF Good, h
  <2> QED BY <2>6
<1>5. Bad = {}
  <2> SUFFICES ASSUME Bad # {} PROVE FALSE
    OBVIOUS
  <2>1. PICK n \in Bad : \A m \in Bad : n <= m
    <3>1. Bad \subseteq Nat
      OBVIOUS
    <3> HIDE DEF Bad
    <3> QED BY <3>1, LeastNatural
  <2>2. n \in Nat /\ n # 0
    BY <1>3
  <2>3. n - 1 \in Nat /\ n - 1 \notin Bad
    <3> HIDE DEF Bad
    <3> QED BY <2>1, <2>2
  <2>4. n - 1 + 1 = n
    BY <2>2
  <2>5. n \notin Bad
    <3> HIDE DEF Bad
    <3> QED BY <1>4, <2>3, <2>4
  <2> QED BY <2>5
<1>6. PICK it : Good(Cardinality(S), it)
  <2>1. Cardinality(S) \in Nat
    BY FS_CardinalityType
  <2> HIDE DEF Good
  <2> QED BY <1>5, <2>1
<1>7. Upto(Cardinality(S)) = SUBSET S
  BY FS_Subset
<1>8. it = Partial(f, it)
  <2> HIDE DEF Upto
  <2> QED BY <1>6, <1>7 DEF Partial
<1> QED BY <1>8

LEMMA PartialSums ==
  ASSUME NEW S, IsFiniteSet(S), NEW f \in [S -> Int]
  PROVE  \E it \in [SUBSET S -> Int] :
           /\ it[{}] = 0
           /\ \A s \in SUBSET S : s # {} => it[s] = f[Pick(s)] + it[s \ {Pick(s)}]
           /\ SumFunction(f) = it[S]
<1> DEFINE it == CHOOSE g : g = Partial(f, g)
<1>1. it = Partial(f, it)
  BY PartialSumsExist
<1>2. SumFunction(f) = it[S]
  <2>1. SumFunction(f) = it[DOMAIN f]
    BY Zenon DEF SumFunction, SumFunctionOnSet, FoldFunctionOnSet, MapThenFoldSet, Partial, Pick
  <2> QED BY <2>1
<1> HIDE DEF it
<1>3. /\ DOMAIN it = SUBSET S /\ it[{}] = 0
      /\ \A s \in SUBSET S : s # {} => it[s] = f[Pick(s)] + it[s \ {Pick(s)}]
  BY <1>1 DEF Partial
<1>4. it = [s \in SUBSET S |-> it[s]]
  BY <1>1 DEF Partial
<1> DEFINE Bad == {s \in SUBSET S : it[s] \notin Int}
<1>5. Bad = {}
  <2>1. ASSUME NEW s \in Bad PROVE s \ {Pick(s)} \in Bad
    <3>1. s # {} /\ s \in SUBSET S /\ it[s] \notin Int
      <4>1. it[{}] \in Int
        BY <1>3
      <4>2. s \in SUBSET S /\ it[s] \notin Int
        OBVIOUS
      <4> QED BY <4>1, <4>2, Zenon
    <3>2. Pick(s) \in S
      BY <3>1 DEF Pick
    <3>3. f[Pick(s)] \in Int /\ it[s] = f[Pick(s)] + it[s \ {Pick(s)}]
      BY <1>3, <3>1, <3>2
    <3> QED BY <3>1, <3>3
  <2>2. {} \notin Bad /\ Bad \subseteq SUBSET S
    BY <1>3
  <2> HIDE DEF Bad
  <2> QED BY <2>1, <2>2, SmallerFails
<1>6. it \in [SUBSET S -> Int]
  BY <1>4, <1>5
<1> QED BY <1>2, <1>3, <1>6

\* A sum of integers is one, and a sum of natural numbers is one that is no less
\* than any of them.
LEMMA SumIsNatural ==
  ASSUME NEW S, IsFiniteSet(S), NEW f \in [S -> Nat]
  PROVE  /\ SumFunction(f) \in Nat
         /\ \A x \in S : f[x] <= SumFunction(f)
<1>1. f \in [S -> Int]
  OBVIOUS
<1>2. PICK it \in [SUBSET S -> Int] :
           /\ it[{}] = 0
           /\ \A s \in SUBSET S : s # {} => it[s] = f[Pick(s)] + it[s \ {Pick(s)}]
           /\ SumFunction(f) = it[S]
  BY <1>1, PartialSums
<1> DEFINE Bad == {s \in SUBSET S : ~(it[s] \in Nat /\ \A x \in s : f[x] <= it[s])}
<1>3. ASSUME NEW s \in Bad PROVE s \ {Pick(s)} \in Bad
  <2> DEFINE t == s \ {Pick(s)}
  <2>1. s \in SUBSET S /\ ~(it[s] \in Nat /\ \A x \in s : f[x] <= it[s])
    OBVIOUS
  <2>2. s # {}
    <3>1. it[{}] \in Nat /\ \A x \in {} : f[x] <= it[{}]
      BY <1>2
    <3> QED BY <2>1, <3>1, Zenon
  <2>3. Pick(s) \in s
    BY <2>2 DEF Pick
  <2>4. it[s] = f[Pick(s)] + it[t] /\ f[Pick(s)] \in Nat /\ t \in SUBSET S
    BY <1>2, <2>1, <2>2, <2>3
  <2>5. \A x \in s : x = Pick(s) \/ x \in t
    OBVIOUS
  <2>6. \A x \in s : f[x] \in Nat
    BY <2>1
  <2> HIDE DEF t
  <2>7. ASSUME it[t] \in Nat, \A x \in t : f[x] <= it[t] PROVE FALSE
    <3>1. it[s] \in Nat
      BY <2>4, <2>7
    <3>2. \A x \in s : f[x] <= it[s]
      BY <2>4, <2>5, <2>6, <2>7
    <3> QED BY <2>1, <3>1, <3>2
  <2>8. t \in Bad
    BY <2>4, <2>7
  <2> QED BY <2>8 DEF t
<1>4. {} \notin Bad /\ Bad \subseteq SUBSET S
  BY <1>2
<1>5. Bad = {}
  <2> HIDE DEF Bad
  <2> QED BY <1>3, <1>4, SmallerFails
<1>6. it[S] \in Nat /\ \A x \in S : f[x] <= it[S]
  BY <1>5
<1> QED BY <1>2, <1>6

\* What is added to the values is added to the sum.
LEMMA SumAdds ==
  ASSUME NEW S, IsFiniteSet(S), NEW f \in [S -> Int], NEW g \in [S -> Int], NEW h \in [S -> Int],
         \A x \in S : h[x] = f[x] + g[x]
  PROVE  SumFunction(h) = SumFunction(f) + SumFunction(g)
<1>1. PICK itf \in [SUBSET S -> Int] :
           /\ itf[{}] = 0
           /\ \A s \in SUBSET S : s # {} => itf[s] = f[Pick(s)] + itf[s \ {Pick(s)}]
           /\ SumFunction(f) = itf[S]
  BY PartialSums
<1>2. PICK itg \in [SUBSET S -> Int] :
           /\ itg[{}] = 0
           /\ \A s \in SUBSET S : s # {} => itg[s] = g[Pick(s)] + itg[s \ {Pick(s)}]
           /\ SumFunction(g) = itg[S]
  BY PartialSums
<1>3. PICK ith \in [SUBSET S -> Int] :
           /\ ith[{}] = 0
           /\ \A s \in SUBSET S : s # {} => ith[s] = h[Pick(s)] + ith[s \ {Pick(s)}]
           /\ SumFunction(h) = ith[S]
  BY PartialSums
<1> DEFINE Bad == {s \in SUBSET S : ith[s] # itf[s] + itg[s]}
<1>4. ASSUME NEW s \in Bad PROVE s \ {Pick(s)} \in Bad
  <2> DEFINE t == s \ {Pick(s)}
  <2>1. s \in SUBSET S /\ ith[s] # itf[s] + itg[s]
    OBVIOUS
  <2>2. s # {}
    <3>1. ith[{}] = itf[{}] + itg[{}]
      BY <1>1, <1>2, <1>3
    <3> QED BY <2>1, <3>1, Zenon
  <2>3. Pick(s) \in S /\ t \in SUBSET S
    BY <2>1, <2>2 DEF Pick
  <2>4. /\ itf[s] = f[Pick(s)] + itf[t] /\ itg[s] = g[Pick(s)] + itg[t]
        /\ ith[s] = h[Pick(s)] + ith[t]
    BY <1>1, <1>2, <1>3, <2>1, <2>2
  <2> HIDE DEF t
  <2>5. {itf[t], itg[t], ith[t], f[Pick(s)], g[Pick(s)], h[Pick(s)]} \subseteq Int
    BY <2>3
  <2>6. ith[t] # itf[t] + itg[t]
    BY <2>1, <2>3, <2>4, <2>5
  <2>7. t \in Bad
    BY <2>3, <2>6
  <2> QED BY <2>7 DEF t
<1>5. {} \notin Bad /\ Bad \subseteq SUBSET S
  BY <1>1, <1>2, <1>3
<1>6. Bad = {}
  <2> HIDE DEF Bad
  <2> QED BY <1>4, <1>5, SmallerFails
<1>7. ith[S] = itf[S] + itg[S]
  BY <1>6
<1> QED BY <1>1, <1>2, <1>3, <1>7

\* A sum of which at most one value is not zero is that value.
LEMMA SumOfOne ==
  ASSUME NEW S, IsFiniteSet(S), NEW f \in [S -> Int], NEW a, \A x \in S : x # a => f[x] = 0
  PROVE  SumFunction(f) = IF a \in S THEN f[a] ELSE 0
<1>1. PICK it \in [SUBSET S -> Int] :
           /\ it[{}] = 0
           /\ \A s \in SUBSET S : s # {} => it[s] = f[Pick(s)] + it[s \ {Pick(s)}]
           /\ SumFunction(f) = it[S]
  BY PartialSums
<1> DEFINE Bad == {s \in SUBSET S : it[s] # IF a \in s THEN f[a] ELSE 0}
<1>2. ASSUME NEW s \in Bad PROVE s \ {Pick(s)} \in Bad
  <2> DEFINE t == s \ {Pick(s)}
  <2>1. s \in SUBSET S /\ it[s] # IF a \in s THEN f[a] ELSE 0
    OBVIOUS
  <2>2. s # {}
    BY <1>1, <2>1
  <2>3. Pick(s) \in s /\ Pick(s) \in S /\ t \in SUBSET S
    BY <2>1, <2>2 DEF Pick
  <2>4. it[s] = f[Pick(s)] + it[t] /\ it[t] \in Int /\ f[Pick(s)] \in Int
    BY <1>1, <2>1, <2>2, <2>3
  <2>5. a \in t <=> a \in s /\ a # Pick(s)
    OBVIOUS
  <2> HIDE DEF t
  <2>6. it[t] # IF a \in t THEN f[a] ELSE 0
    <3>1. CASE a = Pick(s)
      BY <2>1, <2>3, <2>4, <2>5, <3>1
    <3>2. CASE a # Pick(s)
      BY <2>1, <2>3, <2>4, <2>5, <3>2
    <3> QED BY <3>1, <3>2
  <2>7. t \in Bad
    BY <2>3, <2>6
  <2> QED BY <2>7 DEF t
<1>3. {} \notin Bad /\ Bad \subseteq SUBSET S
  BY <1>1
<1>4. Bad = {}
  <2> HIDE DEF Bad
  <2> QED BY <1>2, <1>3, SmallerFails
<1>5. it[S] = IF a \in S THEN f[a] ELSE 0
  BY <1>4
<1> QED BY <1>1, <1>5

\* One value changes: so does the sum, by as much.
LEMMA SumFollows ==
  ASSUME NEW S, IsFiniteSet(S), NEW f \in [S -> Int], NEW g \in [S -> Int], NEW a \in S,
         \A x \in S : x # a => g[x] = f[x]
  PROVE  SumFunction(g) = SumFunction(f) + (g[a] - f[a])
<1> DEFINE d == [x \in S |-> IF x = a THEN g[a] - f[a] ELSE 0]
<1>1. d \in [S -> Int] /\ d[a] = g[a] - f[a] /\ \A x \in S : x # a => d[x] = 0
  OBVIOUS
<1>2. \A x \in S : g[x] = f[x] + d[x]
  OBVIOUS
<1> HIDE DEF d
<1>3. SumFunction(g) = SumFunction(f) + SumFunction(d)
  <2>1. d \in [S -> Int]
    BY <1>1
  <2> QED BY ONLY IsFiniteSet(S), f \in [S -> Int], g \in [S -> Int], <1>2, <2>1, SumAdds
<1>4. SumFunction(d) = d[a]
  BY <1>1, SumOfOne
<1> QED BY <1>1, <1>3, <1>4

LEMMA SumIsInteger ==
  ASSUME NEW S, IsFiniteSet(S), NEW f \in [S -> Int]
  PROVE  SumFunction(f) \in Int
<1>1. PICK it \in [SUBSET S -> Int] : SumFunction(f) = it[S]
  BY PartialSums
<1> QED BY <1>1

=============================================================================
