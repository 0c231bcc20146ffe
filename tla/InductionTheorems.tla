------------------------- MODULE InductionTheorems -------------------------
(***************************************************************************)
(* Induction over natural numbers and finite sets and recursion, stated    *)
(* with a set in the place of a predicate and a function in the place of   *)
(* an operator, and what the sums of the community modules compute: the    *)
(* facts on which the proofs about counters, totals and streams rest.      *)
(***************************************************************************)
EXTENDS Integers, FiniteSets, Functions, FiniteSetTheorems, TLAPS

----------------------------------------------------------------------------
(* Induction *)

\* A nonempty set of natural numbers has a least element.
LEMMA LeastNatural ==
  ASSUME NEW B, B \subseteq Nat, B # {}
  PROVE  \E n \in B : \A m \in B : n <= m
  <1> DEFINE R == OpToRel(<, Nat)
  <1>1. IsWellFoundedOn(R, Nat)
    BY NatLessThanWellFounded
  <1>2. \A m, n \in Nat : m < n => <<m, n>> \in R
    BY DEF OpToRel
  <1> HIDE DEF R
  <1>3. PICK n \in B : \A m \in B : ~ (<<m, n>> \in R)
    BY <1>1, WFMin
  <1>4. ASSUME NEW m \in B PROVE n <= m
    <2>1. m \in Nat /\ n \in Nat
      OBVIOUS
    <2>2. ~ (m < n)
      BY <1>2, <1>3, <2>1
    <2> QED BY <2>1, <2>2
  <1> QED BY <1>4

\* A set that holds 0 and the successor of its every number holds them all.
LEMMA NatInductionSet ==
  ASSUME NEW G, 0 \in G, \A n \in Nat : n \in G => n + 1 \in G
  PROVE  Nat \subseteq G
  <1> DEFINE B == Nat \ G
  <1> SUFFICES ASSUME B # {} PROVE FALSE
    OBVIOUS
  <1>1. PICK n \in B : \A m \in B : n <= m
    BY LeastNatural
  <1>2. n \in Nat /\ n # 0 /\ n - 1 \in Nat /\ n - 1 \in G
    BY <1>1
  <1> QED BY <1>1, <1>2

\* The same of the numbers up to N.
LEMMA UptoInduction ==
  ASSUME NEW N \in Nat, NEW G, 0 \in G, \A n \in 1..N : n - 1 \in G => n \in G
  PROVE  0..N \subseteq G
  <1> DEFINE H == {n \in Nat : n <= N => n \in G}
  <1>1. 0 \in H
    OBVIOUS
  <1>2. ASSUME NEW n \in Nat, n \in H PROVE n + 1 \in H
    <2>1. CASE n + 1 <= N
      <3>1. n + 1 \in 1..N /\ (n + 1) - 1 = n /\ n \in G
        BY <1>2, <2>1
      <3> QED BY <3>1
    <2>2. CASE ~ (n + 1 <= N)
      BY <2>2
    <2> QED BY <2>1, <2>2
  <1>3. Nat \subseteq H
    <2> HIDE DEF H
    <2> QED BY <1>1, <1>2, NatInductionSet
  <1> QED BY <1>3

\* A finite set is in G when G holds every subset that it holds without any
\* one of its elements.
LEMMA SetInduction ==
  ASSUME NEW S, IsFiniteSet(S), NEW G,
         \A T \in SUBSET S : (\A x \in T : T \ {x} \in G) => T \in G
  PROVE  S \in G
  <1> DEFINE B == {n \in Nat : \E T \in SUBSET S : Cardinality(T) = n /\ T \notin G}
  <1> SUFFICES ASSUME S \notin G PROVE FALSE
    OBVIOUS
  <1>1. Cardinality(S) \in B
    BY FS_CardinalityType
  <1>2. PICK n \in B : \A m \in B : n <= m
    BY <1>1, LeastNatural
  <1>3. PICK T \in SUBSET S : Cardinality(T) = n /\ T \notin G
    BY <1>2
  <1>4. PICK x \in T : T \ {x} \notin G
    BY <1>3
  <1>5. IsFiniteSet(T)
    BY FS_Subset
  <1>6. Cardinality(T \ {x}) = n - 1
    BY <1>3, <1>4, <1>5, FS_RemoveElement
  <1>7. n - 1 \in Nat
    BY <1>2, <1>5, <1>6, FS_RemoveElement, FS_CardinalityType
  <1> QED BY <1>2, <1>4, <1>6, <1>7

----------------------------------------------------------------------------
(* Recursion *)

\* f starts at base and makes each of its values from the one before.
Recursive(f, N, V, base, step) ==
  /\ f \in [0..N -> V]
  /\ f[0] = base
  /\ \A n \in 1..N : f[n] = step[n][f[n - 1]]

\* Such a function exists.
LEMMA RecursionExists ==
  ASSUME NEW N, N \in Nat, NEW V, NEW base, base \in V,
         NEW step, step \in [1..N -> [V -> V]]
  PROVE  \E f : Recursive(f, N, V, base, step)
  <1> DEFINE Upto(k, f) == f[0] = base /\ \A n \in 1..N : n <= k => f[n] = step[n][f[n - 1]]
             G == {k \in Nat : \E f \in [0..N -> V] : Upto(k, f)}
  <1>1. 0 \in G
    <2> DEFINE f == [n \in 0..N |-> base]
    <2>1. f \in [0..N -> V] /\ f[0] = base
      OBVIOUS
    <2>2. Upto(0, f)
      BY <2>1
    <2> HIDE DEF f, Upto
    <2> QED BY <2>1, <2>2
  <1>2. ASSUME NEW k \in Nat, k \in G PROVE k + 1 \in G
    <2>1. PICK f \in [0..N -> V] : Upto(k, f)
      BY <1>2
    <2>2. CASE k + 1 \in 1..N
      <3> DEFINE g == [f EXCEPT ![k + 1] = step[k + 1][f[k]]]
      <3>1. g \in [0..N -> V] /\ g[0] = base /\ g[k + 1] = step[k + 1][f[k]]
        BY <2>1, <2>2
      <3>2. \A n \in 0..N : n # k + 1 => g[n] = f[n]
        BY <2>1
      <3>3. ASSUME NEW n \in 1..N, n <= k + 1 PROVE g[n] = step[n][g[n - 1]]
        <4>1. CASE n = k + 1
          <5>1. n - 1 = k /\ k \in 0..N /\ k # k + 1
            BY <2>2, <4>1
          <5>2. g[k] = f[k]
            BY <3>2, <5>1
          <5> HIDE DEF g
          <5> QED BY <3>1, <4>1, <5>1, <5>2
        <4>2. CASE n # k + 1
          <5>1. n <= k /\ n \in 0..N /\ n - 1 \in 0..N /\ n - 1 # k + 1
            BY <3>3, <4>2
          <5>2. f[n] = step[n][f[n - 1]]
            BY <2>1, <5>1
          <5>3. g[n] = f[n] /\ g[n - 1] = f[n - 1]
            BY <3>2, <4>2, <5>1
          <5> HIDE DEF g
          <5> QED BY <5>2, <5>3
        <4> QED BY <4>1, <4>2
      <3> HIDE DEF g
      <3>4. Upto(k + 1, g)
        BY <3>1, <3>3
      <3> HIDE DEF Upto
      <3> QED BY <3>1, <3>4
    <2>3. CASE k + 1 \notin 1..N
      <3>1. Upto(k + 1, f)
        BY <2>1, <2>3
      <3> HIDE DEF Upto
      <3> QED BY <2>1, <3>1
    <2> QED BY <2>2, <2>3
  <1>3. N \in G
    <2> HIDE DEF G
    <2> QED BY <1>1, <1>2, NatInductionSet
  <1> QED BY <1>3 DEF Recursive

\* What holds of the first value and passes from each to the next holds of all.
LEMMA RecursionType ==
  ASSUME NEW N \in Nat, NEW V, NEW f, f[0] \in V,
         \A n \in 0..N : n + 1 <= N /\ f[n] \in V => f[n + 1] \in V
  PROVE  \A n \in 0..N : f[n] \in V
  <1> DEFINE G == {n \in Nat : n <= N => f[n] \in V}
  <1>1. 0 \in G
    OBVIOUS
  <1>2. ASSUME NEW n \in Nat, n \in G PROVE n + 1 \in G
    <2>1. CASE n + 1 <= N
      <3>1. n \in 0..N /\ f[n] \in V
        BY <1>2, <2>1
      <3> QED BY <2>1, <3>1
    <2> QED BY <2>1
  <1>3. Nat \subseteq G
    <2> HIDE DEF G
    <2> QED BY <1>1, <1>2, NatInductionSet
  <1> QED BY <1>3

----------------------------------------------------------------------------
(* Sums *)

SumOver(f, S) == FoldFunctionOnSet(+, 0, f, S)

Pick(S) == CHOOSE x \in S : TRUE

\* The recursive function that the fold over S is defined by.
SumStep(f, g, T) == IF T = {} THEN 0 ELSE f[Pick(T)] + g[T \ {Pick(T)}]

LEMMA SumFunctionExists ==
  ASSUME NEW S, IsFiniteSet(S), NEW f, \A x \in S : f[x] \in Int
  PROVE  \E g \in [SUBSET S -> Int] : \A T \in SUBSET S : g[T] = SumStep(f, g, T)
  <1> DEFINE Upto(n) == {T \in SUBSET S : Cardinality(T) <= n}
             G == {n \in Nat : \E g \in [SUBSET S -> Int] :
                                 \A T \in Upto(n) : g[T] = SumStep(f, g, T)}
  <1>0. \A T \in SUBSET S : IsFiniteSet(T) /\ Cardinality(T) \in Nat
    BY FS_Subset, FS_CardinalityType
  <1>1. 0 \in G
    <2> DEFINE g == [T \in SUBSET S |-> 0]
    <2>1. \A T \in Upto(0) : T = {}
      BY <1>0, FS_EmptySet
    <2>2. \A T \in Upto(0) : g[T] = SumStep(f, g, T)
      BY <2>1 DEF SumStep
    <2>3. g \in [SUBSET S -> Int]
      OBVIOUS
    <2> HIDE DEF g, Upto
    <2> QED BY <2>2, <2>3
  <1>2. ASSUME NEW n \in Nat, n \in G PROVE n + 1 \in G
    <2>1. PICK g \in [SUBSET S -> Int] : \A T \in Upto(n) : g[T] = SumStep(f, g, T)
      BY <1>2
    <2> DEFINE h == [T \in SUBSET S |-> SumStep(f, g, T)]
    <2>2. ASSUME NEW T \in SUBSET S, T # {}
          PROVE  /\ Pick(T) \in T /\ T \ {Pick(T)} \in SUBSET S
                 /\ Cardinality(T \ {Pick(T)}) = Cardinality(T) - 1
      BY <1>0, <2>2, FS_RemoveElement DEF Pick
    <2>3. h \in [SUBSET S -> Int]
      <3>1. ASSUME NEW T \in SUBSET S PROVE SumStep(f, g, T) \in Int
        <4>1. CASE T = {}
          BY <4>1 DEF SumStep
        <4>2. CASE T # {}
          <5>1. f[Pick(T)] \in Int /\ g[T \ {Pick(T)}] \in Int
            BY <2>2, <4>2
          <5> QED BY <4>2, <5>1 DEF SumStep
        <4> QED BY <4>1, <4>2
      <3> QED BY <3>1
    <2>4. ASSUME NEW T \in Upto(n + 1) PROVE h[T] = SumStep(f, h, T)
      <3>1. CASE T = {}
        BY <3>1 DEF SumStep
      <3>2. CASE T # {}
        <4>1. T \ {Pick(T)} \in Upto(n)
          BY <1>0, <2>2, <2>4, <3>2
        <4>2. h[T \ {Pick(T)}] = g[T \ {Pick(T)}]
          BY <2>1, <4>1
        <4> QED BY <4>2, <3>2, <2>4 DEF SumStep
      <3> QED BY <3>1, <3>2
    <2> HIDE DEF h, Upto
    <2> QED BY <2>3, <2>4
  <1>3. Nat \subseteq G
    <2> HIDE DEF G
    <2> QED BY <1>1, <1>2, NatInductionSet
  <1>4. Cardinality(S) \in G
    BY <1>0, <1>3
  <1>5. PICK g \in [SUBSET S -> Int] :
          \A T \in Upto(Cardinality(S)) : g[T] = SumStep(f, g, T)
    BY <1>4
  <1>6. \A T \in SUBSET S : T \in Upto(Cardinality(S))
    BY FS_Subset
  <1> QED BY <1>5, <1>6

\* SumOver is the value of a function that satisfies its recursion.
LEMMA SumOverDef ==
  ASSUME NEW S, IsFiniteSet(S), NEW f, \A x \in S : f[x] \in Int
  PROVE  \E g : /\ g = [T \in SUBSET S |-> SumStep(f, g, T)]
                /\ SumOver(f, S) = g[S]
  <1>1. PICK g \in [SUBSET S -> Int] : \A T \in SUBSET S : g[T] = SumStep(f, g, T)
    BY SumFunctionExists
  <1>2. g = [T \in SUBSET S |-> SumStep(f, g, T)]
    BY <1>1
  <1> DEFINE iter == CHOOSE h : h = [T \in SUBSET S |-> SumStep(f, h, T)]
  <1>3. iter = [T \in SUBSET S |-> SumStep(f, iter, T)]
    BY <1>2
  <1>4. SumOver(f, S) = iter[S]
    BY DEF SumOver, FoldFunctionOnSet, MapThenFoldSet, SumStep, Pick
  <1> QED BY <1>3, <1>4

\* The function of the fold over S gives the sum over every subset of S.
LEMMA SumUnfold ==
  ASSUME NEW S, IsFiniteSet(S), NEW f, \A x \in S : f[x] \in Int
  PROVE  /\ SumOver(f, S) \in Int
         /\ SumOver(f, S) = IF S = {} THEN 0
                           ELSE f[Pick(S)] + SumOver(f, S \ {Pick(S)})
  <1>1. PICK g \in [SUBSET S -> Int] : \A T \in SUBSET S : g[T] = SumStep(f, g, T)
    BY SumFunctionExists
  <1>2. ASSUME NEW T \in SUBSET S PROVE SumOver(f, T) = g[T]
    <2>1. IsFiniteSet(T) /\ \A x \in T : f[x] \in Int
      BY FS_Subset
    <2>2. PICK h : h = [U \in SUBSET T |-> SumStep(f, h, U)] /\ SumOver(f, T) = h[T]
      BY <2>1, SumOverDef
    <2> DEFINE G == {U \in SUBSET T : h[U] = g[U]}
    <2>3. ASSUME NEW U \in SUBSET T, \A x \in U : U \ {x} \in G PROVE U \in G
      <3>1. h[U] = SumStep(f, h, U) /\ g[U] = SumStep(f, g, U)
        BY <1>1, <2>2
      <3>2. CASE U = {}
        BY <3>1, <3>2 DEF SumStep
      <3>3. CASE U # {}
        <4>1. Pick(U) \in U
          BY <3>3 DEF Pick
        <4>2. h[U \ {Pick(U)}] = g[U \ {Pick(U)}]
          BY <2>3, <4>1
        <4> QED BY <3>1, <3>3, <4>2 DEF SumStep
      <3> QED BY <3>2, <3>3
    <2>4. T \in G
      <3> HIDE DEF G
      <3> QED BY <2>1, <2>3, SetInduction
    <2> QED BY <2>2, <2>4
  <1>3. g[S] = SumStep(f, g, S) /\ g[S] \in Int
    BY <1>1
  <1>4. S \ {Pick(S)} \in SUBSET S /\ S \in SUBSET S
    OBVIOUS
  <1> QED BY <1>2, <1>3, <1>4 DEF SumStep

LEMMA SumEmpty == ASSUME NEW f PROVE SumOver(f, {}) = 0
  BY FS_EmptySet, SumUnfold

LEMMA SumPick ==
  ASSUME NEW S, IsFiniteSet(S), S # {}, NEW f, \A x \in S : f[x] \in Int
  PROVE  /\ Pick(S) \in S
         /\ SumOver(f, S) = f[Pick(S)] + SumOver(f, S \ {Pick(S)})
  <1>1. Pick(S) \in S
    BY DEF Pick
  <1> QED BY <1>1, SumUnfold

LEMMA SumType ==
  ASSUME NEW S, IsFiniteSet(S), NEW f, \A x \in S : f[x] \in Int
  PROVE  SumOver(f, S) \in Int
  BY SumUnfold

\* Any element may be taken out first.
THEOREM SumRemove ==
  ASSUME NEW S, IsFiniteSet(S), NEW f, \A x \in S : f[x] \in Int, NEW y \in S
  PROVE  SumOver(f, S) = f[y] + SumOver(f, S \ {y})
  <1> DEFINE G == {T \in SUBSET S :
                     \A x \in T : SumOver(f, T) = f[x] + SumOver(f, T \ {x})}
  <1>1. ASSUME NEW T \in SUBSET S, \A x \in T : T \ {x} \in G, NEW x \in T
        PROVE  SumOver(f, T) = f[x] + SumOver(f, T \ {x})
    <2> DEFINE p == Pick(T)
    <2>1. \A U \in SUBSET S : IsFiniteSet(U) /\ SumOver(f, U) \in Int
      BY FS_Subset, SumType
    <2>2. p \in T /\ SumOver(f, T) = f[p] + SumOver(f, T \ {p})
      BY <2>1, SumPick
    <2> HIDE DEF p
    <2>3. CASE x = p
      BY <2>2, <2>3
    <2>4. CASE x # p
      <3>1. SumOver(f, T \ {p}) = f[x] + SumOver(f, (T \ {p}) \ {x})
        BY <1>1, <2>2, <2>4
      <3>2. SumOver(f, T \ {x}) = f[p] + SumOver(f, (T \ {x}) \ {p})
        BY <1>1, <2>2, <2>4
      <3>3. (T \ {p}) \ {x} = (T \ {x}) \ {p}
        OBVIOUS
      <3>4. /\ f[x] \in Int /\ f[p] \in Int
            /\ SumOver(f, (T \ {x}) \ {p}) \in Int
        BY <2>1, <2>2
      <3> DEFINE rest == SumOver(f, (T \ {x}) \ {p})
      <3>5. /\ SumOver(f, T) = f[p] + (f[x] + rest)
            /\ SumOver(f, T \ {x}) = f[p] + rest
        BY <2>2, <3>1, <3>2, <3>3
      <3> HIDE DEF rest
      <3> QED BY <3>4, <3>5 DEF rest
    <2> QED BY <2>3, <2>4
  <1>2. S \in G
    <2>1. \A T \in SUBSET S : (\A x \in T : T \ {x} \in G) => T \in G
      BY <1>1
    <2> HIDE DEF G
    <2> QED BY <2>1, SetInduction
  <1> QED BY <1>2

LEMMA SumInsert ==
  ASSUME NEW S, IsFiniteSet(S), NEW f, NEW y, y \notin S,
         \A x \in S \cup {y} : f[x] \in Int
  PROVE  SumOver(f, S \cup {y}) = f[y] + SumOver(f, S)
  <1>1. IsFiniteSet(S \cup {y}) /\ (S \cup {y}) \ {y} = S
    BY FS_AddElement
  <1> QED BY <1>1, SumRemove

\* Sums of counters that never exceed one another.
LEMMA SumMonotone ==
  ASSUME NEW S, IsFiniteSet(S), NEW f, NEW g,
         \A x \in S : f[x] \in Int /\ g[x] \in Int /\ f[x] <= g[x]
  PROVE  SumOver(f, S) <= SumOver(g, S)
  <1> DEFINE G == {T \in SUBSET S : SumOver(f, T) <= SumOver(g, T)}
  <1>1. ASSUME NEW T \in SUBSET S, \A x \in T : T \ {x} \in G PROVE T \in G
    <2>1. CASE T = {}
      BY <2>1, SumEmpty
    <2>2. CASE T # {}
      <3>1. PICK x \in T : TRUE
        BY <2>2
      <3>2. IsFiniteSet(T) /\ IsFiniteSet(T \ {x})
        BY FS_Subset
      <3>3. SumOver(f, T) = f[x] + SumOver(f, T \ {x})
        BY <3>1, <3>2, SumRemove
      <3>4. SumOver(g, T) = g[x] + SumOver(g, T \ {x})
        BY <3>1, <3>2, SumRemove
      <3>5. SumOver(f, T \ {x}) <= SumOver(g, T \ {x})
        BY <1>1, <3>1
      <3>6. SumOver(f, T \ {x}) \in Int /\ SumOver(g, T \ {x}) \in Int
        BY <3>2, SumType
      <3>7. f[x] \in Int /\ g[x] \in Int /\ f[x] <= g[x]
        BY <3>1
      <3> QED BY <3>3, <3>4, <3>5, <3>6, <3>7
    <2> QED BY <2>1, <2>2
  <1>2. S \in G
    <2> HIDE DEF G
    <2> QED BY <1>1, SetInduction
  <1> QED BY <1>2

LEMMA SumEqual ==
  ASSUME NEW S, IsFiniteSet(S), NEW f, NEW g,
         \A x \in S : f[x] \in Int /\ g[x] = f[x]
  PROVE  SumOver(g, S) = SumOver(f, S)
  <1>1. \A x \in S : f[x] \in Int /\ g[x] \in Int /\ f[x] <= g[x] /\ g[x] <= f[x]
    OBVIOUS
  <1>2. SumOver(f, S) <= SumOver(g, S) /\ SumOver(g, S) <= SumOver(f, S)
    BY <1>1, SumMonotone
  <1>3. SumOver(f, S) \in Int /\ SumOver(g, S) \in Int
    BY <1>1, SumType
  <1> QED BY <1>2, <1>3

LEMMA SumNat ==
  ASSUME NEW S, IsFiniteSet(S), NEW f, \A x \in S : f[x] \in Nat
  PROVE  SumOver(f, S) \in Nat
  <1> DEFINE G == {T \in SUBSET S : SumOver(f, T) \in Nat}
  <1>1. ASSUME NEW T \in SUBSET S, \A x \in T : T \ {x} \in G PROVE T \in G
    <2>1. CASE T = {}
      BY <2>1, SumEmpty
    <2>2. CASE T # {}
      <3>1. IsFiniteSet(T)
        BY FS_Subset
      <3>2. Pick(T) \in T /\ SumOver(f, T) = f[Pick(T)] + SumOver(f, T \ {Pick(T)})
        BY <2>2, <3>1, SumPick
      <3> QED BY <1>1, <3>2
    <2> QED BY <2>1, <2>2
  <1>2. S \in G
    <2> HIDE DEF G
    <2> QED BY <1>1, SetInduction
  <1> QED BY <1>2

LEMMA SumZero ==
  ASSUME NEW S, IsFiniteSet(S), NEW f, \A x \in S : f[x] = 0
  PROVE  SumOver(f, S) = 0
  <1> DEFINE z == [x \in S |-> 0]
             G == {T \in SUBSET S : SumOver(z, T) = 0}
  <1>1. ASSUME NEW T \in SUBSET S, \A x \in T : T \ {x} \in G PROVE T \in G
    <2>1. CASE T = {}
      BY <2>1, SumEmpty
    <2>2. CASE T # {}
      <3>1. IsFiniteSet(T) /\ \A x \in T : z[x] = 0 /\ z[x] \in Int
        BY FS_Subset
      <3> HIDE DEF z
      <3>2. Pick(T) \in T /\ SumOver(z, T) = z[Pick(T)] + SumOver(z, T \ {Pick(T)})
        BY <2>2, <3>1, SumPick
      <3> QED BY <1>1, <3>1, <3>2
    <2> QED BY <2>1, <2>2
  <1>2. S \in G
    <2> HIDE DEF G
    <2> QED BY <1>1, SetInduction
  <1>3. \A x \in S : z[x] \in Int /\ f[x] = z[x]
    OBVIOUS
  <1> HIDE DEF z
  <1>4. SumOver(f, S) = SumOver(z, S)
    BY <1>3, SumEqual
  <1> QED BY <1>2, <1>4

\* The sum of two streams is the sum of their sums.
THEOREM SumAdd ==
  ASSUME NEW S, IsFiniteSet(S), NEW f, NEW g, NEW h,
         \A x \in S : f[x] \in Int /\ g[x] \in Int /\ h[x] = f[x] + g[x]
  PROVE  SumOver(h, S) = SumOver(f, S) + SumOver(g, S)
  <1> DEFINE G == {T \in SUBSET S : SumOver(h, T) = SumOver(f, T) + SumOver(g, T)}
  <1>1. ASSUME NEW T \in SUBSET S, \A x \in T : T \ {x} \in G PROVE T \in G
    <2>1. CASE T = {}
      BY <2>1, SumEmpty
    <2>2. CASE T # {}
      <3>1. PICK x \in T : TRUE
        BY <2>2
      <3>2. IsFiniteSet(T) /\ IsFiniteSet(T \ {x})
        BY FS_Subset
      <3>3. SumOver(f, T) = f[x] + SumOver(f, T \ {x})
        BY <3>1, <3>2, SumRemove
      <3>4. SumOver(g, T) = g[x] + SumOver(g, T \ {x})
        BY <3>1, <3>2, SumRemove
      <3>5. SumOver(h, T) = h[x] + SumOver(h, T \ {x})
        BY <3>1, <3>2, SumRemove
      <3>6. SumOver(h, T \ {x}) = SumOver(f, T \ {x}) + SumOver(g, T \ {x})
        BY <1>1, <3>1
      <3>7. SumOver(f, T \ {x}) \in Int /\ SumOver(g, T \ {x}) \in Int
        BY <3>2, SumType
      <3>8. f[x] \in Int /\ g[x] \in Int /\ h[x] = f[x] + g[x]
        BY <3>1
      <3> QED BY <3>3, <3>4, <3>5, <3>6, <3>7, <3>8
    <2> QED BY <2>1, <2>2
  <1>2. S \in G
    <2> HIDE DEF G
    <2> QED BY <1>1, SetInduction
  <1> QED BY <1>2

\* g is f on S, but for y.
OneChange(f, g, S, y) ==
  /\ IsFiniteSet(S) /\ y \in S
  /\ \A x \in S : f[x] \in Int /\ g[x] \in Int /\ (x # y => g[x] = f[x])

\* One counter changes: the sum changes by as much.
THEOREM SumChange ==
  ASSUME NEW S, IsFiniteSet(S), NEW f, NEW g, NEW y \in S,
         \A x \in S : f[x] \in Int /\ g[x] \in Int /\ (x # y => g[x] = f[x])
  PROVE  SumOver(g, S) = SumOver(f, S) + (g[y] - f[y])
  <1>1. IsFiniteSet(S \ {y})
    BY FS_Subset
  <1>2. SumOver(g, S \ {y}) = SumOver(f, S \ {y}) /\ SumOver(f, S \ {y}) \in Int
    BY <1>1, SumEqual, SumType
  <1>3. SumOver(f, S) = f[y] + SumOver(f, S \ {y})
    BY SumRemove
  <1>4. SumOver(g, S) = g[y] + SumOver(g, S \ {y})
    BY SumRemove
  <1> QED BY <1>2, <1>3, <1>4

LEMMA SumOneChange ==
  ASSUME NEW S, NEW f, NEW g, NEW y, OneChange(f, g, S, y)
  PROVE  SumOver(g, S) = SumOver(f, S) + (g[y] - f[y])
  <1> DEFINE R == S \ {y}
  <1>0. IsFiniteSet(S) /\ y \in S /\ f[y] \in Int /\ g[y] \in Int
    BY DEF OneChange
  <1>1. IsFiniteSet(R)
    BY <1>0, FS_Subset
  <1>2. \A x \in R : f[x] \in Int /\ g[x] = f[x]
    BY DEF OneChange
  <1>3. SumOver(g, R) = SumOver(f, R)
    <2> HIDE DEF R
    <2> QED BY <1>1, <1>2, SumEqual
  <1>4. SumOver(f, R) \in Int
    <2> HIDE DEF R
    <2> QED BY <1>1, <1>2, SumType
  <1>5. SumOver(f, S) = f[y] + SumOver(f, R)
    <2>1. \A x \in S : f[x] \in Int
      BY DEF OneChange
    <2> QED BY <1>0, <2>1, SumRemove
  <1>6. SumOver(g, S) = g[y] + SumOver(g, R)
    <2>1. \A x \in S : g[x] \in Int
      BY DEF OneChange
    <2> QED BY <1>0, <2>1, SumRemove
  <1> HIDE DEF R
  <1> QED BY <1>0, <1>3, <1>4, <1>5, <1>6

\* When every counter of C loses m or more and no counter grows, the sum loses
\* m for each member of C.
THEOREM SumLoses ==
  ASSUME NEW S, IsFiniteSet(S), NEW f, NEW g, NEW C \in SUBSET S, NEW m \in Nat,
         \A x \in S : /\ f[x] \in Int /\ g[x] \in Int /\ g[x] <= f[x]
                      /\ x \in C => g[x] + m <= f[x]
  PROVE  SumOver(g, S) + m * Cardinality(C) <= SumOver(f, S)
  <1> DEFINE lost(T) == m * Cardinality(C \cap T)
             G == {T \in SUBSET S : SumOver(g, T) + lost(T) <= SumOver(f, T)}
  <1>0. \A T \in SUBSET S : IsFiniteSet(T) /\ IsFiniteSet(C \cap T)
                            /\ Cardinality(C \cap T) \in Nat
    BY FS_Subset, FS_CardinalityType
  <1>1. ASSUME NEW T \in SUBSET S, \A x \in T : T \ {x} \in G PROVE T \in G
    <2>1. CASE T = {}
      <3>1. C \cap T = {} /\ Cardinality({}) = 0
        BY <2>1, FS_EmptySet
      <3>2. SumOver(g, T) = 0 /\ SumOver(f, T) = 0
        BY <2>1, SumEmpty
      <3>3. m * 0 = 0
        OBVIOUS
      <3>4. lost(T) = 0
        BY <3>1, <3>3
      <3> HIDE DEF lost
      <3> QED BY <3>2, <3>4
    <2>2. CASE T # {}
      <3>1. PICK x \in T : TRUE
        BY <2>2
      <3>3. SumOver(f, T) = f[x] + SumOver(f, T \ {x})
        BY <1>0, <3>1, SumRemove
      <3>4. SumOver(g, T) = g[x] + SumOver(g, T \ {x})
        BY <1>0, <3>1, SumRemove
      <3>5. SumOver(g, T \ {x}) + lost(T \ {x}) <= SumOver(f, T \ {x})
        BY <1>1, <3>1
      <3>6. SumOver(f, T \ {x}) \in Int /\ SumOver(g, T \ {x}) \in Int
        BY <1>0, SumType
      <3>7. f[x] \in Int /\ g[x] \in Int /\ g[x] <= f[x] /\ (x \in C => g[x] + m <= f[x])
        BY <3>1
      <3>8. lost(T \ {x}) \in Int /\ lost(T) = lost(T \ {x}) + (IF x \in C THEN m ELSE 0)
        <4>1. C \cap (T \ {x}) = (C \cap T) \ {x}
          OBVIOUS
        <4>2. Cardinality(C \cap (T \ {x}))
                = IF x \in C THEN Cardinality(C \cap T) - 1 ELSE Cardinality(C \cap T)
          <5>1. IsFiniteSet(C \cap T) /\ (x \in C \cap T <=> x \in C)
            BY <1>0, <3>1
          <5>2. Cardinality((C \cap T) \ {x})
                  = IF x \in C \cap T THEN Cardinality(C \cap T) - 1 ELSE Cardinality(C \cap T)
            BY <5>1, FS_RemoveElement
          <5> QED BY <4>1, <5>1, <5>2
        <4>3. Cardinality(C \cap (T \ {x})) \in Nat
          BY <1>0
        <4>4. \A k \in Nat : m * k \in Int /\ m * (k + 1) = m * k + m
          OBVIOUS
        <4> DEFINE k == Cardinality(C \cap (T \ {x}))
        <4>5. Cardinality(C \cap T) = IF x \in C THEN k + 1 ELSE k
          <5>1. Cardinality(C \cap T) \in Nat
            BY <1>0
          <5> DEFINE n == Cardinality(C \cap T)
          <5> HIDE DEF n
          <5>2. n \in Nat /\ k = IF x \in C THEN n - 1 ELSE n
            BY <4>2, <5>1 DEF n
          <5>3. n = IF x \in C THEN k + 1 ELSE k
            <6> HIDE DEF k
            <6> QED BY <5>2
          <5> QED BY <5>3 DEF n
        <4> HIDE DEF k
        <4>6. k \in Nat /\ lost(T \ {x}) = m * k
          BY <4>3 DEF k
        <4> QED BY <4>4, <4>5, <4>6
      <3> HIDE DEF lost
      <3>9. SumOver(g, T) + lost(T) <= SumOver(f, T)
        BY <3>3, <3>4, <3>5, <3>6, <3>7, <3>8
      <3> QED BY <3>9
    <2> QED BY <2>1, <2>2
  <1>2. S \in G
    <2> HIDE DEF G
    <2> QED BY <1>1, SetInduction
  <1>3. C \cap S = C
    OBVIOUS
  <1> QED BY <1>2, <1>3
=============================================================================
