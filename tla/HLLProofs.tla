------------------------------ MODULE HLLProofs ------------------------------
(***************************************************************************)
(* What holds of HLL for every set of coupons, every width and type, every *)
(* size at which LIST and SET are promoted, and every number of sketches.  *)
(* An array is described by the values it encodes; the operations are      *)
(* treated one by one, then the merge in its four cases. At the end stand  *)
(* the invariant that all operations keep, and what follows from it.       *)
(***************************************************************************)
EXTENDS HLL, InductionTheorems

----------------------------------------------------------------------------
(* Powers of two, slots and folds over sets *)

\* The powers of two, unfolded.
LEMMA PowerFacts ==
  /\ Power2(0) = 1
  /\ \A e \in Nat : Power2(e) \in Nat \ {0} /\ Power2(e + 1) = 2 * Power2(e)
  <1> DEFINE P(e) == CHOOSE p : p = [i \in 0..e |-> IF i = 0 THEN 1 ELSE 2 * p[i - 1]]
             Pos == Nat \ {0}
  <1>1. ASSUME NEW e \in Nat
        PROVE  /\ P(e)[0] = 1 /\ \A i \in 0..e : P(e)[i] \in Pos
               /\ \A i \in 1..e : P(e)[i] = 2 * P(e)[i - 1]
    <2> DEFINE step == [i \in 1..e |-> [v \in Pos |-> 2 * v]]
    <2>1. step \in [1..e -> [Pos -> Pos]] /\ 1 \in Pos
      OBVIOUS
    <2>2. PICK f : Recursive(f, e, Pos, 1, step)
      <3> HIDE DEF step, Pos
      <3> QED BY <2>1, RecursionExists
    <2>3. /\ f \in [0..e -> Pos] /\ f[0] = 1
          /\ \A i \in 1..e : f[i] = 2 * f[i - 1]
      <3>1. f \in [0..e -> Pos] /\ f[0] = 1 /\ \A i \in 1..e : f[i] = step[i][f[i - 1]]
        <4> HIDE DEF step, Pos
        <4> QED BY <2>2 DEF Recursive
      <3>2. \A i \in 1..e : f[i - 1] \in Pos
        BY <3>1
      <3> QED BY <3>1, <3>2
    <2>4. f = [i \in 0..e |-> IF i = 0 THEN 1 ELSE 2 * f[i - 1]]
      BY <2>3
    <2>5. P(e) = [i \in 0..e |-> IF i = 0 THEN 1 ELSE 2 * P(e)[i - 1]]
      BY <2>4
    <2> HIDE DEF P
    <2>6. P(e)[0] = 1 /\ \A i \in 1..e : P(e)[i] = 2 * P(e)[i - 1]
      BY <2>5
    <2>7. \A i \in 0..e : P(e)[i] \in Pos
      <3>1. P(e)[0] \in Pos
        BY <2>6
      <3>2. \A i \in 0..e : i + 1 <= e /\ P(e)[i] \in Pos => P(e)[i + 1] \in Pos
        <4> TAKE i \in 0..e
        <4>1. HAVE i + 1 <= e /\ P(e)[i] \in Pos
        <4>2. i + 1 \in 1..e /\ (i + 1) - 1 = i
          BY <4>1
        <4>3. P(e)[i + 1] = 2 * P(e)[i]
          BY <2>6, <4>2
        <4> QED BY <4>1, <4>3
      <3> HIDE DEF Pos
      <3> QED BY <3>1, <3>2, RecursionType
    <2> QED BY <2>6, <2>7
  <1>2. \A e \in Nat : Power2(e) = P(e)[e]
    BY DEF Power2
  <1> HIDE DEF P
  <1>3. ASSUME NEW e \in Nat PROVE P(e + 1)[e] = P(e)[e]
    <2> DEFINE G == {i \in Nat : i <= e => P(e + 1)[i] = P(e)[i]}
    <2>1. 0 \in G
      BY <1>1
    <2>2. ASSUME NEW i \in Nat, i \in G PROVE i + 1 \in G
      <3> SUFFICES ASSUME i + 1 <= e PROVE P(e + 1)[i + 1] = P(e)[i + 1]
        OBVIOUS
      <3>1. i + 1 \in 1..e /\ i + 1 \in 1..(e + 1) /\ (i + 1) - 1 = i /\ P(e + 1)[i] = P(e)[i]
        BY <2>2
      <3> HIDE DEF G
      <3> QED BY <1>1, <3>1
    <2>3. Nat \subseteq G
      <3> HIDE DEF G
      <3> QED BY <2>1, <2>2, NatInductionSet
    <2> QED BY <2>3
  <1>4. ASSUME NEW e \in Nat PROVE Power2(e) \in Nat \ {0} /\ Power2(e + 1) = 2 * Power2(e)
    <2>1. e + 1 \in Nat /\ e + 1 \in 1..(e + 1) /\ (e + 1) - 1 = e /\ e \in 0..e
      OBVIOUS
    <2>2. P(e + 1)[e + 1] = 2 * P(e + 1)[e] /\ P(e)[e] \in Pos
      BY <1>1, <2>1
    <2> QED BY <1>2, <1>3, <2>1, <2>2
  <1>5. Power2(0) = 1
    BY <1>1, <1>2
  <1> QED BY <1>4, <1>5

\* A power of two is a multiple of each smaller one.
LEMMA PowerSplit ==
  ASSUME NEW j \in Nat, NEW k \in Nat, j <= k
  PROVE  \E m \in Nat \ {0} : Power2(k) = Power2(j) * m
  <1> DEFINE G == {n \in Nat : \E m \in Nat \ {0} : Power2(j + n) = Power2(j) * m}
  <1>1. 0 \in G
    <2>1. Power2(j + 0) = Power2(j) * 1
      BY PowerFacts
    <2> QED BY <2>1
  <1>2. ASSUME NEW n \in Nat, n \in G PROVE n + 1 \in G
    <2>1. PICK m \in Nat \ {0} : Power2(j + n) = Power2(j) * m
      BY <1>2
    <2>2. Power2((j + n) + 1) = 2 * Power2(j + n) /\ Power2(j) \in Nat
      BY PowerFacts
    <2>3. 2 * m \in Nat \ {0} /\ 2 * (Power2(j) * m) = Power2(j) * (2 * m) /\ (j + n) + 1 = j + (n + 1)
      BY <2>2
    <2>4. Power2(j + (n + 1)) = Power2(j) * (2 * m)
      BY <2>1, <2>2, <2>3
    <2> QED BY <2>3, <2>4
  <1>3. Nat \subseteq G
    <2> HIDE DEF G
    <2> QED BY <1>1, <1>2, NatInductionSet
  <1>4. k - j \in G /\ j + (k - j) = k
    BY <1>3
  <1> QED BY <1>4

\* Powers of two grow with the exponent.
LEMMA PowerMonotone ==
  ASSUME NEW j \in Nat, NEW k \in Nat, j <= k
  PROVE  Power2(j) <= Power2(k)
  <1>1. PICK m \in Nat \ {0} : Power2(k) = Power2(j) * m
    BY PowerSplit
  <1>2. Power2(j) \in Nat
    BY PowerFacts
  <1>3. \A p \in Nat, n \in Nat \ {0} : p <= p * n
    OBVIOUS
  <1> QED BY <1>1, <1>2, <1>3

\* A remainder is determined by the number divided.
LEMMA DivisionUnique ==
  ASSUME NEW p \in Nat \ {0}, NEW q \in Int, NEW r \in 0..(p - 1),
         NEW q2 \in Int, NEW r2 \in 0..(p - 1), q * p + r = q2 * p + r2
  PROVE  r = r2
  OBVIOUS

\* Quotient and remainder.
LEMMA DivisionFacts ==
  ASSUME NEW a \in Nat, NEW p \in Nat \ {0}
  PROVE  a % p \in 0..(p - 1) /\ \E q \in Int : a = q * p + (a % p)
  <1>1. a % p \in 0..(p - 1)
    OBVIOUS
  <1>2. a = (a \div p) * p + (a % p) /\ a \div p \in Int
    BY Z3T(60)
  <1> QED BY <1>1, <1>2

\* The slot of an address in a narrower array is the slot of its slot in a wider
\* one: the remainders.
LEMMA ModOfMod ==
  ASSUME NEW a \in Nat, NEW p \in Nat \ {0}, NEW m \in Nat \ {0}
  PROVE  (a % (p * m)) % p = a % p
  <1>0. p * m \in Nat \ {0}
    OBVIOUS
  <1> DEFINE r == a % (p * m)
  <1>1. r \in 0..(p * m - 1) /\ \E q \in Int : a = q * (p * m) + r
    BY <1>0, DivisionFacts
  <1>2. r \in Nat
    BY <1>0, <1>1
  <1> HIDE DEF r
  <1>3. PICK q \in Int : a = q * (p * m) + r
    BY <1>1
  <1>4. PICK q1 \in Int : r = q1 * p + (r % p)
    BY <1>2, DivisionFacts
  <1>5. PICK q2 \in Int : a = q2 * p + (a % p)
    BY DivisionFacts
  <1>6. r % p \in 0..(p - 1) /\ a % p \in 0..(p - 1)
    BY <1>2, DivisionFacts
  <1> DEFINE x == r % p
             y == a % p
  <1>7. x \in 0..(p - 1) /\ y \in 0..(p - 1) /\ r = q1 * p + x /\ a = q2 * p + y
    BY <1>4, <1>5, <1>6
  <1> HIDE DEF x, y
  <1>8. q * (p * m) + (q1 * p + x) = (q * m + q1) * p + x
    BY <1>7
  <1>9. (q * m + q1) * p + x = q2 * p + y /\ q * m + q1 \in Int
    BY <1>3, <1>7, <1>8
  <1>10. x = y
    BY <1>7, <1>9, DivisionUnique
  <1> QED BY <1>10 DEF x, y, r

\* The slot of an address, and of its slot, in arrays of different widths.
LEMMA SlotFacts ==
  ASSUME NEW a \in Nat, NEW k \in Nat
  PROVE  /\ a % Power2(k) \in Slots(k)
         /\ a \in Slots(k) => a % Power2(k) = a
         /\ \A j \in Nat : j <= k => (a % Power2(k)) % Power2(j) = a % Power2(j)
  <1> DEFINE p == Power2(k)
  <1>1. p \in Nat \ {0}
    BY PowerFacts
  <1>2. Slots(k) = 0..(p - 1)
    BY DEF Slots
  <1>3. ASSUME NEW j \in Nat, j <= k PROVE (a % p) % Power2(j) = a % Power2(j)
    <2>1. PICK m \in Nat \ {0} : p = Power2(j) * m
      BY <1>3, PowerSplit
    <2>2. Power2(j) \in Nat \ {0}
      BY PowerFacts
    <2> QED BY <2>1, <2>2, ModOfMod
  <1> HIDE DEF p
  <1>4. a % p \in 0..(p - 1) /\ \E q \in Int : a = q * p + (a % p)
    BY <1>1, DivisionFacts
  <1>5. ASSUME a \in 0..(p - 1) PROVE a % p = a
    <2>1. PICK q \in Int : a = q * p + (a % p)
      BY <1>4
    <2>2. 0 * p + a = q * p + (a % p)
      BY <1>1, <2>1
    <2> QED BY <1>1, <1>4, <1>5, <2>2, DivisionUnique
  <1> QED BY <1>2, <1>3, <1>4, <1>5 DEF p

\* g is the fold over every subset of S.
Folds(g, S, V, base, step) ==
  /\ g \in [SUBSET S -> V]
  /\ \A T \in SUBSET S : g[T] = IF T = {} THEN base ELSE step[Pick(T)][g[T \ {Pick(T)}]]

\* The fold of a finite set, one chosen element after the other, is defined.
LEMMA FoldExists ==
  ASSUME NEW S, IsFiniteSet(S), NEW V, NEW base, base \in V, NEW step, step \in [S -> [V -> V]]
  PROVE  \E g : Folds(g, S, V, base, step)
  <1> DEFINE Turn(g, T) == IF T = {} THEN base ELSE step[Pick(T)][g[T \ {Pick(T)}]]
             Upto(n) == {T \in SUBSET S : Cardinality(T) <= n}
             G == {n \in Nat : \E g \in [SUBSET S -> V] : \A T \in Upto(n) : g[T] = Turn(g, T)}
  <1>0. \A T \in SUBSET S : IsFiniteSet(T) /\ Cardinality(T) \in Nat
    BY FS_Subset, FS_CardinalityType
  <1>1. 0 \in G
    <2> DEFINE g == [T \in SUBSET S |-> base]
    <2>1. \A T \in Upto(0) : T = {}
      BY <1>0, FS_EmptySet
    <2>2. \A T \in Upto(0) : g[T] = Turn(g, T)
      BY <2>1
    <2>3. g \in [SUBSET S -> V]
      OBVIOUS
    <2> HIDE DEF g, Upto, Turn
    <2> QED BY <2>2, <2>3
  <1>2. ASSUME NEW n \in Nat, n \in G PROVE n + 1 \in G
    <2>1. PICK g \in [SUBSET S -> V] : \A T \in Upto(n) : g[T] = Turn(g, T)
      BY <1>2
    <2> DEFINE h == [T \in SUBSET S |-> Turn(g, T)]
    <2>2. ASSUME NEW T \in SUBSET S, T # {}
          PROVE  /\ Pick(T) \in T /\ T \ {Pick(T)} \in SUBSET S
                 /\ Cardinality(T \ {Pick(T)}) = Cardinality(T) - 1
      BY <1>0, <2>2, FS_RemoveElement DEF Pick
    <2>3. h \in [SUBSET S -> V]
      <3>1. ASSUME NEW T \in SUBSET S PROVE Turn(g, T) \in V
        <4>1. CASE T # {}
          <5>1. Pick(T) \in S /\ g[T \ {Pick(T)}] \in V
            BY <2>2, <4>1
          <5> QED BY <4>1, <5>1
        <4> QED BY <4>1
      <3> HIDE DEF Turn
      <3> QED BY <3>1
    <2>4. ASSUME NEW T \in Upto(n + 1) PROVE h[T] = Turn(h, T)
      <3>1. CASE T = {}
        BY <3>1
      <3>2. CASE T # {}
        <4>1. T \ {Pick(T)} \in Upto(n) /\ T \in SUBSET S
          BY <1>0, <2>2, <2>4, <3>2
        <4>2. h[T \ {Pick(T)}] = g[T \ {Pick(T)}]
          BY <2>1, <4>1
        <4>3. h[T] = Turn(g, T)
          BY <4>1
        <4> HIDE DEF h, Upto
        <4> QED BY <4>2, <4>3
      <3> QED BY <3>1, <3>2
    <2> HIDE DEF h, Upto, Turn
    <2> QED BY <2>3, <2>4
  <1>3. Nat \subseteq G
    <2> HIDE DEF G
    <2> QED BY <1>1, <1>2, NatInductionSet
  <1>4. Cardinality(S) \in G
    BY <1>0, <1>3
  <1>5. PICK g \in [SUBSET S -> V] : \A T \in Upto(Cardinality(S)) : g[T] = Turn(g, T)
    BY <1>4
  <1>6. \A T \in SUBSET S : T \in Upto(Cardinality(S))
    BY FS_Subset
  <1> QED BY <1>5, <1>6 DEF Folds

\* What a coupon put into an array keeps, in whatever order, holds when all are put
\* in.
LEMMA ArrayUpdatesInduct ==
  ASSUME NEW C, IsFiniteSet(C), NEW V, NEW h \in V, \A c \in C, u \in V : ArrayUpdate(u, c) \in V,
         NEW R, <<{}, h>> \in R,
         \A T \in SUBSET C : \A c \in C \ T : \A u \in V :
            <<T, u>> \in R => <<T \cup {c}, ArrayUpdate(u, c)>> \in R
  PROVE  ArrayUpdates(h, C) \in V /\ <<C, ArrayUpdates(h, C)>> \in R
  <1> DEFINE Turn(g, T) == IF T = {} THEN h ELSE ArrayUpdate(g[T \ {Pick(T)}], Pick(T))
             step == [c \in C |-> [u \in V |-> ArrayUpdate(u, c)]]
             iter == CHOOSE g : g = [T \in SUBSET C |-> Turn(g, T)]
  <1>0. ASSUME NEW T \in SUBSET C, T # {}
        PROVE  Pick(T) \in T /\ T \ {Pick(T)} \in SUBSET C /\ (T \ {Pick(T)}) \cup {Pick(T)} = T
    BY <1>0 DEF Pick
  <1>1. step \in [C -> [V -> V]]
    OBVIOUS
  <1>2. PICK g : Folds(g, C, V, h, step)
    <2> HIDE DEF step
    <2> QED BY <1>1, FoldExists
  <1>3. \A T \in SUBSET C : g[T] = Turn(g, T)
    <2> TAKE T \in SUBSET C
    <2>1. CASE T # {}
      <3>1. Pick(T) \in C /\ g[T \ {Pick(T)}] \in V
        BY <1>0, <1>2, <2>1 DEF Folds
      <3>2. step[Pick(T)][g[T \ {Pick(T)}]] = ArrayUpdate(g[T \ {Pick(T)}], Pick(T))
        BY <3>1
      <3> QED BY <1>2, <2>1, <3>2 DEF Folds
    <2> QED BY <1>2, <2>1 DEF Folds
  <1>4. g = [T \in SUBSET C |-> Turn(g, T)]
    <2>1. g \in [SUBSET C -> V]
      BY <1>2 DEF Folds
    <2> HIDE DEF Turn
    <2> QED BY <1>3, <2>1
  <1>5. iter = [T \in SUBSET C |-> Turn(iter, T)]
    BY <1>4
  <1>6. ArrayUpdates(h, C) = iter[C]
    BY DEF ArrayUpdates, FoldSet, MapThenFoldSet, Pick
  <1> HIDE DEF iter
  <1> DEFINE G == {T \in SUBSET C : iter[T] \in V /\ <<T, iter[T]>> \in R}
  <1>7. ASSUME NEW T \in SUBSET C, \A x \in T : T \ {x} \in G PROVE T \in G
    <2>1. iter[T] = Turn(iter, T)
      BY <1>5
    <2>2. CASE T = {}
      BY <2>1, <2>2
    <2>3. CASE T # {}
      <3> DEFINE c == Pick(T)
                 U == T \ {c}
                 u == iter[U]
      <3>1. c \in C \ U /\ U \in SUBSET C /\ U \cup {c} = T /\ U \in G
        BY <1>0, <1>7, <2>3
      <3>2. u \in V /\ <<U, u>> \in R /\ iter[T] = ArrayUpdate(u, c)
        BY <2>1, <2>3, <3>1
      <3> HIDE DEF c, U, u, G
      <3>3. <<U \cup {c}, ArrayUpdate(u, c)>> \in R /\ ArrayUpdate(u, c) \in V
        BY <3>1, <3>2
      <3> QED BY <3>1, <3>2, <3>3 DEF G
    <2> QED BY <2>2, <2>3
  <1>8. C \in G
    <2> HIDE DEF G
    <2> QED BY <1>7, SetInduction
  <1> QED BY <1>6, <1>8

\* The same of coupons put into a SET.
LEMMA InsertionsInduct ==
  ASSUME NEW C, IsFiniteSet(C), NEW V, NEW h \in V, \A c \in C, u \in V : Inserted(u, c) \in V,
         NEW R, <<{}, h>> \in R,
         \A T \in SUBSET C : \A c \in C \ T : \A u \in V :
            <<T, u>> \in R => <<T \cup {c}, Inserted(u, c)>> \in R
  PROVE  Insertions(h, C) \in V /\ <<C, Insertions(h, C)>> \in R
  <1> DEFINE Turn(g, T) == IF T = {} THEN h ELSE Inserted(g[T \ {Pick(T)}], Pick(T))
             step == [c \in C |-> [u \in V |-> Inserted(u, c)]]
             iter == CHOOSE g : g = [T \in SUBSET C |-> Turn(g, T)]
  <1>0. ASSUME NEW T \in SUBSET C, T # {}
        PROVE  Pick(T) \in T /\ T \ {Pick(T)} \in SUBSET C /\ (T \ {Pick(T)}) \cup {Pick(T)} = T
    BY <1>0 DEF Pick
  <1>1. step \in [C -> [V -> V]]
    OBVIOUS
  <1>2. PICK g : Folds(g, C, V, h, step)
    <2> HIDE DEF step
    <2> QED BY <1>1, FoldExists
  <1>3. \A T \in SUBSET C : g[T] = Turn(g, T)
    <2> TAKE T \in SUBSET C
    <2>1. CASE T # {}
      <3>1. Pick(T) \in C /\ g[T \ {Pick(T)}] \in V
        BY <1>0, <1>2, <2>1 DEF Folds
      <3>2. step[Pick(T)][g[T \ {Pick(T)}]] = Inserted(g[T \ {Pick(T)}], Pick(T))
        BY <3>1
      <3> QED BY <1>2, <2>1, <3>2 DEF Folds
    <2> QED BY <1>2, <2>1 DEF Folds
  <1>4. g = [T \in SUBSET C |-> Turn(g, T)]
    <2>1. g \in [SUBSET C -> V]
      BY <1>2 DEF Folds
    <2> HIDE DEF Turn
    <2> QED BY <1>3, <2>1
  <1>5. iter = [T \in SUBSET C |-> Turn(iter, T)]
    BY <1>4
  <1>6. Insertions(h, C) = iter[C]
    BY DEF Insertions, FoldSet, MapThenFoldSet, Pick
  <1> HIDE DEF iter
  <1> DEFINE G == {T \in SUBSET C : iter[T] \in V /\ <<T, iter[T]>> \in R}
  <1>7. ASSUME NEW T \in SUBSET C, \A x \in T : T \ {x} \in G PROVE T \in G
    <2>1. iter[T] = Turn(iter, T)
      BY <1>5
    <2>2. CASE T = {}
      BY <2>1, <2>2
    <2>3. CASE T # {}
      <3> DEFINE c == Pick(T)
                 U == T \ {c}
                 u == iter[U]
      <3>1. c \in C \ U /\ U \in SUBSET C /\ U \cup {c} = T /\ U \in G
        BY <1>0, <1>7, <2>3
      <3>2. u \in V /\ <<U, u>> \in R /\ iter[T] = Inserted(u, c)
        BY <2>1, <2>3, <3>1
      <3> HIDE DEF c, U, u, G
      <3>3. <<U \cup {c}, Inserted(u, c)>> \in R /\ Inserted(u, c) \in V
        BY <3>1, <3>2
      <3> QED BY <3>1, <3>2, <3>3 DEF G
    <2> QED BY <2>2, <2>3
  <1>8. C \in G
    <2> HIDE DEF G
    <2> QED BY <1>7, SetInduction
  <1> QED BY <1>6, <1>8

\* The same of coupons put into a sketch of any mode.
LEMMA CouponUpdatesInduct ==
  ASSUME NEW C, IsFiniteSet(C), NEW V, NEW h \in V, \A c \in C, u \in V : CouponUpdate(u, c) \in V,
         NEW R, <<{}, h>> \in R,
         \A T \in SUBSET C : \A c \in C \ T : \A u \in V :
            <<T, u>> \in R => <<T \cup {c}, CouponUpdate(u, c)>> \in R
  PROVE  CouponUpdates(h, C) \in V /\ <<C, CouponUpdates(h, C)>> \in R
  <1> DEFINE Turn(g, T) == IF T = {} THEN h ELSE CouponUpdate(g[T \ {Pick(T)}], Pick(T))
             step == [c \in C |-> [u \in V |-> CouponUpdate(u, c)]]
             iter == CHOOSE g : g = [T \in SUBSET C |-> Turn(g, T)]
  <1>0. ASSUME NEW T \in SUBSET C, T # {}
        PROVE  Pick(T) \in T /\ T \ {Pick(T)} \in SUBSET C /\ (T \ {Pick(T)}) \cup {Pick(T)} = T
    BY <1>0 DEF Pick
  <1>1. step \in [C -> [V -> V]]
    OBVIOUS
  <1>2. PICK g : Folds(g, C, V, h, step)
    <2> HIDE DEF step
    <2> QED BY <1>1, FoldExists
  <1>3. \A T \in SUBSET C : g[T] = Turn(g, T)
    <2> TAKE T \in SUBSET C
    <2>1. CASE T # {}
      <3>1. Pick(T) \in C /\ g[T \ {Pick(T)}] \in V
        BY <1>0, <1>2, <2>1 DEF Folds
      <3>2. step[Pick(T)][g[T \ {Pick(T)}]] = CouponUpdate(g[T \ {Pick(T)}], Pick(T))
        BY <3>1
      <3> QED BY <1>2, <2>1, <3>2 DEF Folds
    <2> QED BY <1>2, <2>1 DEF Folds
  <1>4. g = [T \in SUBSET C |-> Turn(g, T)]
    <2>1. g \in [SUBSET C -> V]
      BY <1>2 DEF Folds
    <2> HIDE DEF Turn
    <2> QED BY <1>3, <2>1
  <1>5. iter = [T \in SUBSET C |-> Turn(iter, T)]
    BY <1>4
  <1>6. CouponUpdates(h, C) = iter[C]
    BY DEF CouponUpdates, FoldSet, MapThenFoldSet, Pick
  <1> HIDE DEF iter
  <1> DEFINE G == {T \in SUBSET C : iter[T] \in V /\ <<T, iter[T]>> \in R}
  <1>7. ASSUME NEW T \in SUBSET C, \A x \in T : T \ {x} \in G PROVE T \in G
    <2>1. iter[T] = Turn(iter, T)
      BY <1>5
    <2>2. CASE T = {}
      BY <2>1, <2>2
    <2>3. CASE T # {}
      <3> DEFINE c == Pick(T)
                 U == T \ {c}
                 u == iter[U]
      <3>1. c \in C \ U /\ U \in SUBSET C /\ U \cup {c} = T /\ U \in G
        BY <1>0, <1>7, <2>3
      <3>2. u \in V /\ <<U, u>> \in R /\ iter[T] = CouponUpdate(u, c)
        BY <2>1, <2>3, <3>1
      <3> HIDE DEF c, U, u, G
      <3>3. <<U \cup {c}, CouponUpdate(u, c)>> \in R /\ CouponUpdate(u, c) \in V
        BY <3>1, <3>2
      <3> QED BY <3>1, <3>2, <3>3 DEF G
    <2> QED BY <2>2, <2>3
  <1>8. C \in G
    <2> HIDE DEF G
    <2> QED BY <1>7, SetInduction
  <1> QED BY <1>6, <1>8

----------------------------------------------------------------------------
(* Arrays and the values they encode *)

AuxMaps(k) == UNION {[S -> Nat] : S \in SUBSET Slots(k)}

Arrays(k) ==
  [mode : {"HLL"}, lgK : {k}, type : HllTypes, coupons : {{}}, lgArr : {0},
   array : [Slots(k) -> Nat], aux : AuxMaps(k), curMin : Nat, numAtCurMin : Int,
   kxq0 : Int, kxq1 : Int, hip : BOOLEAN, ooo : BOOLEAN, rebuild : BOOLEAN, err : {FALSE}]

Excess(h, v) ==
  [s \in Slots(h.lgK) |-> IF v[s] - h.curMin < AUX_TOKEN THEN v[s] - h.curMin ELSE AUX_TOKEN]
Exceptional(h, v) == {s \in Slots(h.lgK) : v[s] - h.curMin >= AUX_TOKEN}

Encodes(h, v) ==
  /\ v \in [Slots(h.lgK) -> 0..MAX_VALUE]
  /\ \A s \in Slots(h.lgK) : h.curMin <= v[s]
  /\ IF h.type = "HLL_4"
     THEN h.array = Excess(h, v) /\ h.aux = [s \in Exceptional(h, v) |-> v[s]]
     ELSE h.array = v /\ h.aux = <<>> /\ h.curMin = 0

AtMin(h, v) == {s \in Slots(h.lgK) : v[s] = h.curMin}

SharesOf(v, low, high) == SumFunction([s \in DOMAIN v |-> Share(v[s], low, high)])

Summed(h, v) ==
  /\ h.numAtCurMin = Cardinality(AtMin(h, v))
  /\ h.kxq0 = SharesOf(v, 0, SPLIT - 1) /\ h.kxq1 = SharesOf(v, SPLIT, MAX_VALUE)

Shiftable(h, v) == h.lgK \in Nat /\ h \in Arrays(h.lgK) /\ Encodes(h, v) /\ Summed(h, v)

Array(h, v) == Shiftable(h, v) /\ (h.type = "HLL_4" => h.numAtCurMin # 0)

\* What an update of an array leaves alone; the HIP accumulator grows in order only.
Kept(g, h) ==
  /\ g.lgK = h.lgK /\ g.type = h.type /\ g.ooo = h.ooo /\ g.rebuild = h.rebuild
  /\ h.hip => g.hip
  /\ h.ooo => g.hip = h.hip

\* The constants.
LEMMA ConstantFacts ==
  /\ Coupon \subseteq Nat \X (1..MAX_VALUE)
  /\ MAX_VALUE \in Nat /\ SPLIT \in Nat /\ SPLIT >= 1
  /\ AUX_TOKEN \in Nat /\ AUX_TOKEN >= 2
  /\ LG_INIT_LIST_SIZE \in Nat /\ LG_INIT_SET_SIZE \in Nat /\ MIN_SET_LG_K \in Nat /\ SET_MARGIN \in Nat
  /\ LG_INIT_LIST_SIZE <= LG_INIT_SET_SIZE /\ LG_INIT_SET_SIZE + SET_MARGIN <= MIN_SET_LG_K
  BY HLLAssumption

\* An array has 2^k slots.
LEMMA SlotsFinite ==
  ASSUME NEW k \in Nat
  PROVE  /\ IsFiniteSet(Slots(k)) /\ Cardinality(Slots(k)) = Power2(k) /\ Power2(k) \in Nat \ {0}
         /\ Slots(k) \subseteq Nat /\ 0 \in Slots(k)
  <1>1. Power2(k) \in Nat \ {0}
    BY PowerFacts
  <1>2. Slots(k) = 0..(Power2(k) - 1)
    BY DEF Slots
  <1>3. Cardinality(0..(Power2(k) - 1)) = Power2(k)
    BY <1>1, FS_Interval
  <1>4. IsFiniteSet(0..(Power2(k) - 1))
    BY <1>1, FS_Interval
  <1> QED BY <1>1, <1>2, <1>3, <1>4

\* What the fields of an array say of the values they encode: the exceptions are in
\* the map, and only they.
LEMMA EncodesFacts ==
  ASSUME NEW h, NEW v, h.lgK \in Nat, h \in Arrays(h.lgK), Encodes(h, v)
  PROVE  /\ DOMAIN h.array = Slots(h.lgK)
         /\ \A s \in Slots(h.lgK) : ValueOf(h, s) = v[s]
         /\ Tokens(h) = DOMAIN h.aux /\ Lost(h) = {}
         /\ h.type = "HLL_4" => DOMAIN h.aux = Exceptional(h, v)
         /\ h.type # "HLL_4" => DOMAIN h.aux = {}
         /\ h.curMin \in Nat
  <1>0. h.curMin \in Nat /\ \A s \in Slots(h.lgK) : v[s] \in Nat /\ h.curMin <= v[s]
    BY ConstantFacts DEF Arrays, Encodes
  <1>1. CASE h.type = "HLL_4"
    <2>1. h.array = Excess(h, v) /\ h.aux = [s \in Exceptional(h, v) |-> v[s]]
      BY <1>1 DEF Encodes
    <2>2. DOMAIN h.array = Slots(h.lgK) /\ DOMAIN h.aux = Exceptional(h, v)
      BY <2>1 DEF Excess
    <2>3. \A s \in Slots(h.lgK) :
            h.array[s] = IF v[s] - h.curMin < AUX_TOKEN THEN v[s] - h.curMin ELSE AUX_TOKEN
      BY <2>1 DEF Excess
    <2>4. \A s \in Slots(h.lgK) : h.array[s] = AUX_TOKEN <=> s \in Exceptional(h, v)
      BY <1>0, <2>3, ConstantFacts DEF Exceptional
    <2>5. Tokens(h) = Exceptional(h, v)
      BY <1>1, <2>2, <2>4 DEF Tokens, Exceptional
    <2>6. ASSUME NEW s \in Slots(h.lgK) PROVE ValueOf(h, s) = v[s]
      <3>1. CASE s \in Exceptional(h, v)
        BY <2>1, <2>2, <2>5, <3>1 DEF ValueOf
      <3>2. CASE s \notin Exceptional(h, v)
        <4>1. h.array[s] = v[s] - h.curMin
          BY <1>0, <2>3, <3>2, ConstantFacts DEF Exceptional
        <4> QED BY <1>0, <2>5, <3>2, <4>1 DEF ValueOf
      <3> QED BY <3>1, <3>2
    <2> QED BY <1>0, <1>1, <2>2, <2>5, <2>6 DEF Lost
  <1>2. CASE h.type # "HLL_4"
    <2>1. h.array = v /\ h.aux = <<>> /\ h.curMin = 0 /\ v \in [Slots(h.lgK) -> 0..MAX_VALUE]
      BY <1>2 DEF Encodes
    <2>2. Tokens(h) = {} /\ DOMAIN h.aux = {}
      BY <1>2, <2>1 DEF Tokens
    <2>3. \A s \in Slots(h.lgK) : ValueOf(h, s) = v[s]
      BY <1>0, <2>1, <2>2 DEF ValueOf
    <2> QED BY <1>0, <1>2, <2>1, <2>2, <2>3 DEF Lost
  <1> QED BY <1>1, <1>2

\* Shares are integers.
LEMMA ShareType ==
  ASSUME NEW x, x \in 0..MAX_VALUE, NEW low, NEW high
  PROVE  Share(x, low, high) \in Int
  <1>1. MAX_VALUE - x \in Nat
    BY ConstantFacts
  <1>2. Power2(MAX_VALUE - x) \in Int
    BY <1>1, PowerFacts
  <1> QED BY <1>2 DEF Share, Inverse2

With(v, s, x) == [v EXCEPT ![s] = x]

\* One register more or less changes a sum by the difference of its shares.
LEMMA SharesChange ==
  ASSUME NEW k \in Nat, NEW v \in [Slots(k) -> 0..MAX_VALUE], NEW s \in Slots(k), NEW x \in 0..MAX_VALUE,
         NEW low, NEW high
  PROVE  /\ SharesOf(With(v, s, x), low, high)
              = SharesOf(v, low, high) + (Share(x, low, high) - Share(v[s], low, high))
         /\ SharesOf(v, low, high) \in Int
  <1> DEFINE w == [v EXCEPT ![s] = x]
             f == [i \in Slots(k) |-> Share(v[i], low, high)]
             g == [i \in Slots(k) |-> Share(w[i], low, high)]
  <1>1. w \in [Slots(k) -> 0..MAX_VALUE] /\ w[s] = x /\ \A i \in Slots(k) : i # s => w[i] = v[i]
    OBVIOUS
  <1> HIDE DEF w
  <1>2. DOMAIN w = Slots(k) /\ DOMAIN v = Slots(k)
    BY <1>1
  <1>3. SharesOf(v, low, high) = SumOver(f, Slots(k)) /\ SharesOf(w, low, high) = SumOver(g, Slots(k))
    BY <1>2 DEF SharesOf, SumFunction, SumFunctionOnSet, SumOver
  <1>4. \A i \in Slots(k) : f[i] \in Int /\ g[i] \in Int /\ (i # s => g[i] = f[i])
    <2> TAKE i \in Slots(k)
    <2>1. v[i] \in 0..MAX_VALUE /\ w[i] \in 0..MAX_VALUE
      BY <1>1
    <2>2. Share(v[i], low, high) \in Int /\ Share(w[i], low, high) \in Int
      BY <2>1, ShareType
    <2> QED BY <1>1, <2>2
  <1>5. f[s] = Share(v[s], low, high) /\ g[s] = Share(x, low, high)
    BY <1>1
  <1>6. IsFiniteSet(Slots(k))
    BY SlotsFinite
  <1> HIDE DEF f, g
  <1>7. SumOver(g, Slots(k)) = SumOver(f, Slots(k)) + (g[s] - f[s])
    <2>1. OneChange(f, g, Slots(k), s)
      BY <1>4, <1>6 DEF OneChange
    <2> QED BY <2>1, SumOneChange
  <1>8. SumOver(f, Slots(k)) \in Int
    BY <1>4, <1>6, SumType
  <1> QED BY <1>3, <1>5, <1>7, <1>8 DEF w, With

\* The updates of kxq0, kxq1 and the HIP accumulator.
LEMMA KxQFacts ==
  ASSUME NEW h, NEW k \in Nat, h \in Arrays(k), NEW old, NEW new, old \in 0..MAX_VALUE, new \in 0..MAX_VALUE
  PROVE  LET g == KxQ(h, old, new) IN
         /\ g \in Arrays(k) /\ g.lgK = h.lgK /\ g.type = h.type /\ g.ooo = h.ooo /\ g.rebuild = h.rebuild
         /\ g.array = h.array /\ g.aux = h.aux /\ g.curMin = h.curMin /\ g.numAtCurMin = h.numAtCurMin
         /\ g.hip = (h.hip \/ ~h.ooo)
         /\ g.kxq0 = h.kxq0 + (Share(new, 0, SPLIT - 1) - Share(old, 0, SPLIT - 1))
         /\ g.kxq1 = h.kxq1 + (Share(new, SPLIT, MAX_VALUE) - Share(old, SPLIT, MAX_VALUE))
  <1> DEFINE a == h.kxq0 + (Share(new, 0, SPLIT - 1) - Share(old, 0, SPLIT - 1))
             b == h.kxq1 + (Share(new, SPLIT, MAX_VALUE) - Share(old, SPLIT, MAX_VALUE))
             p == (h.hip \/ ~h.ooo)
  <1>1. a \in Int /\ b \in Int
    <2>1. h.kxq0 \in Int /\ h.kxq1 \in Int
      BY DEF Arrays
    <2>2. /\ Share(new, 0, SPLIT - 1) \in Int /\ Share(old, 0, SPLIT - 1) \in Int
          /\ Share(new, SPLIT, MAX_VALUE) \in Int /\ Share(old, SPLIT, MAX_VALUE) \in Int
      BY ShareType
    <2> QED BY <2>1, <2>2
  <1>2. p \in BOOLEAN
    OBVIOUS
  <1>3. KxQ(h, old, new) = [h EXCEPT !.hip = p, !.kxq0 = a, !.kxq1 = b]
    BY DEF KxQ
  <1> HIDE DEF a, b, p
  <1> DEFINE g == [h EXCEPT !.hip = p, !.kxq0 = a, !.kxq1 = b]
  <1>4. g \in Arrays(k)
    BY <1>1, <1>2 DEF Arrays
  <1>5. /\ g.lgK = h.lgK /\ g.type = h.type /\ g.ooo = h.ooo /\ g.rebuild = h.rebuild
        /\ g.array = h.array /\ g.aux = h.aux /\ g.curMin = h.curMin /\ g.numAtCurMin = h.numAtCurMin
        /\ g.hip = p /\ g.kxq0 = a /\ g.kxq1 = b
    BY DEF Arrays
  <1> QED BY <1>3, <1>4, <1>5 DEF a, b, p

----------------------------------------------------------------------------
(* Storing a register of an HLL_4 array *)

\* All fields but the registers and the summaries
Frame(g, h) ==
  /\ g.lgK = h.lgK /\ g.type = h.type /\ g.hip = h.hip /\ g.ooo = h.ooo /\ g.rebuild = h.rebuild
  /\ g.kxq0 = h.kxq0 /\ g.kxq1 = h.kxq1

\* An HLL_4 array with the registers w
WithRegisters(h, w) == [h EXCEPT !.array = Excess(h, w), !.aux = [s \in Exceptional(h, w) |-> w[s]]]

\* An HLL_4 array with other registers encodes them.
LEMMA RegistersSet ==
  ASSUME NEW k \in Nat, NEW h \in Arrays(k), h.type = "HLL_4", NEW w \in [Slots(k) -> 0..MAX_VALUE],
         \A s \in Slots(k) : h.curMin <= w[s]
  PROVE  /\ WithRegisters(h, w) \in Arrays(k) /\ Encodes(WithRegisters(h, w), w)
         /\ Frame(WithRegisters(h, w), h)
         /\ WithRegisters(h, w).curMin = h.curMin /\ WithRegisters(h, w).numAtCurMin = h.numAtCurMin
  <1> DEFINE a == Excess(h, w)
             b == [s \in Exceptional(h, w) |-> w[s]]
             g == [h EXCEPT !.array = a, !.aux = b]
  <1>1. h.lgK = k /\ h.curMin \in Nat
    BY DEF Arrays
  <1>2. a \in [Slots(k) -> Nat]
    <2>1. \A s \in Slots(k) : (IF w[s] - h.curMin < AUX_TOKEN THEN w[s] - h.curMin ELSE AUX_TOKEN) \in Nat
      BY <1>1, ConstantFacts
    <2> QED BY <1>1, <2>1 DEF Excess
  <1>3. b \in AuxMaps(k)
    <2>1. Exceptional(h, w) \in SUBSET Slots(k)
      BY <1>1 DEF Exceptional
    <2>2. \A s \in Exceptional(h, w) : w[s] \in Nat
      BY <2>1
    <2>3. b \in [Exceptional(h, w) -> Nat]
      BY <2>2
    <2> QED BY <2>1, <2>3 DEF AuxMaps
  <1>4. g \in Arrays(k)
    <2> HIDE DEF a, b
    <2> QED BY <1>2, <1>3 DEF Arrays
  <1>5. /\ g.lgK = h.lgK /\ g.type = h.type /\ g.hip = h.hip /\ g.ooo = h.ooo /\ g.rebuild = h.rebuild
        /\ g.kxq0 = h.kxq0 /\ g.kxq1 = h.kxq1
        /\ g.curMin = h.curMin /\ g.numAtCurMin = h.numAtCurMin /\ g.array = a /\ g.aux = b
    <2> HIDE DEF a, b
    <2> QED BY DEF Arrays
  <1> HIDE DEF g
  <1>6. Excess(g, w) = Excess(h, w) /\ Exceptional(g, w) = Exceptional(h, w)
    BY <1>5 DEF Excess, Exceptional
  <1>7. Encodes(g, w)
    BY <1>1, <1>5, <1>6 DEF Encodes
  <1> QED BY <1>4, <1>5, <1>7 DEF g, Frame, WithRegisters

\* internalHll4Update() stores the value, in the nibble or in the map, in all four
\* cases, and none of them throws.
LEMMA StoredFacts ==
  ASSUME NEW k \in Nat, NEW h \in Arrays(k), NEW v, Encodes(h, v), h.type = "HLL_4",
         NEW s \in Slots(k), NEW x \in Nat, x <= MAX_VALUE, v[s] < x
  PROVE  /\ Stored(h, s, x) \in Arrays(k) /\ Encodes(Stored(h, s, x), With(v, s, x)) /\ Frame(Stored(h, s, x), h)
         /\ Stored(h, s, x).curMin = h.curMin /\ Stored(h, s, x).numAtCurMin = h.numAtCurMin
  <1> DEFINE w == [v EXCEPT ![s] = x]
             q == h.curMin
  <1>0. h.lgK = k /\ q \in Nat
    BY DEF Arrays
  <1>1. /\ v \in [Slots(k) -> 0..MAX_VALUE] /\ \A i \in Slots(k) : q <= v[i]
        /\ h.array = Excess(h, v) /\ h.aux = [i \in Exceptional(h, v) |-> v[i]]
    BY <1>0 DEF Encodes
  <1>2. /\ w \in [Slots(k) -> 0..MAX_VALUE] /\ w[s] = x /\ \A i \in Slots(k) : i # s => w[i] = v[i]
        /\ \A i \in Slots(k) : w[i] \in Int /\ v[i] \in Int
    BY <1>1, ConstantFacts
  <1>3. q < x /\ \A i \in Slots(k) : q <= w[i]
    <2>1. q <= v[s] /\ v[s] \in Int
      BY <1>1, <1>2
    <2>2. q < x
      BY <1>0, <2>1
    <2> QED BY <1>0, <1>1, <1>2, <2>2
  <1> HIDE DEF w
  <1>4. Tokens(h) = Exceptional(h, v) /\ DOMAIN h.aux = Exceptional(h, v)
    BY <1>0, EncodesFacts
  <1>5. /\ s \in Exceptional(h, v) <=> v[s] - q >= AUX_TOKEN
        /\ s \in Exceptional(h, w) <=> x - q >= AUX_TOKEN
        /\ \A i \in Slots(k) : i # s => (i \in Exceptional(h, w) <=> i \in Exceptional(h, v))
        /\ Exceptional(h, w) \subseteq Slots(k) /\ Exceptional(h, v) \subseteq Slots(k)
    BY <1>0, <1>2 DEF Exceptional
  <1>6. /\ h.array \in [Slots(k) -> Nat]
        /\ \A i \in Slots(k) : h.array[i] = IF v[i] - q < AUX_TOKEN THEN v[i] - q ELSE AUX_TOKEN
        /\ h.aux = [i \in Exceptional(h, v) |-> v[i]]
    BY <1>0, <1>1 DEF Excess, Arrays
  <1>7. /\ Excess(h, w) = [i \in Slots(k) |-> IF w[i] - q < AUX_TOKEN THEN w[i] - q ELSE AUX_TOKEN]
    BY <1>0 DEF Excess
  <1>8. Stored(h, s, x) = WithRegisters(h, w)
    <2>0. AUX_TOKEN \in Nat /\ v[s] \in Int /\ x \in Int /\ q \in Int /\ x - q \in Int /\ v[s] - q < x - q
      BY <1>0, <1>2, ConstantFacts
    <2>1. CASE x - q < AUX_TOKEN
      <3> DEFINE a == [h.array EXCEPT ![s] = x - q]
      <3>1. s \notin Tokens(h)
        BY <1>4, <1>5, <2>0, <2>1
      <3>2. Stored(h, s, x) = [h EXCEPT !.array[s] = x - q]
        BY <2>1, <3>1 DEF Stored
      <3>3. [h EXCEPT !.array[s] = x - q] = [h EXCEPT !.array = a, !.aux = h.aux]
        BY DEF Arrays
      <3>4. a = Excess(h, w)
        BY <1>2, <1>6, <1>7, <2>1
      <3>5. Exceptional(h, w) = Exceptional(h, v) /\ s \notin Exceptional(h, v)
        <4>1. ~(v[s] - q >= AUX_TOKEN) /\ ~(x - q >= AUX_TOKEN)
          BY <2>0, <2>1
        <4>2. s \notin Exceptional(h, v) /\ s \notin Exceptional(h, w)
          BY <1>5, <4>1
        <4> QED BY <1>5, <4>2
      <3>6. h.aux = [i \in Exceptional(h, w) |-> w[i]]
        BY <1>2, <1>5, <1>6, <3>5
      <3> QED BY <3>2, <3>3, <3>4, <3>6 DEF WithRegisters
    <2>2. CASE x - q >= AUX_TOKEN /\ s \in Tokens(h)
      <3> DEFINE b == [h.aux EXCEPT ![s] = x]
      <3>1. Stored(h, s, x) = [h EXCEPT !.aux[s] = x]
        BY <2>0, <2>2 DEF Stored
      <3>2. [h EXCEPT !.aux[s] = x] = [h EXCEPT !.array = h.array, !.aux = b]
        BY DEF Arrays
      <3>3. Exceptional(h, w) = Exceptional(h, v) /\ s \in Exceptional(h, v)
        BY <1>4, <1>5, <2>2
      <3>4. h.array = Excess(h, w)
        <4>1. \A i \in Slots(k) : h.array[i] = IF w[i] - q < AUX_TOKEN THEN w[i] - q ELSE AUX_TOKEN
          <5> TAKE i \in Slots(k)
          <5>1. CASE i = s
            BY <1>2, <1>5, <1>6, <2>0, <2>2, <3>3, <5>1
          <5>2. CASE i # s
            BY <1>2, <1>6, <5>2
          <5> QED BY <5>1, <5>2
        <4> QED BY <1>6, <1>7, <4>1
      <3>5. b = [i \in Exceptional(h, w) |-> w[i]]
        BY <1>2, <1>5, <1>6, <3>3
      <3> QED BY <3>1, <3>2, <3>4, <3>5 DEF WithRegisters
    <2>3. CASE x - q >= AUX_TOKEN /\ s \notin Tokens(h)
      <3> DEFINE a == [h.array EXCEPT ![s] = AUX_TOKEN]
                 b == [i \in {s} \cup DOMAIN h.aux |-> IF i = s THEN x ELSE h.aux[i]]
      <3>1. s \notin DOMAIN h.aux
        BY <1>4, <2>3
      <3>2. Stored(h, s, x) = [h EXCEPT !.array[s] = AUX_TOKEN,
                                        !.aux = [i \in {s} \cup DOMAIN @ |-> IF i = s THEN x ELSE @[i]]]
        BY <2>0, <2>3, <3>1 DEF Stored
      <3>3. [h EXCEPT !.array[s] = AUX_TOKEN,
                      !.aux = [i \in {s} \cup DOMAIN @ |-> IF i = s THEN x ELSE @[i]]]
              = [h EXCEPT !.array = a, !.aux = b]
        BY DEF Arrays
      <3>4. a = Excess(h, w)
        BY <1>2, <1>6, <1>7, <2>0, <2>3
      <3>5. {s} \cup DOMAIN h.aux = Exceptional(h, w)
        BY <1>4, <1>5, <2>3
      <3>6. b = [i \in Exceptional(h, w) |-> w[i]]
        BY <1>2, <1>4, <1>5, <1>6, <3>1, <3>5
      <3> QED BY <3>2, <3>3, <3>4, <3>6 DEF WithRegisters
    <2>4. x - q < AUX_TOKEN \/ x - q >= AUX_TOKEN
      BY <2>0
    <2> QED BY <2>1, <2>2, <2>3, <2>4, Zenon
  <1> DEFINE r == WithRegisters(h, w)
  <1>9. /\ r \in Arrays(k) /\ Encodes(r, w) /\ Frame(r, h)
        /\ r.curMin = h.curMin /\ r.numAtCurMin = h.numAtCurMin
    <2>1. w \in [Slots(k) -> 0..MAX_VALUE]
      BY <1>2
    <2>2. \A i \in Slots(k) : h.curMin <= w[i]
      BY <1>3
    <2> QED BY <2>1, <2>2, RegistersSet
  <1> HIDE DEF r
  <1> QED BY <1>8, <1>9 DEF w, r, With

----------------------------------------------------------------------------
(* Shifting curMin *)

\* The slots at curMin are finitely many.
LEMMA AtMinFinite ==
  ASSUME NEW k \in Nat, NEW h, h.lgK = k, NEW v
  PROVE  /\ IsFiniteSet(AtMin(h, v)) /\ Cardinality(AtMin(h, v)) \in Nat
         /\ Cardinality(AtMin(h, v)) = 0 <=> AtMin(h, v) = {}
  <1>1. AtMin(h, v) \subseteq Slots(k)
    BY DEF AtMin
  <1>2. IsFiniteSet(AtMin(h, v))
    BY <1>1, SlotsFinite, FS_Subset
  <1> QED BY <1>2, FS_CardinalityType, FS_EmptySet

\* shiftToBiggerCurMin() keeps the values and recounts the slots at the new minimum;
\* its checks succeed.
LEMMA ShiftFacts ==
  ASSUME NEW k \in Nat, NEW h \in Arrays(k), NEW v, Encodes(h, v), Summed(h, v),
         h.type = "HLL_4", h.numAtCurMin = 0
  PROVE  /\ ShiftToBiggerCurMin(h) \in Arrays(k)
         /\ Encodes(ShiftToBiggerCurMin(h), v) /\ Summed(ShiftToBiggerCurMin(h), v)
         /\ Frame(ShiftToBiggerCurMin(h), h)
         /\ ShiftToBiggerCurMin(h).curMin = h.curMin + 1 /\ h.curMin < MAX_VALUE
  <1> DEFINE q == h.curMin
             released == {s \in DOMAIN h.aux : h.aux[s] - (h.curMin + 1) < AUX_TOKEN}
             kept == DOMAIN h.aux \ released
             lowered == [s \in DOMAIN h.array |->
                           IF s \in Tokens(h) \ released THEN AUX_TOKEN ELSE h.array[s] - 1]
             rest == [s \in kept |-> h.aux[s]]
             num == Cardinality({s \in DOMAIN lowered : lowered[s] = 0})
             g == [h EXCEPT !.curMin = @ + 1, !.array = lowered, !.aux = rest, !.numAtCurMin = num]
             Next4(s) == IF v[s] - (q + 1) < AUX_TOKEN THEN v[s] - (q + 1) ELSE AUX_TOKEN
             Over == {s \in Slots(k) : v[s] - (q + 1) >= AUX_TOKEN}
  <1>0. h.lgK = k /\ q \in Nat
    BY DEF Arrays
  <1>1. /\ v \in [Slots(k) -> 0..MAX_VALUE] /\ \A i \in Slots(k) : q <= v[i] /\ v[i] \in Int
        /\ h.array = Excess(h, v) /\ h.aux = [i \in Exceptional(h, v) |-> v[i]]
    BY <1>0 DEF Encodes
  <1>2. \A i \in Slots(k) : q < v[i]
    <2>1. AtMin(h, v) = {}
      BY <1>0, AtMinFinite DEF Summed
    <2> QED BY <1>0, <1>1, <2>1 DEF AtMin
  <1>3. q < MAX_VALUE
    <2>1. 0 \in Slots(k)
      BY SlotsFinite
    <2>2. v[0] \in 0..MAX_VALUE /\ q < v[0]
      BY <1>1, <1>2, <2>1
    <2> QED BY <1>0, <2>2, ConstantFacts
  <1>4. /\ DOMAIN h.array = Slots(k) /\ DOMAIN h.aux = Exceptional(h, v)
        /\ Tokens(h) = Exceptional(h, v) /\ Exceptional(h, v) \subseteq Slots(k)
        /\ \A s \in Exceptional(h, v) : h.aux[s] = v[s]
        /\ \A s \in Slots(k) : h.array[s] = IF v[s] - q < AUX_TOKEN THEN v[s] - q ELSE AUX_TOKEN
        /\ \A s \in Slots(k) : s \in Exceptional(h, v) <=> v[s] - q >= AUX_TOKEN
    BY <1>0, <1>1, EncodesFacts DEF Excess, Exceptional
  <1>5. \A s \in Slots(k) : s \in released <=> v[s] - q = AUX_TOKEN
    <2>1. AUX_TOKEN \in Nat /\ AUX_TOKEN > 1
      BY ConstantFacts
    <2> QED BY <1>0, <1>1, <1>4, <2>1
  <1>6. released \subseteq Exceptional(h, v)
    BY <1>4
  <1> HIDE DEF released
  <1>7. kept = Over
    BY <1>0, <1>1, <1>4, <1>5, ConstantFacts
  <1>8. /\ DOMAIN lowered = Slots(k)
        /\ \A s \in Slots(k) : lowered[s] = Next4(s) /\ Next4(s) \in Nat
    <2>1. DOMAIN lowered = Slots(k)
      BY <1>4
    <2>2. ASSUME NEW s \in Slots(k) PROVE lowered[s] = Next4(s) /\ Next4(s) \in Nat
      <3>1. lowered[s] = IF s \in Exceptional(h, v) /\ s \notin released THEN AUX_TOKEN ELSE h.array[s] - 1
        BY <1>4
      <3> HIDE DEF lowered
      <3> QED BY <1>0, <1>1, <1>2, <1>4, <1>5, <3>1, ConstantFacts
    <2> QED BY <2>1, <2>2
  <1>9. ShiftIsSound(h, released)
    <2>1. \A s \in DOMAIN h.array : h.array[s] # 0
      BY <1>0, <1>1, <1>2, <1>4, ConstantFacts
    <2>2. Tokens(h) # {} => h.aux # <<>>
      BY <1>4
    <2>3. \A s \in DOMAIN h.aux : h.aux[s] > h.curMin /\ s \in Tokens(h)
      BY <1>0, <1>1, <1>2, <1>4
    <2>4. \A s \in released : h.aux[s] - h.curMin = AUX_TOKEN
      BY <1>4, <1>5, <1>6
    <2>5. DOMAIN h.aux \ released = Tokens(h) \ released
      BY <1>4
    <2> QED BY <2>1, <2>2, <2>3, <2>4, <2>5 DEF ShiftIsSound
  <1>10. ShiftToBiggerCurMin(h) = g
    BY <1>9 DEF ShiftToBiggerCurMin, released
  <1>11. lowered \in [Slots(k) -> Nat]
    <2>1. lowered = [s \in Slots(k) |-> lowered[s]]
      BY <1>4
    <2> HIDE DEF lowered
    <2> QED BY <1>8, <2>1
  <1>12. rest = [s \in Over |-> v[s]] /\ rest \in AuxMaps(k)
    <2>1. rest = [s \in Over |-> v[s]]
      BY <1>4, <1>7
    <2>2. Over \in SUBSET Slots(k) /\ \A s \in Over : v[s] \in Nat
      BY <1>1
    <2> HIDE DEF rest, Over
    <2>3. rest \in [Over -> Nat]
      BY <2>1, <2>2
    <2> QED BY <2>1, <2>2, <2>3 DEF AuxMaps
  <1>13. num = Cardinality({s \in Slots(k) : v[s] = q + 1}) /\ num \in Nat
    <2>1. \A s \in Slots(k) : lowered[s] = 0 <=> v[s] = q + 1
      <3> HIDE DEF lowered
      <3> QED BY <1>0, <1>1, <1>8, ConstantFacts
    <2>2. {s \in DOMAIN lowered : lowered[s] = 0} = {s \in Slots(k) : v[s] = q + 1}
      BY <1>8, <2>1
    <2>3. Cardinality({s \in Slots(k) : v[s] = q + 1}) \in Nat
      BY SlotsFinite, FS_Subset, FS_CardinalityType
    <2> QED BY <2>2, <2>3
  <1> HIDE DEF lowered, rest, num, Over, kept
  <1>14. /\ g \in Arrays(k) /\ Frame(g, h) /\ g.curMin = q + 1 /\ g.numAtCurMin = num
         /\ g.array = lowered /\ g.aux = rest /\ g.lgK = k /\ g.type = "HLL_4"
    <2>0. q + 1 \in Nat /\ lowered \in [Slots(k) -> Nat] /\ rest \in AuxMaps(k) /\ num \in Int
      BY <1>0, <1>11, <1>12, <1>13
    <2> DEFINE w == [h EXCEPT !.curMin = q + 1, !.array = lowered, !.aux = rest, !.numAtCurMin = num]
    <2>1. g = w
      OBVIOUS
    <2> HIDE DEF g
    <2>2. w \in Arrays(k)
      BY <2>0 DEF Arrays
    <2>3. /\ w.lgK = h.lgK /\ w.type = h.type /\ w.hip = h.hip /\ w.ooo = h.ooo /\ w.rebuild = h.rebuild
          /\ w.kxq0 = h.kxq0 /\ w.kxq1 = h.kxq1 /\ w.curMin = q + 1 /\ w.numAtCurMin = num
          /\ w.array = lowered /\ w.aux = rest
      BY DEF Arrays
    <2> QED BY <1>0, <2>1, <2>2, <2>3 DEF Frame
  <1> HIDE DEF g
  <1>15. Excess(g, v) = lowered /\ Exceptional(g, v) = Over
    <2>1. Excess(g, v) = [s \in Slots(k) |-> Next4(s)]
      BY <1>14 DEF Excess
    <2> QED BY <1>8, <1>11, <1>14, <2>1 DEF Exceptional, Over
  <1>16. Encodes(g, v)
    BY <1>0, <1>1, <1>2, <1>12, <1>14, <1>15 DEF Encodes
  <1>17. Summed(g, v)
    BY <1>13, <1>14 DEF Summed, AtMin, Frame
  <1> QED BY <1>3, <1>10, <1>14, <1>16, <1>17

\* The turns of the loop keep what is encoded.
Turned(k, v, h) ==
  {g \in Arrays(k) : g.type = "HLL_4" /\ Encodes(g, v) /\ Summed(g, v) /\ Frame(g, h)}

\* The loop of shifts keeps the values and ends at a minimum that some slot is at.
LEMMA LoopFacts ==
  ASSUME NEW k \in Nat, NEW h \in Arrays(k), NEW v, Encodes(h, v), Summed(h, v), h.type = "HLL_4"
  PROVE  /\ ShiftWhileNoneAtCurMin(h) \in Turned(k, v, h)
         /\ ShiftWhileNoneAtCurMin(h).numAtCurMin # 0
  <1> DEFINE M == MAX_VALUE
             V == Turned(k, v, h)
             Turn(g) == IF g.numAtCurMin = 0 /\ ~g.err THEN ShiftToBiggerCurMin(g) ELSE g
             step == [n \in 1..M |-> [g \in V |-> Turn(g)]]
             turns == CHOOSE t : t = [n \in 0..M |-> IF n = 0 THEN h ELSE Turn(t[n - 1])]
  <1>0. M \in Nat /\ h \in V
    BY ConstantFacts DEF Frame, Turned
  <1>1. ASSUME NEW g \in V
        PROVE  /\ Turn(g) \in V
               /\ g.numAtCurMin = 0 => Turn(g).curMin = g.curMin + 1 /\ g.curMin < M
               /\ g.numAtCurMin # 0 => Turn(g) = g
    <2>1. g \in Arrays(k) /\ g.type = "HLL_4" /\ Encodes(g, v) /\ Summed(g, v) /\ Frame(g, h)
      BY <1>1 DEF Turned
    <2>2. g.err = FALSE
      BY <2>1 DEF Arrays
    <2>3. CASE g.numAtCurMin = 0
      <3> DEFINE u == ShiftToBiggerCurMin(g)
      <3>1. u \in Arrays(k) /\ Encodes(u, v) /\ Summed(u, v) /\ Frame(u, g)
            /\ u.curMin = g.curMin + 1 /\ g.curMin < M
        BY <2>1, <2>3, ShiftFacts
      <3>2. Turn(g) = u
        BY <2>2, <2>3
      <3> HIDE DEF u
      <3>3. Frame(u, h) /\ u.type = "HLL_4"
        BY <2>1, <3>1 DEF Frame
      <3> QED BY <2>3, <3>1, <3>2, <3>3 DEF Turned
    <2>4. CASE g.numAtCurMin # 0
      BY <2>4
    <2> QED BY <2>3, <2>4
  <1> HIDE DEF V, Turn
  <1>2. step \in [1..M -> [V -> V]]
    BY <1>1
  <1>3. PICK f : Recursive(f, M, V, h, step)
    <2> HIDE DEF step, M
    <2> QED BY <1>0, <1>2, RecursionExists
  <1>4. f \in [0..M -> V] /\ f[0] = h /\ \A n \in 1..M : f[n] = Turn(f[n - 1])
    <2>1. f \in [0..M -> V] /\ f[0] = h /\ \A n \in 1..M : f[n] = step[n][f[n - 1]]
      <3> HIDE DEF step, M
      <3> QED BY <1>3 DEF Recursive
    <2>2. \A n \in 1..M : f[n - 1] \in V
      BY <1>0, <2>1
    <2> QED BY <2>1, <2>2
  <1>5. f = [n \in 0..M |-> IF n = 0 THEN h ELSE Turn(f[n - 1])]
    BY <1>0, <1>4
  <1>6. turns = [n \in 0..M |-> IF n = 0 THEN h ELSE Turn(turns[n - 1])]
    BY <1>5
  <1>7. ShiftWhileNoneAtCurMin(h) = turns[M]
    BY DEF ShiftWhileNoneAtCurMin, Turn
  <1> HIDE DEF turns
  <1> DEFINE G == {n \in Nat : n <= M => turns[n] \in V
                    /\ (turns[n].numAtCurMin # 0 \/ turns[n].curMin >= n)}
  <1>8. 0 \in G
    <2>1. turns[0] = h /\ h.curMin \in Nat
      BY <1>0, <1>6 DEF Arrays
    <2> QED BY <1>0, <2>1
  <1>9. ASSUME NEW n \in Nat, n \in G PROVE n + 1 \in G
    <2> SUFFICES ASSUME n + 1 <= M
                 PROVE  turns[n + 1] \in V /\ (turns[n + 1].numAtCurMin # 0 \/ turns[n + 1].curMin >= n + 1)
      OBVIOUS
    <2>1. turns[n + 1] = Turn(turns[n])
      BY <1>0, <1>6
    <2>2. turns[n] \in V /\ (turns[n].numAtCurMin # 0 \/ turns[n].curMin >= n)
      BY <1>0, <1>9
    <2>3. turns[n].curMin \in Nat
      BY <2>2 DEF V, Turned, Arrays
    <2> QED BY <1>1, <2>1, <2>2, <2>3
  <1>10. M \in G
    <2>1. Nat \subseteq G
      <3> HIDE DEF G
      <3> QED BY <1>8, <1>9, NatInductionSet
    <2> QED BY <1>0, <2>1
  <1>11. turns[M] \in V /\ (turns[M].numAtCurMin # 0 \/ turns[M].curMin >= M) /\ turns[M].curMin \in Nat
    <2>1. turns[M] \in V /\ (turns[M].numAtCurMin # 0 \/ turns[M].curMin >= M)
      BY <1>0, <1>10
    <2> QED BY <2>1 DEF V, Turned, Arrays
  <1>12. turns[M].numAtCurMin # 0
    BY <1>0, <1>1, <1>11
  <1> QED BY <1>7, <1>11, <1>12 DEF V

----------------------------------------------------------------------------
(* Coupons into an array *)

\* The values after a coupon
Raised(v, s, x) == [v EXCEPT ![s] = IF v[s] < x THEN x ELSE v[s]]

\* A register raised to a coupon's value.
LEMMA RaisedFacts ==
  ASSUME NEW S, NEW v \in [S -> 0..MAX_VALUE], NEW s \in S, NEW x \in 0..MAX_VALUE
  PROVE  /\ Raised(v, s, x) \in [S -> 0..MAX_VALUE]
         /\ x <= v[s] => Raised(v, s, x) = v
         /\ v[s] < x => Raised(v, s, x) = With(v, s, x)
         /\ \A i \in S : i # s => Raised(v, s, x)[i] = v[i]
         /\ Raised(v, s, x)[s] = IF v[s] < x THEN x ELSE v[s]
  <1>1. v[s] \in 0..MAX_VALUE /\ MAX_VALUE \in Nat
    BY ConstantFacts
  <1> DEFINE y == IF v[s] < x THEN x ELSE v[s]
             w == [v EXCEPT ![s] = y]
  <1>2. y \in 0..MAX_VALUE /\ (x <= v[s] => y = v[s]) /\ (v[s] < x => y = x)
    BY <1>1
  <1> HIDE DEF y
  <1>3. w \in [S -> 0..MAX_VALUE] /\ w[s] = y /\ \A i \in S : i # s => w[i] = v[i]
    BY <1>2
  <1>4. y = v[s] => w = v
    OBVIOUS
  <1>5. y = x => w = [v EXCEPT ![s] = x]
    OBVIOUS
  <1>6. Raised(v, s, x) = w
    BY DEF Raised, y
  <1> HIDE DEF w
  <1>7. w[s] = IF v[s] < x THEN x ELSE v[s]
    BY <1>3 DEF y
  <1> QED BY <1>2, <1>3, <1>4, <1>5, <1>6, <1>7 DEF With

\* Slot s of v is about to be raised to x; no value is below q.
Raises(k, q, v, s, x) ==
  /\ k \in Nat /\ q \in Nat /\ v \in [Slots(k) -> 0..MAX_VALUE] /\ \A i \in Slots(k) : q <= v[i]
  /\ s \in Slots(k) /\ x \in 0..MAX_VALUE /\ v[s] < x

\* The count of slots at curMin after a register was raised.
LEMMA AtMinRaised ==
  ASSUME NEW k, NEW q, NEW v, NEW s, NEW x, Raises(k, q, v, s, x),
         NEW h, NEW g, h.lgK = k, g.lgK = k, h.curMin = q, g.curMin = q
  PROVE  Cardinality(AtMin(g, With(v, s, x)))
           = IF v[s] = q THEN Cardinality(AtMin(h, v)) - 1 ELSE Cardinality(AtMin(h, v))
  <1> USE DEF Raises
  <1> DEFINE w == [v EXCEPT ![s] = x]
  <1>0. MAX_VALUE \in Nat /\ \A i \in Slots(k) : v[i] \in 0..MAX_VALUE
    BY ConstantFacts
  <1>1. w[s] = x /\ \A i \in Slots(k) : i # s => w[i] = v[i]
    OBVIOUS
  <1>2. x # q
    BY <1>0
  <1> HIDE DEF w
  <1>3. AtMin(g, w) = AtMin(h, v) \ {s} /\ (s \in AtMin(h, v) <=> v[s] = q)
    BY <1>1, <1>2 DEF AtMin
  <1>4. IsFiniteSet(AtMin(h, v))
    BY AtMinFinite
  <1>5. CASE v[s] = q
    <2>1. Cardinality(AtMin(h, v) \ {s}) = Cardinality(AtMin(h, v)) - 1
      BY <1>3, <1>4, <1>5, FS_RemoveElement
    <2> QED BY <1>3, <1>5, <2>1 DEF w, With
  <1>6. CASE v[s] # q
    <2>1. AtMin(g, w) = AtMin(h, v)
      BY <1>3, <1>6
    <2> QED BY <1>6, <2>1 DEF w, With
  <1> QED BY <1>5, <1>6

\* The sums of shares after a register was raised.
LEMMA SharesRaised ==
  ASSUME NEW k, NEW q, NEW v, NEW s, NEW x, Raises(k, q, v, s, x)
  PROVE  /\ SharesOf(With(v, s, x), 0, SPLIT - 1)
              = SharesOf(v, 0, SPLIT - 1) + (Share(x, 0, SPLIT - 1) - Share(v[s], 0, SPLIT - 1))
         /\ SharesOf(With(v, s, x), SPLIT, MAX_VALUE)
              = SharesOf(v, SPLIT, MAX_VALUE) + (Share(x, SPLIT, MAX_VALUE) - Share(v[s], SPLIT, MAX_VALUE))
  <1>1. k \in Nat /\ v \in [Slots(k) -> 0..MAX_VALUE] /\ s \in Slots(k) /\ x \in 0..MAX_VALUE
    BY DEF Raises
  <1>2. SharesOf(With(v, s, x), 0, SPLIT - 1)
              = SharesOf(v, 0, SPLIT - 1) + (Share(x, 0, SPLIT - 1) - Share(v[s], 0, SPLIT - 1))
    BY <1>1, SharesChange
  <1>3. SharesOf(With(v, s, x), SPLIT, MAX_VALUE)
              = SharesOf(v, SPLIT, MAX_VALUE) + (Share(x, SPLIT, MAX_VALUE) - Share(v[s], SPLIT, MAX_VALUE))
    BY <1>1, SharesChange
  <1> QED BY <1>2, <1>3

\* A coupon put into an HLL_6 or HLL_8 array.
LEMMA Update8Facts ==
  ASSUME NEW k \in Nat, NEW h \in Arrays(k), NEW v, Encodes(h, v), Summed(h, v), h.type # "HLL_4",
         NEW c, c \in Nat \X (1..MAX_VALUE)
  PROVE  /\ Update8(h, c) \in Arrays(k) /\ Encodes(Update8(h, c), Raised(v, c[1] % Power2(k), c[2]))
         /\ Summed(Update8(h, c), Raised(v, c[1] % Power2(k), c[2]))
         /\ Kept(Update8(h, c), h)
  <1> DEFINE s == c[1] % Power2(k)
             x == c[2]
             old == h.array[s]
             w == With(v, s, x)
             u == KxQ(h, old, x)
             num == IF old = 0 THEN h.numAtCurMin - 1 ELSE h.numAtCurMin
             g == [u EXCEPT !.array[s] = x, !.numAtCurMin = num]
  <1>0. h.lgK = k /\ s \in Slots(k) /\ x \in 1..MAX_VALUE /\ x \in 0..MAX_VALUE /\ MAX_VALUE \in Nat
    <2>1. c[1] \in Nat /\ c[2] \in 1..MAX_VALUE
      OBVIOUS
    <2> QED BY <2>1, SlotFacts, ConstantFacts DEF Arrays
  <1>1. v \in [Slots(k) -> 0..MAX_VALUE] /\ h.array = v /\ h.aux = <<>> /\ h.curMin = 0
    BY <1>0 DEF Encodes
  <1>2. old = v[s] /\ old \in 0..MAX_VALUE
    BY <1>0, <1>1
  <1>3. CASE x <= old
    <2>1. Update8(h, c) = h
      BY <1>0, <1>3 DEF Update8
    <2>2. Raised(v, s, x) = v
      BY <1>0, <1>1, <1>2, <1>3, RaisedFacts
    <2> QED BY <2>1, <2>2 DEF Kept
  <1>4. CASE ~(x <= old)
    <2>1. Update8(h, c) = g
      <3>1. u.numAtCurMin = h.numAtCurMin
        BY <1>0, <1>2, KxQFacts
      <3>2. Update8(h, c) = [u EXCEPT !.array[s] = x, !.numAtCurMin = IF old = 0 THEN @ - 1 ELSE @]
        BY <1>0, <1>4 DEF Update8
      <3> HIDE DEF u, old
      <3> QED BY <3>1, <3>2
    <2>2. Raised(v, s, x) = w /\ v[s] < x
      <3>1. v[s] < x
        BY <1>0, <1>2, <1>4
      <3>2. v \in [Slots(k) -> 0..MAX_VALUE] /\ s \in Slots(k) /\ x \in 0..MAX_VALUE
        BY <1>0, <1>1
      <3> HIDE DEF s, x
      <3>3. Raised(v, s, x) = With(v, s, x)
        BY <3>1, <3>2, RaisedFacts
      <3> QED BY <3>1, <3>3
    <2>3. /\ u \in Arrays(k) /\ u.lgK = h.lgK /\ u.type = h.type /\ u.ooo = h.ooo /\ u.rebuild = h.rebuild
          /\ u.array = h.array /\ u.aux = h.aux /\ u.curMin = h.curMin
          /\ u.hip = (h.hip \/ ~h.ooo)
          /\ u.kxq0 = h.kxq0 + (Share(x, 0, SPLIT - 1) - Share(old, 0, SPLIT - 1))
          /\ u.kxq1 = h.kxq1 + (Share(x, SPLIT, MAX_VALUE) - Share(old, SPLIT, MAX_VALUE))
      BY <1>0, <1>2, KxQFacts
    <2>4. w \in [Slots(k) -> 0..MAX_VALUE] /\ w \in [Slots(k) -> Nat]
      BY <1>0, <1>1 DEF With
    <2>5. num \in Int
      BY DEF Arrays
    <2>6. num = Cardinality(AtMin(g, w))
      <3>1. g.lgK = k /\ g.curMin = 0
        <4> HIDE DEF u, num, old
        <4> QED BY <1>0, <1>1, <2>3 DEF Arrays
      <3>2. h.numAtCurMin = Cardinality(AtMin(h, v))
        BY DEF Summed
      <3>3. \A i \in Slots(k) : 0 <= v[i]
        BY <1>1
      <3> HIDE DEF g, s, x
      <3>4. Cardinality(AtMin(g, w)) = IF v[s] = 0 THEN Cardinality(AtMin(h, v)) - 1 ELSE Cardinality(AtMin(h, v))
        <4>1. Raises(k, 0, v, s, x)
          BY <1>0, <1>1, <2>2, <3>3 DEF Raises
        <4> QED BY <1>0, <1>1, <3>1, <4>1, AtMinRaised
      <3> QED BY <1>2, <3>2, <3>4
    <2> HIDE DEF u, num, old
    <2>7. g = [u EXCEPT !.array = w, !.numAtCurMin = num]
      BY <1>1, <2>3 DEF Arrays, With
    <2> HIDE DEF g
    <2>8. /\ g \in Arrays(k) /\ g.array = w /\ g.numAtCurMin = num
          /\ g.lgK = u.lgK /\ g.type = u.type /\ g.ooo = u.ooo /\ g.rebuild = u.rebuild
          /\ g.aux = u.aux /\ g.curMin = u.curMin /\ g.hip = u.hip /\ g.kxq0 = u.kxq0 /\ g.kxq1 = u.kxq1
      <3> HIDE DEF w
      <3> QED BY <2>3, <2>4, <2>5, <2>7 DEF Arrays
    <2>9. Encodes(g, w)
      <3>1. \A i \in Slots(k) : 0 <= w[i]
        BY <2>4
      <3> HIDE DEF w
      <3> QED BY <1>0, <1>1, <2>3, <2>4, <2>8, <3>1 DEF Encodes
    <2>10. Summed(g, w)
      <3>1. /\ SharesOf(w, 0, SPLIT - 1) = SharesOf(v, 0, SPLIT - 1) + (Share(x, 0, SPLIT - 1) - Share(old, 0, SPLIT - 1))
            /\ SharesOf(w, SPLIT, MAX_VALUE) = SharesOf(v, SPLIT, MAX_VALUE) + (Share(x, SPLIT, MAX_VALUE) - Share(old, SPLIT, MAX_VALUE))
        <4> HIDE DEF s, x
        <4>1. Raises(k, 0, v, s, x)
          <5>1. \A i \in Slots(k) : 0 <= v[i]
            BY <1>1
          <5> QED BY <1>0, <1>1, <2>2, <5>1 DEF Raises
        <4> QED BY <1>2, <4>1, SharesRaised
      <3> HIDE DEF w
      <3> QED BY <2>3, <2>6, <2>8, <3>1 DEF Summed
    <2>11. Kept(g, h)
      BY <2>3, <2>8 DEF Kept, Arrays
    <2> QED BY <2>1, <2>2, <2>8, <2>9, <2>10, <2>11
  <1> QED BY <1>3, <1>4

\* A coupon put into an HLL_4 array: the summaries agree afterwards, and nothing
\* throws.
LEMMA Update4Facts ==
  ASSUME NEW k \in Nat, NEW h \in Arrays(k), NEW v, Encodes(h, v), Summed(h, v), h.type = "HLL_4",
         h.numAtCurMin # 0, NEW c, c \in Nat \X (1..MAX_VALUE)
  PROVE  /\ Update4(h, c) \in Arrays(k) /\ Encodes(Update4(h, c), Raised(v, c[1] % Power2(k), c[2]))
         /\ Summed(Update4(h, c), Raised(v, c[1] % Power2(k), c[2]))
         /\ Kept(Update4(h, c), h) /\ Update4(h, c).numAtCurMin # 0
  <1> DEFINE s == c[1] % Power2(k)
             x == c[2]
             q == h.curMin
             old == ValueOf(h, s)
             w == With(v, s, x)
             u == KxQ(h, old, x)
             g == Stored(u, s, x)
             lower == [g EXCEPT !.numAtCurMin = @ - 1]
  <1>0. h.lgK = k /\ s \in Slots(k) /\ x \in 1..MAX_VALUE /\ x \in 0..MAX_VALUE /\ MAX_VALUE \in Nat
    <2>1. c[1] \in Nat /\ c[2] \in 1..MAX_VALUE
      OBVIOUS
    <2> QED BY <2>1, SlotFacts, ConstantFacts DEF Arrays
  <1>1. /\ v \in [Slots(k) -> 0..MAX_VALUE] /\ \A i \in Slots(k) : q <= v[i]
        /\ h.array = Excess(h, v) /\ q \in Nat
    BY <1>0 DEF Encodes, Arrays
  <1>2. /\ old = v[s] /\ old \in 0..MAX_VALUE /\ Lost(h) = {} /\ q <= old
        /\ h.array[s] = IF v[s] - q < AUX_TOKEN THEN v[s] - q ELSE AUX_TOKEN
    BY <1>0, <1>1, EncodesFacts DEF Excess
  <1> DEFINE Shifted == ShiftWhileNoneAtCurMin(lower)
  <1>c. Update4(h, c) = IF x <= q \/ x <= h.array[s] + q THEN h
                        ELSE CASE s \in Lost(h) -> Throw(h)
                               [] s \notin Lost(h) /\ x <= old -> h
                               [] s \notin Lost(h) /\ x > old /\ old # q -> g
                               [] OTHER -> Shifted
    BY <1>0 DEF Update4
  <1>d. s \notin Lost(h) /\ x \in Int /\ old \in Int
    BY <1>0, <1>2
  <1> HIDE DEF Shifted
  <1>3. CASE x <= old
    <2>1. Update4(h, c) = h
      <3>1. ~(x > old)
        BY <1>d, <1>3
      <3> HIDE DEF g, x, s, old, q
      <3> QED BY <1>c, <1>d, <1>3, <3>1
    <2>2. Raised(v, s, x) = v
      <3> HIDE DEF s, x
      <3> QED BY <1>0, <1>1, <1>2, <1>3, RaisedFacts
    <2> QED BY <2>1, <2>2 DEF Kept
  <1>4. CASE ~(x <= old)
    <2>1. v[s] < x
      BY <1>0, <1>2, <1>4
    <2>2. Update4(h, c) = IF old # q THEN g ELSE ShiftWhileNoneAtCurMin(lower)
      <3>1. ~(x <= q) /\ ~(x <= h.array[s] + q)
        <4>1. v[s] \in Int /\ x \in Int /\ q \in Int /\ q <= v[s]
          BY <1>0, <1>1, <1>2
        <4>2. h.array[s] + q <= v[s] /\ h.array[s] + q \in Int
          BY <1>2, <4>1, ConstantFacts
        <4> HIDE DEF s, x, q
        <4> QED BY <2>1, <4>1, <4>2
      <3>2. ~(x <= old) /\ x > old
        BY <1>d, <1>4
      <3> HIDE DEF g, lower, x, s, old, q
      <3> QED BY <1>c, <1>d, <3>1, <3>2 DEF Shifted
    <2>3. Raised(v, s, x) = w /\ Raises(k, q, v, s, x)
      <3> HIDE DEF s, x, q
      <3> QED BY <1>0, <1>1, <2>1, RaisedFacts DEF Raises
    <2>4. /\ u \in Arrays(k) /\ u.lgK = h.lgK /\ u.type = h.type /\ u.ooo = h.ooo /\ u.rebuild = h.rebuild
          /\ u.array = h.array /\ u.aux = h.aux /\ u.curMin = h.curMin /\ u.numAtCurMin = h.numAtCurMin
          /\ u.hip = (h.hip \/ ~h.ooo)
          /\ u.kxq0 = h.kxq0 + (Share(x, 0, SPLIT - 1) - Share(old, 0, SPLIT - 1))
          /\ u.kxq1 = h.kxq1 + (Share(x, SPLIT, MAX_VALUE) - Share(old, SPLIT, MAX_VALUE))
      BY <1>0, <1>2, KxQFacts
    <2> HIDE DEF u
    <2>5. Encodes(u, v)
      <3>1. Excess(u, v) = Excess(h, v) /\ Exceptional(u, v) = Exceptional(h, v)
        BY <2>4 DEF Excess, Exceptional
      <3> QED BY <2>4, <3>1 DEF Encodes
    <2>6. g \in Arrays(k) /\ Encodes(g, w) /\ Frame(g, u) /\ g.curMin = q /\ g.numAtCurMin = h.numAtCurMin
      <3>1. x \in Nat /\ x <= MAX_VALUE
        BY <1>0
      <3> HIDE DEF s, x
      <3> QED BY <1>0, <2>1, <2>4, <2>5, <3>1, StoredFacts
    <2> HIDE DEF g
    <2>7. g.lgK = k /\ g.type = "HLL_4" /\ Kept(g, h)
      BY <1>0, <2>4, <2>6 DEF Frame, Kept, Arrays
    <2>8. /\ g.kxq0 = SharesOf(w, 0, SPLIT - 1) /\ g.kxq1 = SharesOf(w, SPLIT, MAX_VALUE)
      <3> HIDE DEF s, x, old
      <3> QED BY <1>2, <2>3, <2>4, <2>6, SharesRaised DEF Summed, Frame
    <2>9. Cardinality(AtMin(g, w)) = IF v[s] = q THEN h.numAtCurMin - 1 ELSE h.numAtCurMin
      <3> HIDE DEF s, x, q
      <3>1. h.curMin = q
        BY DEF q
      <3> QED BY <1>0, <2>3, <2>6, <2>7, <3>1, AtMinRaised DEF Summed
    <2>10. CASE old # q
      <3>1. Summed(g, w)
        BY <1>2, <2>6, <2>8, <2>9, <2>10 DEF Summed
      <3> HIDE DEF s, x, q, old, w
      <3>2. Update4(h, c) = g
        BY <2>2, <2>10
      <3> QED BY <2>3, <2>6, <2>7, <3>1, <3>2 DEF s, x
    <2>11. CASE old = q
      <3> DEFINE num == h.numAtCurMin - 1
                 d == [g EXCEPT !.numAtCurMin = num]
                 r == ShiftWhileNoneAtCurMin(d)
      <3>1. lower = d
        BY <2>6
      <3>2. num \in Int
        BY DEF Arrays
      <3> HIDE DEF lower, num
      <3>3. /\ d \in Arrays(k) /\ d.numAtCurMin = num
            /\ d.lgK = g.lgK /\ d.type = g.type /\ d.hip = g.hip /\ d.ooo = g.ooo /\ d.rebuild = g.rebuild
            /\ d.kxq0 = g.kxq0 /\ d.kxq1 = g.kxq1 /\ d.curMin = g.curMin /\ d.array = g.array /\ d.aux = g.aux
        BY <2>6, <3>2 DEF Arrays
      <3> HIDE DEF d
      <3>4. /\ Excess(d, w) = Excess(g, w) /\ Exceptional(d, w) = Exceptional(g, w)
            /\ AtMin(d, w) = AtMin(g, w)
        BY <3>3 DEF Excess, Exceptional, AtMin
      <3>5. Encodes(d, w)
        BY <2>6, <3>3, <3>4 DEF Encodes
      <3>6. Summed(d, w)
        BY <1>2, <2>8, <2>9, <2>11, <3>3, <3>4 DEF Summed, num
      <3> HIDE DEF w
      <3>7. r \in Turned(k, w, d) /\ r.numAtCurMin # 0
        BY <2>7, <3>3, <3>5, <3>6, LoopFacts
      <3>8. Update4(h, c) = r
        BY <2>2, <2>11, <3>1
      <3> HIDE DEF r
      <3>9. r \in Arrays(k) /\ Encodes(r, w) /\ Summed(r, w) /\ Frame(r, d)
        BY <3>7 DEF Turned
      <3>10. Kept(r, h)
        BY <2>7, <3>3, <3>9 DEF Kept, Frame
      <3> QED BY <2>3, <3>7, <3>8, <3>9, <3>10
    <2> QED BY <2>10, <2>11
  <1> QED BY <1>3, <1>4

\* A coupon put into an array of any type.
LEMMA ArrayUpdateFacts ==
  ASSUME NEW h, NEW v, Array(h, v), NEW c, c \in Nat \X (1..MAX_VALUE)
  PROVE  /\ Array(ArrayUpdate(h, c), Raised(v, c[1] % Power2(h.lgK), c[2]))
         /\ Kept(ArrayUpdate(h, c), h)
  <1> DEFINE k == h.lgK
             w == Raised(v, c[1] % Power2(k), c[2])
             g == ArrayUpdate(h, c)
  <1>0. k \in Nat /\ h \in Arrays(k) /\ Encodes(h, v) /\ Summed(h, v) /\ (h.type = "HLL_4" => h.numAtCurMin # 0)
        /\ ~h.err
    BY DEF Array, Shiftable, Arrays
  <1>1. CASE h.type = "HLL_4"
    <2>1. g = Update4(h, c)
      BY <1>0, <1>1 DEF ArrayUpdate
    <2>2. g \in Arrays(k) /\ Encodes(g, w) /\ Summed(g, w) /\ Kept(g, h) /\ g.numAtCurMin # 0
      <3> HIDE DEF g, k
      <3> QED BY <1>0, <1>1, <2>1, Update4Facts DEF k
    <2> HIDE DEF g, w
    <2> QED BY <1>0, <2>2 DEF Array, Shiftable, Kept, g, w
  <1>2. CASE h.type # "HLL_4"
    <2>1. g = Update8(h, c)
      BY <1>0, <1>2 DEF ArrayUpdate
    <2>2. g \in Arrays(k) /\ Encodes(g, w) /\ Summed(g, w) /\ Kept(g, h)
      <3> HIDE DEF g, k
      <3> QED BY <1>0, <1>2, <2>1, Update8Facts DEF k
    <2> HIDE DEF g, w
    <2> QED BY <1>0, <1>2, <2>2 DEF Array, Shiftable, Kept, g, w
  <1> QED BY <1>1, <1>2

----------------------------------------------------------------------------
(* Sets of coupons into an array *)

\* w is v with every slot raised by the coupons of C.
IsTop(w, v, C, k) ==
  /\ w \in [Slots(k) -> 0..MAX_VALUE]
  /\ \A i \in Slots(k) :
       /\ w[i] = v[i] \/ \E c \in C : c[1] % Power2(k) = i /\ w[i] = c[2]
       /\ v[i] <= w[i]
       /\ \A c \in C : c[1] % Power2(k) = i => c[2] <= w[i]

\* Without coupons nothing is raised.
LEMMA TopEmpty ==
  ASSUME NEW k, NEW v \in [Slots(k) -> 0..MAX_VALUE]
  PROVE  IsTop(v, v, {}, k)
  <1>1. \A i \in Slots(k) : v[i] \in 0..MAX_VALUE
    OBVIOUS
  <1>2. \A i \in Slots(k) : v[i] <= v[i]
    BY <1>1, ConstantFacts
  <1> QED BY <1>2 DEF IsTop

\* One coupon more.
LEMMA TopRaised ==
  ASSUME NEW k \in Nat, NEW w, NEW v \in [Slots(k) -> 0..MAX_VALUE], NEW C, IsTop(w, v, C, k),
         NEW c, c \in Nat \X (1..MAX_VALUE), C \subseteq Nat \X (1..MAX_VALUE)
  PROVE  IsTop(Raised(w, c[1] % Power2(k), c[2]), v, C \cup {c}, k)
  <1> DEFINE s == c[1] % Power2(k)
             x == c[2]
             r == Raised(w, s, x)
             D == C \cup {c}
             At(d, i) == d[1] % Power2(k) = i
  <1>1. s \in Slots(k) /\ x \in 0..MAX_VALUE /\ MAX_VALUE \in Nat
    BY SlotFacts, ConstantFacts
  <1>2. /\ w \in [Slots(k) -> 0..MAX_VALUE]
        /\ \A i \in Slots(k) : /\ w[i] = v[i] \/ \E d \in C : At(d, i) /\ w[i] = d[2]
                               /\ v[i] <= w[i]
                               /\ \A d \in C : At(d, i) => d[2] <= w[i]
    BY DEF IsTop
  <1>3. /\ r \in [Slots(k) -> 0..MAX_VALUE]
        /\ \A i \in Slots(k) : i # s => r[i] = w[i]
        /\ r[s] = IF w[s] < x THEN x ELSE w[s]
    <2> HIDE DEF s, x
    <2>1. w \in [Slots(k) -> 0..MAX_VALUE] /\ s \in Slots(k) /\ x \in 0..MAX_VALUE
      BY <1>1, <1>2
    <2>2. Raised(w, s, x) \in [Slots(k) -> 0..MAX_VALUE]
      BY <2>1, RaisedFacts
    <2>3. \A i \in Slots(k) : i # s => Raised(w, s, x)[i] = w[i]
      BY <2>1 DEF Raised
    <2>4. Raised(w, s, x)[s] = IF w[s] < x THEN x ELSE w[s]
      BY <2>1, RaisedFacts
    <2> QED BY <2>2, <2>3, <2>4
  <1>4. \A d \in C : d[2] \in Int
    OBVIOUS
  <1>5. \A i \in Slots(k) : w[i] \in Int /\ v[i] \in Int
    BY <1>1, <1>2
  <1>6. At(c, s) /\ c[2] = x /\ c \in D /\ C \subseteq D /\ \A d \in D : d \in C \/ d = c
    OBVIOUS
  <1>7. \A i \in Slots(k) : At(c, i) => i = s
    OBVIOUS
  <1> HIDE DEF s, x, r, At
  <1>8. ASSUME NEW i \in Slots(k)
        PROVE  /\ r[i] = v[i] \/ \E d \in D : At(d, i) /\ r[i] = d[2]
               /\ v[i] <= r[i]
               /\ \A d \in D : At(d, i) => d[2] <= r[i]
    <2>1. CASE i # s
      <3>1. \A d \in D : At(d, i) => d \in C
        BY <1>6, <1>7, <2>1
      <3> HIDE DEF D
      <3> QED BY <1>2, <1>3, <1>6, <2>1, <3>1
    <2>2. CASE i = s /\ w[s] < x
      <3>1. r[i] = x
        BY <1>3, <2>2
      <3>2. v[i] <= x
        BY <1>1, <1>2, <1>5, <2>2
      <3>3. \A d \in C : At(d, i) => d[2] <= x
        <4> TAKE d \in C
        <4>1. At(d, i) => d[2] <= w[i] /\ d[2] \in Int
          BY <1>2, <1>4
        <4> QED BY <1>1, <1>5, <2>2, <4>1
      <3>4. x <= x
        BY <1>1
      <3> HIDE DEF D
      <3> QED BY <1>6, <2>2, <3>1, <3>2, <3>3, <3>4
    <2>3. CASE i = s /\ ~(w[s] < x)
      <3>1. r[i] = w[i] /\ x <= w[i]
        BY <1>1, <1>3, <1>5, <2>3
      <3> HIDE DEF D
      <3> QED BY <1>2, <1>6, <2>3, <3>1
    <2> QED BY <2>1, <2>2, <2>3
  <1> HIDE DEF D
  <1>9. IsTop(r, v, D, k)
    BY <1>3, <1>8 DEF IsTop, At
  <1> QED BY <1>9 DEF r, D, s, x

\* What two updates leave alone.
LEMMA KeptTransitive ==
  ASSUME NEW f, NEW g, NEW h, Kept(f, g), Kept(g, h)
  PROVE  Kept(f, h)
  BY DEF Kept

\* Coupons put into an array raise every slot to the greatest of them, in whatever
\* order.
LEMMA ArrayUpdatesFacts ==
  ASSUME NEW h, NEW v, Array(h, v), NEW C, IsFiniteSet(C), C \subseteq Nat \X (1..MAX_VALUE)
  PROVE  /\ Kept(ArrayUpdates(h, C), h)
         /\ \E w : Array(ArrayUpdates(h, C), w) /\ IsTop(w, v, C, h.lgK)
  <1> DEFINE k == h.lgK
             V == {u \in Arrays(k) : Kept(u, h) /\ \E w : Array(u, w)}
             R == {p \in (SUBSET C) \X V : \E w : Array(p[2], w) /\ IsTop(w, v, p[1], k)}
  <1>0. k \in Nat /\ h \in Arrays(k) /\ v \in [Slots(k) -> 0..MAX_VALUE] /\ h \in V
    BY DEF Array, Shiftable, Encodes, Kept
  <1>1. ASSUME NEW u \in V, NEW c \in C, NEW w, Array(u, w)
        PROVE  /\ ArrayUpdate(u, c) \in V /\ Array(ArrayUpdate(u, c), Raised(w, c[1] % Power2(k), c[2]))
               /\ u.lgK = k
    <2> DEFINE g == ArrayUpdate(u, c)
               z == Raised(w, c[1] % Power2(k), c[2])
    <2>1. u.lgK = k /\ Kept(u, h)
      BY DEF Kept
    <2>2. c \in Nat \X (1..MAX_VALUE)
      OBVIOUS
    <2>3. Array(g, z) /\ Kept(g, u)
      BY <1>1, <2>1, <2>2, ArrayUpdateFacts
    <2>4. Kept(g, h)
      BY <2>1, <2>3, KeptTransitive
    <2> HIDE DEF g, z, k
    <2>5. g \in Arrays(k)
      BY <2>1, <2>3 DEF Array, Shiftable, Kept
    <2> QED BY <2>1, <2>3, <2>4, <2>5 DEF g, z
  <1>2. \A c \in C, u \in V : ArrayUpdate(u, c) \in V
    <2> TAKE c \in C, u \in V
    <2>1. PICK w : Array(u, w)
      OBVIOUS
    <2> HIDE DEF V
    <2> QED BY <1>1, <2>1
  <1>3. <<{}, h>> \in R
    <2>1. IsTop(v, v, {}, k)
      BY <1>0, TopEmpty
    <2> HIDE DEF V, k
    <2> QED BY <1>0, <2>1
  <1>4. ASSUME NEW T \in SUBSET C, NEW c \in C \ T, NEW u \in V, <<T, u>> \in R
        PROVE  <<T \cup {c}, ArrayUpdate(u, c)>> \in R
    <2> HIDE DEF V, k
    <2>1. PICK w : Array(u, w) /\ IsTop(w, v, T, k)
      BY <1>4
    <2> DEFINE z == Raised(w, c[1] % Power2(k), c[2])
    <2>2. ArrayUpdate(u, c) \in V /\ Array(ArrayUpdate(u, c), z)
      BY <1>1, <2>1
    <2>3. IsTop(z, v, T \cup {c}, k)
      BY <1>0, <2>1, TopRaised
    <2> HIDE DEF z
    <2> QED BY <2>2, <2>3
  <1>5. ArrayUpdates(h, C) \in V /\ <<C, ArrayUpdates(h, C)>> \in R
    <2> HIDE DEF V, R
    <2> QED BY <1>0, <1>2, <1>3, <1>4, ArrayUpdatesInduct
  <1> QED BY <1>5

----------------------------------------------------------------------------
(* New arrays and copies *)

\* A sum of equal terms.
LEMMA SumConstant ==
  ASSUME NEW S, IsFiniteSet(S), NEW f, NEW a \in Int, \A x \in S : f[x] = a
  PROVE  SumOver(f, S) = Cardinality(S) * a
  <1> DEFINE G == {T \in SUBSET S : SumOver(f, T) = Cardinality(T) * a}
  <1>1. ASSUME NEW T \in SUBSET S, \A x \in T : T \ {x} \in G PROVE T \in G
    <2>0. IsFiniteSet(T) /\ Cardinality(T) \in Nat
      BY FS_Subset, FS_CardinalityType
    <2>1. CASE T = {}
      <3>1. SumOver(f, T) = 0 /\ Cardinality(T) = 0
        BY <2>1, SumEmpty, FS_EmptySet
      <3> QED BY <3>1
    <2>2. CASE T # {}
      <3> DEFINE x == Pick(T)
                 U == T \ {x}
      <3>1. x \in T /\ SumOver(f, T) = f[x] + SumOver(f, U)
        BY <2>0, <2>2, SumPick
      <3>2. f[x] = a /\ SumOver(f, U) = Cardinality(U) * a
        BY <1>1, <3>1
      <3>3. Cardinality(U) = Cardinality(T) - 1
        BY <2>0, <3>1, FS_RemoveElement
      <3> HIDE DEF U, x
      <3>4. (Cardinality(T) - 1) * a = Cardinality(T) * a - a
        BY <2>0
      <3>5. SumOver(f, T) = Cardinality(T) * a
        BY <2>0, <3>1, <3>2, <3>3, <3>4
      <3> QED BY <3>5
    <2> QED BY <2>1, <2>2
  <1>2. S \in G
    <2> HIDE DEF G
    <2> QED BY <1>1, SetInduction
  <1> QED BY <1>2

Zeros(k) == [s \in Slots(k) |-> 0]

\* The empty exceptions map.
LEMMA EmptyAux == ASSUME NEW k PROVE <<>> \in AuxMaps(k)
  <1>1. <<>> \in [{} -> Nat]
    OBVIOUS
  <1> QED BY <1>1 DEF AuxMaps

\* A new array encodes zeros, and its summaries are those of zeros.
LEMMA NewArrayFacts ==
  ASSUME NEW k \in Nat, NEW type \in HllTypes
  PROVE  /\ Array(NewArray(k, type), Zeros(k)) /\ Zeros(k) \in [Slots(k) -> 0..MAX_VALUE]
         /\ NewArray(k, type).lgK = k /\ NewArray(k, type).type = type
         /\ ~NewArray(k, type).ooo /\ ~NewArray(k, type).rebuild /\ ~NewArray(k, type).hip
         /\ NewArray(k, type).mode = "HLL"
  <1> DEFINE h == NewArray(k, type)
             z == Zeros(k)
  <1>0. /\ Power2(k) \in Nat \ {0} /\ Power2(k) = Cardinality(Slots(k)) /\ IsFiniteSet(Slots(k)) /\ Inverse2(0) \in Int
        /\ MAX_VALUE \in Nat /\ SPLIT \in Nat /\ SPLIT >= 1 /\ AUX_TOKEN \in Nat /\ AUX_TOKEN >= 2
    <2>1. Power2(MAX_VALUE - 0) \in Int
      BY ConstantFacts, PowerFacts
    <2> QED BY <2>1, SlotsFinite, ConstantFacts DEF Inverse2
  <1>1. z \in [Slots(k) -> 0..MAX_VALUE] /\ z \in [Slots(k) -> Nat] /\ \A s \in Slots(k) : z[s] = 0
    BY <1>0 DEF Zeros
  <1> DEFINE sum == Power2(k) * Inverse2(0)
  <1>2. sum \in Int
    BY <1>0
  <1>3. h = [mode |-> "HLL", lgK |-> k, type |-> type, coupons |-> {}, lgArr |-> 0,
             array |-> z, aux |-> <<>>, curMin |-> 0, numAtCurMin |-> Power2(k), kxq0 |-> sum, kxq1 |-> 0,
             hip |-> FALSE, ooo |-> FALSE, rebuild |-> FALSE, err |-> FALSE]
    <2>1. h = [NewList(k, type) EXCEPT !.mode = "HLL", !.lgArr = 0, !.array = z,
                                       !.numAtCurMin = Power2(k), !.kxq0 = sum]
      BY DEF NewArray, Zeros
    <2> HIDE DEF h, z, sum
    <2> QED BY <2>1 DEF NewList
  <1> HIDE DEF sum
  <1>4. h \in Arrays(k)
    <2>1. <<>> \in AuxMaps(k)
      BY EmptyAux
    <2> HIDE DEF h, z
    <2> QED BY <1>0, <1>1, <1>2, <1>3, <2>1 DEF Arrays
  <1>5. /\ h.lgK = k /\ h.type = type /\ h.curMin = 0 /\ h.numAtCurMin = Power2(k) /\ h.array = z /\ h.aux = <<>>
        /\ h.kxq0 = sum /\ h.kxq1 = 0 /\ ~h.ooo /\ ~h.rebuild /\ ~h.hip /\ h.mode = "HLL"
    BY <1>3
  <1> HIDE DEF h
  <1>6. Encodes(h, z)
    <2>1. \A s \in Slots(k) : h.curMin <= z[s]
      BY <1>1, <1>5
    <2>2. Excess(h, z) = z
      <3>1. \A s \in Slots(k) : (IF z[s] - h.curMin < AUX_TOKEN THEN z[s] - h.curMin ELSE AUX_TOKEN) = 0
        BY <1>0, <1>1, <1>5
      <3> QED BY <1>5, <3>1 DEF Excess, Zeros
    <2>3. Exceptional(h, z) = {}
      BY <1>0, <1>1, <1>5 DEF Exceptional
    <2>4. [s \in Exceptional(h, z) |-> z[s]] = <<>>
      BY <2>3
    <2> HIDE DEF z
    <2> QED BY <1>1, <1>5, <2>1, <2>2, <2>4 DEF Encodes
  <1>7. Summed(h, z)
    <2>1. AtMin(h, z) = Slots(k)
      BY <1>1, <1>5 DEF AtMin
    <2>2. ASSUME NEW low \in Int, NEW high \in Int PROVE SharesOf(z, low, high) = Cardinality(Slots(k)) * Share(0, low, high)
      <3> DEFINE f == [s \in DOMAIN z |-> Share(z[s], low, high)]
      <3>1. SharesOf(z, low, high) = SumOver(f, Slots(k))
        <4>1. DOMAIN z = Slots(k) /\ DOMAIN f = Slots(k)
          BY <1>1
        <4> HIDE DEF z
        <4> QED BY <4>1 DEF SharesOf, SumFunction, SumFunctionOnSet, SumOver
      <3>2. \A s \in Slots(k) : f[s] = Share(0, low, high)
        BY <1>1
      <3>3. Share(0, low, high) \in Int
        BY <1>0 DEF Share
      <3> HIDE DEF f
      <3> QED BY <1>0, <3>1, <3>2, <3>3, SumConstant
    <2>3. Share(0, 0, SPLIT - 1) = Inverse2(0) /\ Share(0, SPLIT, MAX_VALUE) = 0
      BY <1>0 DEF Share
    <2>4. SharesOf(z, 0, SPLIT - 1) = sum
      <3>1. SharesOf(z, 0, SPLIT - 1) = Cardinality(Slots(k)) * Share(0, 0, SPLIT - 1)
        BY <1>0, <2>2
      <3> QED BY <1>0, <2>3, <3>1 DEF sum
    <2>5. SharesOf(z, SPLIT, MAX_VALUE) = 0
      <3>1. SharesOf(z, SPLIT, MAX_VALUE) = Cardinality(Slots(k)) * Share(0, SPLIT, MAX_VALUE)
        BY <1>0, <2>2
      <3> QED BY <1>0, <2>3, <3>1
    <2> QED BY <1>0, <1>5, <2>1, <2>4, <2>5 DEF Summed
  <1> QED BY <1>0, <1>1, <1>4, <1>5, <1>6, <1>7 DEF Array, Shiftable, h

\* What a copy in another type keeps
Copied(r, h, type) ==
  r.lgK = h.lgK /\ r.type = type /\ r.mode = "HLL" /\ r.ooo = h.ooo /\ r.hip = h.hip /\ ~r.rebuild

\* The array rebuilt in another type has the same registers and right summaries,
\* whatever the summaries of the one it was rebuilt from.
LEMMA ConvertFacts ==
  ASSUME NEW k \in Nat, NEW h \in Arrays(k), NEW v, Encodes(h, v), NEW type \in HllTypes
  PROVE  Array(Convert(h, type), v) /\ Copied(Convert(h, type), h, type)
  <1> DEFINE filled == {s \in DOMAIN h.array : ValueOf(h, s) # 0}
             pairs == {<<s, ValueOf(h, s)>> : s \in filled}
             base == [NewArray(k, type) EXCEPT !.ooo = h.ooo]
             g == ArrayUpdates(base, pairs)
             num == IF type = "HLL_4" THEN g.numAtCurMin ELSE Power2(k) - Cardinality(filled)
             r == [g EXCEPT !.numAtCurMin = num, !.hip = h.hip, !.err = FALSE]
             z == Zeros(k)
  <1>0. h.lgK = k /\ h.ooo \in BOOLEAN /\ h.hip \in BOOLEAN /\ h.err = FALSE /\ Lost(h) = {}
    BY EncodesFacts DEF Arrays
  <1>1. /\ DOMAIN h.array = Slots(k) /\ \A s \in Slots(k) : ValueOf(h, s) = v[s]
        /\ v \in [Slots(k) -> 0..MAX_VALUE] /\ MAX_VALUE \in Nat
    BY <1>0, EncodesFacts, ConstantFacts DEF Encodes
  <1>2. filled = {s \in Slots(k) : v[s] # 0}
    BY <1>1
  <1>3. pairs = {<<s, v[s]>> : s \in filled} /\ filled \subseteq Slots(k) /\ IsFiniteSet(filled)
    <2>1. filled \subseteq Slots(k)
      BY <1>2
    <2>2. IsFiniteSet(filled)
      BY <2>1, SlotsFinite, FS_Subset
    <2>3. \A s \in filled : ValueOf(h, s) = v[s]
      BY <1>1, <2>1
    <2> HIDE DEF filled
    <2> QED BY <2>1, <2>2, <2>3
  <1>4. pairs \subseteq Nat \X (1..MAX_VALUE)
    <2>1. \A s \in filled : s \in Nat /\ v[s] \in 1..MAX_VALUE
      BY <1>1, <1>2, SlotsFinite
    <2> HIDE DEF filled, pairs
    <2> QED BY <1>3, <2>1
  <1>5. IsFiniteSet(pairs)
    <2> DEFINE f == [s \in filled |-> <<s, v[s]>>]
    <2>1. f \in Surjection(filled, pairs)
      <3> HIDE DEF filled
      <3> QED BY <1>3 DEF Surjection
    <2> HIDE DEF filled, pairs, f
    <2> QED BY <1>3, <2>1, FS_Surjection
  <1>6. Array(base, z) /\ base.lgK = k /\ base.type = type /\ base.ooo = h.ooo /\ base.rebuild = FALSE
    <2> DEFINE n == NewArray(k, type)
    <2>1. Array(n, z) /\ n.lgK = k /\ n.type = type /\ ~n.rebuild
      BY NewArrayFacts
    <2>2. n \in Arrays(k) /\ Encodes(n, z) /\ Summed(n, z) /\ (n.type = "HLL_4" => n.numAtCurMin # 0)
      BY <2>1 DEF Array, Shiftable
    <2> HIDE DEF n
    <2>3. base = [n EXCEPT !.ooo = h.ooo]
      BY DEF n
    <2> HIDE DEF base
    <2>4. /\ base \in Arrays(k) /\ base.lgK = n.lgK /\ base.type = n.type /\ base.ooo = h.ooo /\ base.rebuild = n.rebuild
          /\ base.array = n.array /\ base.aux = n.aux /\ base.curMin = n.curMin /\ base.numAtCurMin = n.numAtCurMin
          /\ base.kxq0 = n.kxq0 /\ base.kxq1 = n.kxq1
      BY <1>0, <2>2, <2>3 DEF Arrays
    <2>5. Excess(base, z) = Excess(n, z) /\ Exceptional(base, z) = Exceptional(n, z) /\ AtMin(base, z) = AtMin(n, z)
      BY <2>4 DEF Excess, Exceptional, AtMin
    <2>6. Encodes(base, z) /\ Summed(base, z)
      BY <2>2, <2>4, <2>5 DEF Encodes, Summed
    <2>7. base.rebuild = FALSE
      BY <2>1, <2>2, <2>4 DEF Arrays
    <2> QED BY <2>1, <2>2, <2>4, <2>6, <2>7 DEF Array, Shiftable
  <1>7. Kept(g, base) /\ \E w : Array(g, w) /\ IsTop(w, z, pairs, k)
    <2> HIDE DEF base, pairs, z
    <2> QED BY <1>4, <1>5, <1>6, ArrayUpdatesFacts
  <1>8. PICK w : Array(g, w) /\ IsTop(w, z, pairs, k)
    BY <1>7
  <1>9. w = v
    <2>1. \A s \in filled : s % Power2(k) = s /\ s \in Slots(k)
      BY <1>3, SlotFacts, SlotsFinite
    <2>2. \A i \in Slots(k) : z[i] = 0
      BY DEF Zeros
    <2>3. w \in [Slots(k) -> 0..MAX_VALUE]
      BY <1>8 DEF IsTop
    <2>4. ASSUME NEW i \in Slots(k) PROVE w[i] = v[i]
      <3>1. /\ w[i] = 0 \/ \E c \in pairs : c[1] % Power2(k) = i /\ w[i] = c[2]
            /\ \A c \in pairs : c[1] % Power2(k) = i => c[2] <= w[i]
        BY <1>8, <2>2 DEF IsTop
      <3>2. \A c \in pairs : \E s \in filled : c = <<s, v[s]>>
        BY <1>3
      <3>3. CASE i \in filled
        <4>1. <<i, v[i]>> \in pairs
          BY <1>3, <3>3
        <4>2. v[i] <= w[i] /\ v[i] # 0 /\ v[i] \in 0..MAX_VALUE /\ w[i] \in 0..MAX_VALUE
          BY <1>1, <1>2, <2>1, <2>3, <3>1, <3>3, <4>1
        <4>3. w[i] # 0
          BY <4>2
        <4>4. PICK c \in pairs : c[1] % Power2(k) = i /\ w[i] = c[2]
          BY <3>1, <4>3
        <4>5. PICK s \in filled : c = <<s, v[s]>>
          BY <3>2
        <4>6. s = i
          BY <2>1, <4>4, <4>5
        <4> QED BY <4>4, <4>5, <4>6
      <3>4. CASE i \notin filled
        <4>1. v[i] = 0
          BY <1>2, <3>4
        <4>2. ASSUME w[i] # 0 PROVE FALSE
          <5>1. PICK c \in pairs : c[1] % Power2(k) = i /\ w[i] = c[2]
            BY <3>1, <4>2
          <5>2. PICK s \in filled : c = <<s, v[s]>>
            BY <3>2
          <5> QED BY <2>1, <3>4, <5>1, <5>2
        <4> QED BY <4>1, <4>2
      <3> QED BY <3>3, <3>4
    <2> QED BY <1>1, <2>3, <2>4
  <1>10. /\ g \in Arrays(k) /\ Encodes(g, v) /\ Summed(g, v) /\ (type = "HLL_4" => g.numAtCurMin # 0)
         /\ g.lgK = k /\ g.type = type /\ g.ooo = h.ooo /\ g.rebuild = FALSE /\ g.err = FALSE
    <2> HIDE DEF g, base
    <2>1. g.lgK = k /\ g.type = type /\ g.ooo = h.ooo /\ g.rebuild = FALSE
      BY <1>6, <1>7 DEF Kept
    <2>2. g \in Arrays(k) /\ Encodes(g, v) /\ Summed(g, v) /\ (type = "HLL_4" => g.numAtCurMin # 0)
      BY <1>8, <1>9, <2>1 DEF Array, Shiftable
    <2> QED BY <2>1, <2>2 DEF Arrays
  <1>11. Convert(h, type) = r
    BY <1>0, <1>10 DEF Convert
  <1>12. num = g.numAtCurMin
    <2>1. CASE type # "HLL_4"
      <3>1. g.curMin = 0
        BY <1>10, <2>1 DEF Encodes
      <3>2. AtMin(g, v) = Slots(k) \ filled
        BY <1>2, <1>10, <3>1 DEF AtMin
      <3>3. Cardinality(Slots(k) \ filled) = Cardinality(Slots(k)) - Cardinality(Slots(k) \cap filled)
        BY SlotsFinite, FS_Difference
      <3>4. Slots(k) \cap filled = filled
        BY <1>3
      <3>5. Cardinality(Slots(k)) = Power2(k)
        BY SlotsFinite
      <3> HIDE DEF g, filled
      <3> QED BY <1>10, <2>1, <3>2, <3>3, <3>4, <3>5 DEF Summed
    <2>2. CASE type = "HLL_4"
      BY <2>2
    <2> QED BY <2>1, <2>2
  <1> HIDE DEF g, num
  <1>13. /\ r \in Arrays(k) /\ r.lgK = g.lgK /\ r.type = g.type /\ r.ooo = g.ooo /\ r.rebuild = g.rebuild /\ r.hip = h.hip
         /\ r.array = g.array /\ r.aux = g.aux /\ r.curMin = g.curMin /\ r.numAtCurMin = g.numAtCurMin
         /\ r.kxq0 = g.kxq0 /\ r.kxq1 = g.kxq1 /\ r.mode = "HLL"
    <2>1. r = [g EXCEPT !.numAtCurMin = g.numAtCurMin, !.hip = h.hip, !.err = FALSE]
      BY <1>12
    <2> HIDE DEF r
    <2> QED BY <1>0, <1>10, <2>1 DEF Arrays
  <1> HIDE DEF r
  <1>14. Excess(r, v) = Excess(g, v) /\ Exceptional(r, v) = Exceptional(g, v) /\ AtMin(r, v) = AtMin(g, v)
    BY <1>13 DEF Excess, Exceptional, AtMin
  <1>15. Encodes(r, v) /\ Summed(r, v)
    BY <1>10, <1>13, <1>14 DEF Encodes, Summed
  <1> QED BY <1>0, <1>10, <1>11, <1>13, <1>15 DEF Array, Shiftable, Copied

\* A copy in any type: rebuilt if its summaries are stale.
LEMMA CopyAsFacts ==
  ASSUME NEW k \in Nat, NEW h \in Arrays(k), NEW v, Encodes(h, v), ~h.rebuild => Array(h, v), NEW type \in HllTypes
  PROVE  Array(CopyAs(h, type), v) /\ Copied(CopyAs(h, type), h, type)
  <1>1. h.mode = "HLL" /\ h.lgK = k /\ h.rebuild \in BOOLEAN
    BY DEF Arrays
  <1>2. CASE h.type = type /\ ~h.rebuild
    BY <1>1, <1>2 DEF CopyAs, Copied
  <1>3. CASE ~(h.type = type /\ ~h.rebuild)
    <2>1. CopyAs(h, type) = Convert(h, type)
      BY <1>1, <1>3 DEF CopyAs
    <2> QED BY <2>1, ConvertFacts
  <1> QED BY <1>2, <1>3

----------------------------------------------------------------------------
(* Merged registers *)

\* The largest of a finite set.
LEMMA MaxFacts ==
  ASSUME NEW M \in Nat, NEW S, S \subseteq 0..M, S # {}
  PROVE  Max(S) \in S /\ \A y \in S : y <= Max(S)
  <1> DEFINE B == {n \in Nat : n <= M /\ M - n \in S}
  <1>1. B # {} /\ B \subseteq Nat
    <2>1. PICK x \in S : TRUE
      OBVIOUS
    <2>2. M - x \in Nat /\ M - x <= M /\ M - (M - x) = x
      OBVIOUS
    <2> QED BY <2>2
  <1>2. PICK n \in B : \A m \in B : n <= m
    <2> HIDE DEF B
    <2> QED BY <1>1, LeastNatural
  <1>3. M - n \in S /\ \A y \in S : M - n >= y
    <2>1. n \in Nat /\ n <= M /\ M - n \in S
      BY <1>2
    <2>2. ASSUME NEW y \in S PROVE M - n >= y
      <3>0. y \in 0..M
        OBVIOUS
      <3>1. M - y \in Nat /\ M - y <= M /\ M - (M - y) = y
        BY <3>0
      <3>2. M - y \in B
        BY <3>1
      <3>3. n <= M - y
        BY <1>2, <3>2
      <3> QED BY <2>1, <3>0, <3>3
    <2> QED BY <2>1, <2>2
  <1>4. \E x \in S : \A y \in S : x >= y
    BY <1>3
  <1>5. Max(S) \in S /\ \A y \in S : Max(S) >= y
    BY <1>4 DEF Max
  <1>6. Max(S) \in 0..M /\ \A y \in S : y \in 0..M
    BY <1>5
  <1> QED BY <1>5, <1>6

\* w is d with every slot raised by the registers of v that fold onto it.
IsMerge(w, d, v, j, k) ==
  /\ w \in [Slots(j) -> 0..MAX_VALUE]
  /\ \A i \in Slots(j) :
       /\ w[i] = d[i] \/ \E s \in Slots(k) : s % Power2(j) = i /\ w[i] = v[s]
       /\ d[i] <= w[i]
       /\ \A s \in Slots(k) : s % Power2(j) = i => v[s] <= w[i]

MergedInto(dst, w) == [dst EXCEPT !.array = w, !.rebuild = TRUE, !.err = FALSE]
Reflagged(m, ooo, hip) == [m EXCEPT !.ooo = ooo, !.hip = hip]

\* mergeHll() folds the registers of a wider array onto those of a narrower one.
LEMMA MergeFacts ==
  ASSUME NEW j \in Nat, NEW k \in Nat, NEW dst \in Arrays(j), NEW d, Encodes(dst, d), dst.type = "HLL_8",
         NEW src \in Arrays(k), NEW v, Encodes(src, v)
  PROVE  \E w : MergeHll(dst, src) = MergedInto(dst, w) /\ IsMerge(w, d, v, j, k)
  <1> DEFINE Below(i) == {s \in DOMAIN src.array : s % Power2(dst.lgK) = i}
             Values(i) == {dst.array[i]} \cup {ValueOf(src, s) : s \in Below(i)}
             w == [i \in DOMAIN dst.array |-> Max(Values(i))]
  <1>0. dst.lgK = j /\ src.lgK = k /\ dst.err = FALSE /\ src.err = FALSE /\ Lost(src) = {}
    BY EncodesFacts DEF Arrays
  <1>1. /\ DOMAIN src.array = Slots(k) /\ \A s \in Slots(k) : ValueOf(src, s) = v[s]
        /\ v \in [Slots(k) -> 0..MAX_VALUE]
    BY <1>0, EncodesFacts DEF Encodes
  <1>2. dst.array = d /\ d \in [Slots(j) -> 0..MAX_VALUE] /\ DOMAIN d = Slots(j)
    BY <1>0 DEF Encodes
  <1>3. ASSUME NEW i \in Slots(j)
        PROVE  /\ Values(i) \subseteq 0..MAX_VALUE /\ d[i] \in Values(i)
               /\ \A s \in Slots(k) : s % Power2(j) = i => v[s] \in Values(i)
               /\ \A y \in Values(i) : y = d[i] \/ \E s \in Slots(k) : s % Power2(j) = i /\ y = v[s]
    <2>1. Below(i) = {s \in Slots(k) : s % Power2(j) = i}
      BY <1>0, <1>1
    <2>2. d[i] \in 0..MAX_VALUE /\ \A s \in Slots(k) : v[s] \in 0..MAX_VALUE
      BY <1>1, <1>2
    <2>3. \A s \in Below(i) : ValueOf(src, s) = v[s]
      BY <1>1, <2>1
    <2> HIDE DEF Below
    <2> QED BY <1>2, <2>1, <2>2, <2>3
  <1> HIDE DEF Values
  <1>4. \A i \in Slots(j) : w[i] \in Values(i) /\ \A y \in Values(i) : y <= w[i]
    <2> TAKE i \in Slots(j)
    <2>1. Max(Values(i)) \in Values(i) /\ \A y \in Values(i) : y <= Max(Values(i))
      BY <1>3, ConstantFacts, MaxFacts
    <2>2. w[i] = Max(Values(i))
      BY <1>2
    <2> QED BY <2>1, <2>2
  <1>5. w \in [Slots(j) -> 0..MAX_VALUE]
    <2>1. \A i \in Slots(j) : Max(Values(i)) \in 0..MAX_VALUE
      <3> TAKE i \in Slots(j)
      <3>1. Max(Values(i)) \in Values(i)
        BY <1>3, ConstantFacts, MaxFacts
      <3> QED BY <1>3, <3>1
    <2> QED BY <1>2, <2>1
  <1>6. MergeHll(dst, src) = [dst EXCEPT !.array = w, !.rebuild = TRUE, !.err = FALSE]
    <2>1. MergeHll(dst, src) = [dst EXCEPT !.array = w, !.rebuild = TRUE, !.err = @ \/ src.err \/ Lost(src) # {}]
      BY DEF MergeHll, Values
    <2> HIDE DEF w
    <2> QED BY <1>0, <2>1
  <1> HIDE DEF w
  <1>7. IsMerge(w, d, v, j, k)
    BY <1>3, <1>4, <1>5 DEF IsMerge
  <1> QED BY <1>6, <1>7 DEF MergedInto

\* An array that was merged into, with the registers w
Rebuilt(r, w, j, ooo, hip) ==
  /\ r \in Arrays(j) /\ Encodes(r, w)
  /\ r.lgK = j /\ r.type = "HLL_8" /\ (r.ooo <=> ooo) /\ (r.hip <=> hip) /\ r.rebuild

\* An array that was merged into has the merged registers, and waits for a rebuild.
LEMMA MergedArray ==
  ASSUME NEW j \in Nat, NEW dst \in Arrays(j), NEW d, Encodes(dst, d), dst.type = "HLL_8",
         NEW w \in [Slots(j) -> 0..MAX_VALUE], NEW ooo \in BOOLEAN, NEW hip \in BOOLEAN
  PROVE  Rebuilt(Reflagged(MergedInto(dst, w), ooo, hip), w, j, ooo, hip)
  <1>0. PICK r : r = [dst EXCEPT !.array = w, !.rebuild = TRUE, !.err = FALSE, !.ooo = ooo, !.hip = hip]
    OBVIOUS
  <1>1. dst.lgK = j /\ dst.aux = <<>> /\ dst.curMin = 0
    BY DEF Encodes, Arrays
  <1>2. w \in [Slots(j) -> Nat] /\ \A s \in Slots(j) : w[s] \in 0..MAX_VALUE /\ 0 <= w[s]
    <2>1. \A s \in Slots(j) : w[s] \in 0..MAX_VALUE /\ w[s] \in Nat /\ 0 <= w[s]
      OBVIOUS
    <2> QED BY <2>1
  <1>3. r \in Arrays(j)
    BY <1>0, <1>2 DEF Arrays
  <1>4. /\ r.lgK = dst.lgK /\ r.type = dst.type /\ r.ooo = ooo /\ r.hip = hip /\ r.rebuild = TRUE
        /\ r.array = w /\ r.aux = dst.aux /\ r.curMin = dst.curMin
    BY <1>0 DEF Arrays
  <1>5. Encodes(r, w)
    BY <1>1, <1>2, <1>4 DEF Encodes
  <1>6. Rebuilt(r, w, j, ooo, hip)
    BY <1>1, <1>3, <1>4, <1>5 DEF Rebuilt
  <1>7. r = Reflagged(MergedInto(dst, w), ooo, hip)
    BY <1>0 DEF Reflagged, MergedInto
  <1> QED BY <1>6, <1>7

----------------------------------------------------------------------------
(* LIST and SET *)

\* n coupons have no room before the array.
Full(n, k) ==
  /\ n >= Power2(LG_INIT_LIST_SIZE)
  /\ \/ k < MIN_SET_LG_K
     \/ n > Power2(LG_INIT_LIST_SIZE) /\ 4 * n > 3 * Power2(k - SET_MARGIN)

\* The size of the table a SET of n coupons has grown to
Fits(n, k, l) ==
  /\ l \in Nat /\ LG_INIT_SET_SIZE <= l /\ l <= k - SET_MARGIN
  /\ l # k - SET_MARGIN => 4 * n <= 3 * Power2(l)
  /\ l # LG_INIT_SET_SIZE => 4 * n > 3 * Power2(l - 1)

CouponsWith(mode, k, type, D, l) ==
  [mode |-> mode, lgK |-> k, type |-> type, coupons |-> D, lgArr |-> l,
   array |-> <<>>, aux |-> <<>>, curMin |-> 0, numAtCurMin |-> 0, kxq0 |-> 0, kxq1 |-> 0,
   hip |-> FALSE, ooo |-> FALSE, rebuild |-> FALSE, err |-> FALSE]

ListWith(k, type, D) == CouponsWith("LIST", k, type, D, LG_INIT_LIST_SIZE)
SetWith(k, type, D, l) == CouponsWith("SET", k, type, D, l)

\* The fields of a LIST or a SET.
LEMMA CouponsWithFields ==
  ASSUME NEW mode, NEW k, NEW type, NEW D, NEW l, NEW h, h = CouponsWith(mode, k, type, D, l)
  PROVE  /\ h.mode = mode /\ h.lgK = k /\ h.type = type /\ h.coupons = D /\ h.lgArr = l /\ ~h.err
         /\ h.array = <<>> /\ h.aux = <<>> /\ ~h.ooo
  BY DEF CouponsWith

\* With other coupons.
LEMMA CouponsWithCoupons ==
  ASSUME NEW mode, NEW k, NEW type, NEW D, NEW l, NEW h, h = CouponsWith(mode, k, type, D, l), NEW E,
         NEW r, r = [h EXCEPT !.coupons = E]
  PROVE  r = CouponsWith(mode, k, type, E, l)
  BY DEF CouponsWith

\* With a table of another size.
LEMMA CouponsWithSize ==
  ASSUME NEW mode, NEW k, NEW type, NEW D, NEW l, NEW h, h = CouponsWith(mode, k, type, D, l), NEW m,
         NEW r, r = [h EXCEPT !.lgArr = m]
  PROVE  r = CouponsWith(mode, k, type, D, m)
  BY DEF CouponsWith

\* With another type.
LEMMA CouponsWithType ==
  ASSUME NEW mode, NEW k, NEW type, NEW D, NEW l, NEW h, h = CouponsWith(mode, k, type, D, l), NEW t,
         NEW r, r = [h EXCEPT !.type = t]
  PROVE  r = CouponsWith(mode, k, t, D, l)
  BY DEF CouponsWith

\* A new LIST and a new SET.
LEMMA NewCoupons ==
  ASSUME NEW k, NEW type
  PROVE  /\ NewList(k, type) = ListWith(k, type, {})
         /\ NewSet(k, type) = SetWith(k, type, {}, LG_INIT_SET_SIZE)
  <1>1. NewList(k, type) = ListWith(k, type, {})
    BY DEF ListWith, CouponsWith, NewList
  <1>2. NewSet(k, type) = SetWith(k, type, {}, LG_INIT_SET_SIZE)
    <2>1. PICK r : r = NewSet(k, type)
      OBVIOUS
    <2>2. r = [NewList(k, type) EXCEPT !.mode = "SET", !.lgArr = LG_INIT_SET_SIZE]
      BY <2>1 DEF NewSet
    <2>3. r = SetWith(k, type, {}, LG_INIT_SET_SIZE)
      BY <2>2 DEF SetWith, CouponsWith, NewList
    <2> QED BY <2>1, <2>3
  <1> QED BY <1>1, <1>2

\* The number of coupons determines the size of the table.
LEMMA FitsUnique ==
  ASSUME NEW n \in Nat, NEW k \in Nat, NEW l, NEW m, Fits(n, k, l), Fits(n, k, m)
  PROVE  l = m
  <1>1. ASSUME NEW a, NEW b, Fits(n, k, a), Fits(n, k, b), a < b PROVE FALSE
    <2>1. a \in Nat /\ b \in Nat /\ a # k - SET_MARGIN /\ b # LG_INIT_SET_SIZE
      BY <1>1, ConstantFacts DEF Fits
    <2>2. 4 * n <= 3 * Power2(a) /\ 4 * n > 3 * Power2(b - 1)
      BY <1>1, <2>1 DEF Fits
    <2>3. b - 1 \in Nat /\ a <= b - 1
      BY <1>1, <2>1
    <2>4. Power2(a) <= Power2(b - 1) /\ Power2(a) \in Nat /\ Power2(b - 1) \in Nat
      BY <2>1, <2>3, PowerMonotone, PowerFacts
    <2> QED BY <2>2, <2>4
  <1>2. l \in Nat /\ m \in Nat
    BY DEF Fits
  <1>3. l < m \/ m < l \/ l = m
    BY <1>2
  <1> QED BY <1>1, <1>3

\* More coupons, or a narrower sketch, are not less full.
LEMMA FullMonotone ==
  ASSUME NEW n \in Nat, NEW m \in Nat, n <= m, NEW j \in Nat, NEW k \in Nat, j <= k, Full(n, k)
  PROVE  Full(m, j)
  <1>1. Power2(LG_INIT_LIST_SIZE) \in Nat
    BY PowerFacts, ConstantFacts
  <1>2. m >= Power2(LG_INIT_LIST_SIZE)
    BY <1>1 DEF Full
  <1>3. CASE j < MIN_SET_LG_K
    BY <1>2, <1>3 DEF Full
  <1>4. CASE ~(j < MIN_SET_LG_K)
    <2>1. ~(k < MIN_SET_LG_K) /\ j - SET_MARGIN \in Nat /\ k - SET_MARGIN \in Nat
      BY <1>4, ConstantFacts
    <2>2. n > Power2(LG_INIT_LIST_SIZE) /\ 4 * n > 3 * Power2(k - SET_MARGIN)
      BY <2>1 DEF Full
    <2>3. /\ Power2(j - SET_MARGIN) <= Power2(k - SET_MARGIN)
          /\ Power2(j - SET_MARGIN) \in Nat /\ Power2(k - SET_MARGIN) \in Nat
      <3>1. j - SET_MARGIN <= k - SET_MARGIN
        BY ConstantFacts
      <3> QED BY <2>1, <3>1, PowerMonotone, PowerFacts
    <2>4. m > Power2(LG_INIT_LIST_SIZE) /\ 4 * m > 3 * Power2(j - SET_MARGIN)
      BY <1>1, <2>2, <2>3
    <2> QED BY <1>2, <2>4 DEF Full
  <1> QED BY <1>3, <1>4

\* The table grows at most once for a new coupon.
LEMMA FitsGrows ==
  ASSUME NEW n \in Nat, NEW k \in Nat, NEW l, Fits(n, k, l)
  PROVE  Fits(n + 1, k, IF 4 * (n + 1) > 3 * Power2(l) /\ l # k - SET_MARGIN THEN l + 1 ELSE l)
  <1>0. /\ l \in Nat /\ LG_INIT_SET_SIZE <= l /\ l <= k - SET_MARGIN /\ LG_INIT_SET_SIZE \in Nat /\ SET_MARGIN \in Nat
        /\ l # k - SET_MARGIN => 4 * n <= 3 * Power2(l)
        /\ l # LG_INIT_SET_SIZE => 4 * n > 3 * Power2(l - 1)
        /\ Power2(l) \in Nat \ {0} /\ Power2(l + 1) = 2 * Power2(l)
    BY ConstantFacts, PowerFacts DEF Fits
  <1>1. CASE 4 * (n + 1) > 3 * Power2(l) /\ l # k - SET_MARGIN
    <2>1. l + 1 \in Nat /\ LG_INIT_SET_SIZE <= l + 1 /\ l + 1 <= k - SET_MARGIN /\ (l + 1) - 1 = l
      BY <1>0, <1>1
    <2>2. 4 * (n + 1) <= 3 * Power2(l + 1)
      <3>1. 4 * n <= 3 * Power2(l)
        BY <1>0, <1>1
      <3>2. ASSUME NEW p \in Nat, p >= 1, 4 * n <= 3 * p PROVE 4 * (n + 1) <= 6 * p
        BY <3>2
      <3>3. Power2(l) >= 1 /\ 3 * (2 * Power2(l)) = 6 * Power2(l)
        BY <1>0
      <3> QED BY <1>0, <3>1, <3>2, <3>3
    <2> QED BY <1>1, <2>1, <2>2 DEF Fits
  <1>2. CASE ~(4 * (n + 1) > 3 * Power2(l) /\ l # k - SET_MARGIN)
    <2>1. l # k - SET_MARGIN => 4 * (n + 1) <= 3 * Power2(l)
      BY <1>0, <1>2
    <2>2. l # LG_INIT_SET_SIZE => 4 * (n + 1) > 3 * Power2(l - 1)
      <3>1. l # LG_INIT_SET_SIZE => l - 1 \in Nat
        BY <1>0
      <3>2. l # LG_INIT_SET_SIZE => Power2(l - 1) \in Nat
        BY <3>1, PowerFacts
      <3> QED BY <1>0, <3>2
    <2> QED BY <1>0, <1>2, <2>1, <2>2 DEF Fits
  <1> QED BY <1>1, <1>2

\* A new SET has the smallest table.
LEMMA FitsFirst ==
  ASSUME NEW k \in Nat, k >= MIN_SET_LG_K
  PROVE  Fits(0, k, LG_INIT_SET_SIZE)
  <1>1. /\ LG_INIT_SET_SIZE \in Nat /\ LG_INIT_SET_SIZE <= k - SET_MARGIN
    BY ConstantFacts
  <1>2. Power2(LG_INIT_SET_SIZE) \in Nat
    BY <1>1, PowerFacts
  <1> QED BY <1>1, <1>2 DEF Fits

\* One coupon more.
LEMMA AddedCardinality ==
  ASSUME NEW D, IsFiniteSet(D), NEW c
  PROVE  /\ IsFiniteSet(D \cup {c}) /\ Cardinality(D) \in Nat
         /\ Cardinality(D \cup {c}) = IF c \in D THEN Cardinality(D) ELSE Cardinality(D) + 1
  BY FS_AddElement, FS_CardinalityType

\* A coupon put into a SET whose table fits its coupons.
LEMMA InsertedFacts ==
  ASSUME NEW k \in Nat, NEW type, NEW D, IsFiniteSet(D), NEW l, Fits(Cardinality(D), k, l), NEW c
  PROVE  \E m : /\ Fits(Cardinality(D \cup {c}), k, m)
                /\ Inserted(SetWith(k, type, D, l), c) = SetWith(k, type, D \cup {c}, m)
  <1> DEFINE h == SetWith(k, type, D, l)
             E == D \cup {c}
             g == [h EXCEPT !.coupons = @ \cup {c}]
             n == Cardinality(D)
  <1>0. /\ IsFiniteSet(E) /\ n \in Nat
        /\ Cardinality(E) = IF c \in D THEN n ELSE n + 1
    BY AddedCardinality
  <1>1. h.coupons = D /\ g = SetWith(k, type, E, l)
    <2>1. h = CouponsWith("SET", k, type, D, l)
      BY DEF SetWith
    <2> HIDE DEF h
    <2>2. h.coupons = D
      BY <2>1, CouponsWithFields
    <2>3. g = [h EXCEPT !.coupons = E]
      BY <2>2
    <2> HIDE DEF g, E
    <2>4. g = CouponsWith("SET", k, type, E, l)
      BY <2>1, <2>3, CouponsWithCoupons
    <2> QED BY <2>2, <2>4 DEF SetWith
  <1>2. CASE c \in D
    <2>1. Inserted(h, c) = g
      BY <1>1, <1>2 DEF Inserted
    <2> QED BY <1>0, <1>1, <1>2, <2>1
  <1>3. CASE c \notin D
    <2> DEFINE grows == 4 * (n + 1) > 3 * Power2(l) /\ l # k - SET_MARGIN
               m == IF grows THEN l + 1 ELSE l
    <2>1. Fits(n + 1, k, m)
      BY <1>0, FitsGrows
    <2>2. g.coupons = E /\ g.lgArr = l /\ g.lgK = k
      BY <1>1, CouponsWithFields DEF SetWith
    <2>3. Cardinality(E) = n + 1
      BY <1>0, <1>3
    <2>4. (c \notin h.coupons /\ Crowded(g) /\ g.lgArr # g.lgK - SET_MARGIN) <=> grows
      BY <1>1, <1>3, <2>2, <2>3 DEF Crowded
    <2>5. Inserted(h, c) = IF grows THEN [g EXCEPT !.lgArr = @ + 1] ELSE g
      <3>1. Inserted(h, c) = IF c \notin h.coupons /\ Crowded(g) /\ g.lgArr # g.lgK - SET_MARGIN
                             THEN [g EXCEPT !.lgArr = @ + 1] ELSE g
        BY DEF Inserted
      <3> HIDE DEF grows, g, h
      <3> QED BY <2>4, <3>1
    <2>6. [g EXCEPT !.lgArr = @ + 1] = SetWith(k, type, E, l + 1)
      <3> HIDE DEF g
      <3>1. g = CouponsWith("SET", k, type, E, l)
        BY <1>1 DEF SetWith
      <3>2. PICK r : r = [g EXCEPT !.lgArr = l + 1]
        OBVIOUS
      <3>3. r = CouponsWith("SET", k, type, E, l + 1)
        BY <3>1, <3>2, CouponsWithSize
      <3>4. [g EXCEPT !.lgArr = @ + 1] = r
        BY <2>2, <3>2
      <3> QED BY <3>3, <3>4 DEF SetWith
    <2>7. Inserted(h, c) = SetWith(k, type, E, m)
      <3> HIDE DEF grows, g, h
      <3> QED BY <1>1, <2>5, <2>6
    <2> HIDE DEF m, E, h
    <2> QED BY <2>1, <2>3, <2>7 DEF E, h
  <1> QED BY <1>2, <1>3

\* A SET made of a set of coupons, in whatever order, has the table that fits their
\* number.
LEMMA InsertionsFacts ==
  ASSUME NEW k \in Nat, k >= MIN_SET_LG_K, NEW type, NEW C, IsFiniteSet(C)
  PROVE  \E l : /\ Fits(Cardinality(C), k, l)
                /\ Insertions(NewSet(k, type), C) = SetWith(k, type, C, l)
  <1> DEFINE V == {SetWith(k, type, p[1], p[2]) : p \in {q \in (SUBSET C) \X Nat : Fits(Cardinality(q[1]), k, q[2])}}
             R == {p \in (SUBSET C) \X V : \E l \in Nat : Fits(Cardinality(p[1]), k, l) /\ p[2] = SetWith(k, type, p[1], l)}
             h == NewSet(k, type)
  <1>0. \A D \in SUBSET C : IsFiniteSet(D)
    BY FS_Subset
  <1>1. ASSUME NEW D \in SUBSET C, NEW l \in Nat, Fits(Cardinality(D), k, l) PROVE SetWith(k, type, D, l) \in V
    <2>1. <<D, l>> \in {q \in (SUBSET C) \X Nat : Fits(Cardinality(q[1]), k, q[2])}
      BY <1>1
    <2>2. SetWith(k, type, <<D, l>>[1], <<D, l>>[2]) = SetWith(k, type, D, l)
      OBVIOUS
    <2> QED BY <2>1, <2>2
  <1>2. ASSUME NEW u \in V PROVE \E D \in SUBSET C, l \in Nat : Fits(Cardinality(D), k, l) /\ u = SetWith(k, type, D, l)
    OBVIOUS
  <1>3. h = SetWith(k, type, {}, LG_INIT_SET_SIZE) /\ Fits(Cardinality({}), k, LG_INIT_SET_SIZE)
        /\ LG_INIT_SET_SIZE \in Nat
    <2>1. h = SetWith(k, type, {}, LG_INIT_SET_SIZE)
      BY NewCoupons
    <2>2. Cardinality({}) = 0
      BY FS_EmptySet
    <2> QED BY <2>1, <2>2, FitsFirst, ConstantFacts
  <1> HIDE DEF V
  <1>4. ASSUME NEW c \in C, NEW D \in SUBSET C, NEW l \in Nat, Fits(Cardinality(D), k, l)
        PROVE  \E m \in Nat : /\ Fits(Cardinality(D \cup {c}), k, m)
                              /\ Inserted(SetWith(k, type, D, l), c) = SetWith(k, type, D \cup {c}, m)
                              /\ Inserted(SetWith(k, type, D, l), c) \in V
    <2>1. PICK m : /\ Fits(Cardinality(D \cup {c}), k, m)
                   /\ Inserted(SetWith(k, type, D, l), c) = SetWith(k, type, D \cup {c}, m)
      BY <1>0, <1>4, InsertedFacts
    <2>2. m \in Nat /\ D \cup {c} \in SUBSET C
      BY <2>1 DEF Fits
    <2> QED BY <1>1, <2>1, <2>2
  <1>5. ASSUME NEW c \in C, NEW u \in V PROVE Inserted(u, c) \in V
    <2>1. PICK D \in SUBSET C, l \in Nat : Fits(Cardinality(D), k, l) /\ u = SetWith(k, type, D, l)
      BY <1>2
    <2> QED BY <1>4, <2>1
  <1>6. h \in V /\ <<{}, h>> \in R
    <2>1. h \in V
      BY <1>1, <1>3
    <2> HIDE DEF h
    <2> QED BY <1>3, <2>1
  <1>7. ASSUME NEW T \in SUBSET C, NEW c \in C \ T, NEW u \in V, <<T, u>> \in R
        PROVE  <<T \cup {c}, Inserted(u, c)>> \in R
    <2>1. PICK l \in Nat : Fits(Cardinality(T), k, l) /\ u = SetWith(k, type, T, l)
      BY <1>7
    <2>2. PICK m \in Nat : /\ Fits(Cardinality(T \cup {c}), k, m)
                           /\ Inserted(u, c) = SetWith(k, type, T \cup {c}, m)
                           /\ Inserted(u, c) \in V
      BY <1>4, <2>1
    <2> QED BY <2>2
  <1>8. <<C, Insertions(h, C)>> \in R
    <2> HIDE DEF R, h
    <2> QED BY <1>5, <1>6, <1>7, InsertionsInduct
  <1> QED BY <1>8

----------------------------------------------------------------------------
(* Promotions *)

\* r is g but for the flags.
Flags(r, g, hip, ooo) ==
  r.lgK = g.lgK /\ r.type = g.type /\ r.rebuild = g.rebuild /\ r.hip = hip /\ r.ooo = ooo /\ r.mode = "HLL"

\* The flags are apart from registers and summaries.
LEMMA FlagsSet ==
  ASSUME NEW g, NEW v, Array(g, v), NEW hip \in BOOLEAN, NEW ooo \in BOOLEAN,
         NEW r, r = [g EXCEPT !.hip = hip, !.ooo = ooo]
  PROVE  Array(r, v) /\ Flags(r, g, hip, ooo)
  <1>1. g \in Arrays(g.lgK) /\ Encodes(g, v) /\ Summed(g, v) /\ (g.type = "HLL_4" => g.numAtCurMin # 0) /\ g.lgK \in Nat
    BY DEF Array, Shiftable
  <1>2. PICK k : k = g.lgK
    OBVIOUS
  <1>3. r \in Arrays(k)
    BY <1>1, <1>2 DEF Arrays
  <1>4. /\ r.lgK = g.lgK /\ r.type = g.type /\ r.rebuild = g.rebuild
        /\ r.array = g.array /\ r.aux = g.aux /\ r.curMin = g.curMin /\ r.numAtCurMin = g.numAtCurMin
        /\ r.kxq0 = g.kxq0 /\ r.kxq1 = g.kxq1 /\ r.mode = "HLL"
    BY <1>1 DEF Arrays
  <1>5. r.hip = hip /\ r.ooo = ooo
    BY <1>1 DEF Arrays
  <1>6. Excess(r, v) = Excess(g, v) /\ Exceptional(r, v) = Exceptional(g, v) /\ AtMin(r, v) = AtMin(g, v)
    BY <1>4 DEF Excess, Exceptional, AtMin
  <1>7. Encodes(r, v) /\ Summed(r, v)
    BY <1>1, <1>4, <1>6 DEF Encodes, Summed
  <1> QED BY <1>1, <1>2, <1>3, <1>4, <1>5, <1>7 DEF Array, Shiftable, Flags

\* An array that counts the changes it has seen
InOrder(u, k, type) == u.lgK = k /\ u.type = type /\ ~u.ooo /\ u.hip /\ ~u.rebuild /\ u.mode = "HLL"

\* The promotion to an array raises its zeros to the coupons, in order: HIP is
\* right.
LEMMA PromoteFacts ==
  ASSUME NEW k \in Nat, NEW type \in HllTypes, NEW D, IsFiniteSet(D), D \subseteq Nat \X (1..MAX_VALUE), D # {},
         NEW src, src.lgK = k, src.type = type, src.coupons = D
  PROVE  /\ InOrder(PromoteListOrSetToHll(src), k, type)
         /\ \E v : Array(PromoteListOrSetToHll(src), v) /\ IsTop(v, Zeros(k), D, k)
  <1> DEFINE n == NewArray(k, type)
             g == ArrayUpdates(n, D)
             r == PromoteListOrSetToHll(src)
  <1>1. Array(n, Zeros(k)) /\ n.lgK = k /\ n.type = type /\ ~n.rebuild
    BY NewArrayFacts
  <1>2. Kept(g, n) /\ \E w : Array(g, w) /\ IsTop(w, Zeros(k), D, k)
    <2> HIDE DEF n
    <2> QED BY <1>1, ArrayUpdatesFacts
  <1>3. PICK v : Array(g, v) /\ IsTop(v, Zeros(k), D, k)
    BY <1>2
  <1>4. r = [g EXCEPT !.hip = TRUE, !.ooo = FALSE]
    BY DEF PromoteListOrSetToHll
  <1> HIDE DEF r, g, n
  <1>5. /\ Array(r, v) /\ r.lgK = g.lgK /\ r.type = g.type /\ r.rebuild = g.rebuild
        /\ r.hip = TRUE /\ r.ooo = FALSE /\ r.mode = "HLL"
    <2>1. Array(r, v) /\ Flags(r, g, TRUE, FALSE)
      BY <1>3, <1>4, FlagsSet
    <2> QED BY <2>1 DEF Flags
  <1>6. InOrder(r, k, type)
    BY <1>1, <1>2, <1>5 DEF InOrder, Kept
  <1> QED BY <1>3, <1>5, <1>6 DEF r

CouponSketch(u, D, k, type) ==
  IF Cardinality(D) < Power2(LG_INIT_LIST_SIZE) THEN u = ListWith(k, type, D)
  ELSE \E l : Fits(Cardinality(D), k, l) /\ u = SetWith(k, type, D, l)

\* u is what coupons D put into an empty sketch make.
Made(u, D, k, type) ==
  IF Full(Cardinality(D), k)
  THEN InOrder(u, k, type) /\ \E v : Array(u, v) /\ IsTop(v, Zeros(k), D, k)
  ELSE CouponSketch(u, D, k, type)

\* A coupon put into a sketch: it is what all coupons so far make, whatever
\* promotion that takes.
LEMMA CouponUpdateFacts ==
  ASSUME NEW k \in Nat, NEW type \in HllTypes, NEW D, IsFiniteSet(D), D \subseteq Nat \X (1..MAX_VALUE),
         NEW u, Made(u, D, k, type), NEW c, c \in Nat \X (1..MAX_VALUE)
  PROVE  Made(CouponUpdate(u, c), D \cup {c}, k, type)
  <1> DEFINE E == D \cup {c}
             n == Cardinality(D)
             r == CouponUpdate(u, c)
  <1>0. /\ IsFiniteSet(E) /\ n \in Nat /\ Cardinality(E) = IF c \in D THEN n ELSE n + 1
        /\ E \subseteq Nat \X (1..MAX_VALUE) /\ E # {} /\ Power2(LG_INIT_LIST_SIZE) \in Nat \ {0}
    BY AddedCardinality, PowerFacts, ConstantFacts
  <1>1. CASE Full(n, k)
    <2>1. InOrder(u, k, type) /\ \E v : Array(u, v) /\ IsTop(v, Zeros(k), D, k)
      BY <1>1 DEF Made
    <2>2. PICK v : Array(u, v) /\ IsTop(v, Zeros(k), D, k)
      BY <2>1
    <2>3. r = ArrayUpdate(u, c)
      BY <2>1 DEF CouponUpdate, InOrder
    <2> DEFINE w == Raised(v, c[1] % Power2(k), c[2])
    <2>4. u.lgK = k
      BY <2>1 DEF InOrder
    <2>5. Array(r, w) /\ Kept(r, u)
      BY <2>2, <2>3, <2>4, ArrayUpdateFacts
    <2>6. IsTop(w, Zeros(k), E, k)
      BY <2>2, NewArrayFacts, TopRaised
    <2>7. Full(Cardinality(E), k)
      <3>1. n <= Cardinality(E) /\ Cardinality(E) \in Nat /\ k <= k
        BY <1>0
      <3> HIDE DEF n, E
      <3> QED BY <1>0, <1>1, <3>1, FullMonotone
    <2> HIDE DEF r, w
    <2>8. r.mode = "HLL"
      BY <2>5 DEF Array, Shiftable, Arrays
    <2>9. InOrder(r, k, type)
      BY <2>1, <2>5, <2>8 DEF InOrder, Kept
    <2> QED BY <2>5, <2>6, <2>7, <2>9 DEF Made, r
  <1>2. CASE ~Full(n, k) /\ n < Power2(LG_INIT_LIST_SIZE)
    <2>1. u = ListWith(k, type, D)
      BY <1>2 DEF Made, CouponSketch
    <2>2. u.mode = "LIST" /\ u.lgK = k /\ u.type = type /\ u.coupons = D
      BY <2>1, CouponsWithFields DEF ListWith
    <2> DEFINE g == [u EXCEPT !.coupons = @ \cup {c}]
    <2>3. g = ListWith(k, type, E)
      <3>1. g = [u EXCEPT !.coupons = E]
        BY <2>2
      <3> HIDE DEF g, E
      <3> QED BY <2>1, <3>1, CouponsWithCoupons DEF ListWith
    <2>4. r = ListUpdate(u, c)
      BY <2>2 DEF CouponUpdate
    <2>5. ListUpdate(u, c) = IF c \in u.coupons \/ Cardinality(g.coupons) < Power2(LG_INIT_LIST_SIZE) THEN g
                             ELSE IF u.lgK < MIN_SET_LG_K THEN PromoteListOrSetToHll(g)
                             ELSE PromoteListToSet(g)
      BY DEF ListUpdate
    <2> HIDE DEF g, E, r
    <2>6. g.coupons = E /\ g.lgK = k /\ g.type = type
      BY <2>3, CouponsWithFields DEF ListWith
    <2>7. CASE Cardinality(E) < Power2(LG_INIT_LIST_SIZE)
      <3>1. r = g
        BY <2>4, <2>5, <2>6, <2>7
      <3>2. ~Full(Cardinality(E), k)
        BY <1>0, <2>7 DEF Full
      <3> QED BY <2>3, <2>7, <3>1, <3>2 DEF Made, CouponSketch, E, r
    <2>8. CASE ~(Cardinality(E) < Power2(LG_INIT_LIST_SIZE))
      <3>0. c \notin D /\ Cardinality(E) = Power2(LG_INIT_LIST_SIZE)
        BY <1>0, <1>2, <2>8
      <3>1. CASE k < MIN_SET_LG_K
        <4>1. r = PromoteListOrSetToHll(g)
          BY <2>2, <2>4, <2>5, <2>6, <2>8, <3>0, <3>1
        <4>2. Full(Cardinality(E), k)
          BY <1>0, <3>0, <3>1 DEF Full
        <4>3. /\ InOrder(r, k, type)
              /\ \E v : Array(r, v) /\ IsTop(v, Zeros(k), E, k)
          BY <1>0, <2>6, <4>1, PromoteFacts
        <4> QED BY <4>2, <4>3 DEF Made, E, r
      <3>2. CASE ~(k < MIN_SET_LG_K)
        <4>1. r = PromoteListToSet(g)
          BY <2>2, <2>4, <2>5, <2>6, <2>8, <3>0, <3>2
        <4>2. ~Full(Cardinality(E), k)
          BY <1>0, <3>0, <3>2 DEF Full
        <4>3. r = Insertions(NewSet(k, type), E)
          BY <2>6, <4>1 DEF PromoteListToSet
        <4>4. \E l : Fits(Cardinality(E), k, l) /\ r = SetWith(k, type, E, l)
          <5>1. k >= MIN_SET_LG_K
            BY <3>2, ConstantFacts
          <5> QED BY <1>0, <4>3, <5>1, InsertionsFacts
        <4>5. CouponSketch(r, E, k, type)
          BY <2>8, <4>4 DEF CouponSketch
        <4> QED BY <4>2, <4>5 DEF Made, E, r
      <3> QED BY <3>1, <3>2
    <2> QED BY <2>7, <2>8
  <1>3. CASE ~Full(n, k) /\ ~(n < Power2(LG_INIT_LIST_SIZE))
    <2>0. PICK l : Fits(n, k, l) /\ u = SetWith(k, type, D, l)
      BY <1>3 DEF Made, CouponSketch
    <2>1. ~(k < MIN_SET_LG_K) /\ n >= Power2(LG_INIT_LIST_SIZE)
          /\ (n > Power2(LG_INIT_LIST_SIZE) => ~(4 * n > 3 * Power2(k - SET_MARGIN)))
      BY <1>0, <1>3 DEF Full
    <2>2. u.mode = "SET" /\ u.lgK = k /\ u.type = type /\ u.coupons = D
      BY <2>0, CouponsWithFields DEF SetWith
    <2> DEFINE g == Inserted(u, c)
    <2>3. PICK m : Fits(Cardinality(E), k, m) /\ g = SetWith(k, type, E, m)
      BY <2>0, InsertedFacts
    <2>4. r = SetUpdate(u, c)
      BY <2>2 DEF CouponUpdate
    <2>5. SetUpdate(u, c) = IF c \notin u.coupons /\ Crowded(g) THEN PromoteListOrSetToHll(g) ELSE g
      BY DEF SetUpdate
    <2> HIDE DEF g, E, r
    <2>6. g.coupons = E /\ g.lgK = k /\ g.type = type /\ g.lgArr = m
      BY <2>3, CouponsWithFields DEF SetWith
    <2>7. ~(Cardinality(E) < Power2(LG_INIT_LIST_SIZE))
      BY <1>0, <2>1
    <2>8. CASE c \in D
      <3>1. r = g /\ Cardinality(E) = n
        BY <1>0, <2>2, <2>4, <2>5, <2>8
      <3>2. CouponSketch(r, E, k, type)
        BY <2>3, <2>7, <3>1 DEF CouponSketch
      <3> QED BY <1>3, <3>1, <3>2 DEF Made, E, r
    <2>9. CASE c \notin D
      <3>1. Cardinality(E) = n + 1 /\ Cardinality(E) > Power2(LG_INIT_LIST_SIZE)
        BY <1>0, <2>1, <2>9
      <3>2. Crowded(g) <=> 4 * (n + 1) > 3 * Power2(m)
        BY <2>6, <3>1 DEF Crowded
      <3>3. Full(n + 1, k) <=> 4 * (n + 1) > 3 * Power2(k - SET_MARGIN)
        BY <1>0, <2>1, <3>1 DEF Full
      <3>4. 4 * (n + 1) > 3 * Power2(m) <=> 4 * (n + 1) > 3 * Power2(k - SET_MARGIN)
        <4>1. CASE m = k - SET_MARGIN
          BY <4>1
        <4>2. CASE m # k - SET_MARGIN
          <5>1. 4 * (n + 1) <= 3 * Power2(m) /\ m \in Nat /\ m <= k - SET_MARGIN
            BY <2>3, <3>1, <4>2 DEF Fits
          <5>2. k - SET_MARGIN \in Nat
            BY <5>1, ConstantFacts
          <5>3. Power2(m) <= Power2(k - SET_MARGIN) /\ Power2(m) \in Nat /\ Power2(k - SET_MARGIN) \in Nat
            BY <5>1, <5>2, PowerMonotone, PowerFacts
          <5> HIDE DEF n
          <5> QED BY <1>0, <5>1, <5>3
        <4> QED BY <4>1, <4>2
      <3>5. CASE Full(n + 1, k)
        <4>1. r = PromoteListOrSetToHll(g)
          BY <2>2, <2>4, <2>5, <2>9, <3>2, <3>3, <3>4, <3>5
        <4>2. /\ InOrder(r, k, type)
              /\ \E v : Array(r, v) /\ IsTop(v, Zeros(k), E, k)
          BY <1>0, <2>6, <4>1, PromoteFacts
        <4> QED BY <3>1, <3>5, <4>2 DEF Made, E, r
      <3>6. CASE ~Full(n + 1, k)
        <4>1. r = g
          BY <2>2, <2>4, <2>5, <2>9, <3>2, <3>3, <3>4, <3>6
        <4>2. CouponSketch(r, E, k, type)
          BY <2>3, <2>7, <4>1 DEF CouponSketch
        <4> QED BY <3>1, <3>6, <4>2 DEF Made, E, r
      <3> QED BY <3>5, <3>6
    <2> QED BY <2>8, <2>9
  <1> QED BY <1>1, <1>2, <1>3

\* Coupons put into a sketch, in whatever order.
LEMMA CouponUpdatesFacts ==
  ASSUME NEW k \in Nat, NEW type \in HllTypes, NEW D, IsFiniteSet(D), D \subseteq Nat \X (1..MAX_VALUE),
         NEW h, Made(h, D, k, type), NEW C, IsFiniteSet(C), C \subseteq Nat \X (1..MAX_VALUE)
  PROVE  Made(CouponUpdates(h, C), D \cup C, k, type)
  <1> DEFINE Lists == {ListWith(k, type, X) : X \in SUBSET (D \cup C)}
             Sets == {SetWith(k, type, p[1], p[2]) : p \in (SUBSET (D \cup C)) \X Nat}
             U == Arrays(k) \cup Lists \cup Sets
             V == {u \in U : \E T \in SUBSET C : Made(u, D \cup T, k, type)}
             R == {p \in (SUBSET C) \X V : Made(p[2], D \cup p[1], k, type)}
  <1>1. ASSUME NEW T \in SUBSET C, NEW u, Made(u, D \cup T, k, type) PROVE u \in V
    <2>0. D \cup T \in SUBSET (D \cup C)
      OBVIOUS
    <2>1. CASE Full(Cardinality(D \cup T), k)
      <3>1. u \in Arrays(k)
        BY <1>1, <2>1 DEF Made, InOrder, Array, Shiftable
      <3> QED BY <1>1, <3>1
    <2>2. CASE ~Full(Cardinality(D \cup T), k) /\ Cardinality(D \cup T) < Power2(LG_INIT_LIST_SIZE)
      <3>1. u = ListWith(k, type, D \cup T)
        BY <1>1, <2>2 DEF Made, CouponSketch
      <3>2. u \in Lists
        BY <2>0, <3>1
      <3> HIDE DEF Lists, Sets
      <3> QED BY <1>1, <3>2
    <2>3. CASE ~Full(Cardinality(D \cup T), k) /\ ~(Cardinality(D \cup T) < Power2(LG_INIT_LIST_SIZE))
      <3>1. PICK l : Fits(Cardinality(D \cup T), k, l) /\ u = SetWith(k, type, D \cup T, l)
        BY <1>1, <2>3 DEF Made, CouponSketch
      <3>2. l \in Nat
        BY <3>1 DEF Fits
      <3>3. <<D \cup T, l>> \in (SUBSET (D \cup C)) \X Nat
        BY <2>0, <3>2
      <3>4. u \in Sets
        <4> DEFINE p == <<D \cup T, l>>
        <4>1. p[1] = D \cup T /\ p[2] = l
          OBVIOUS
        <4> HIDE DEF p
        <4>2. u = SetWith(k, type, p[1], p[2])
          BY <3>1, <4>1
        <4> QED BY <3>3, <4>2 DEF p
      <3> HIDE DEF Lists, Sets
      <3> QED BY <1>1, <3>4
    <2> QED BY <2>1, <2>2, <2>3
  <1>2. \A u \in V : \E T \in SUBSET C : Made(u, D \cup T, k, type)
    OBVIOUS
  <1> HIDE DEF V
  <1>3. ASSUME NEW T \in SUBSET C, NEW u, Made(u, D \cup T, k, type), NEW c \in C
        PROVE  Made(CouponUpdate(u, c), D \cup (T \cup {c}), k, type) /\ CouponUpdate(u, c) \in V
    <2>1. IsFiniteSet(D \cup T) /\ D \cup T \subseteq Nat \X (1..MAX_VALUE) /\ c \in Nat \X (1..MAX_VALUE)
      <3>1. IsFiniteSet(T)
        BY FS_Subset
      <3> QED BY <3>1, FS_Union
    <2>2. Made(CouponUpdate(u, c), (D \cup T) \cup {c}, k, type)
      BY <1>3, <2>1, CouponUpdateFacts
    <2>3. (D \cup T) \cup {c} = D \cup (T \cup {c}) /\ T \cup {c} \in SUBSET C
      OBVIOUS
    <2>4. Made(CouponUpdate(u, c), D \cup (T \cup {c}), k, type)
      BY <2>2, <2>3, Zenon
    <2> QED BY <1>1, <2>3, <2>4
  <1>4. \A c \in C, u \in V : CouponUpdate(u, c) \in V
    BY <1>2, <1>3
  <1>5. h \in V /\ <<{}, h>> \in R
    <2>1. D \cup {} = D /\ {} \in SUBSET C
      OBVIOUS
    <2>2. Made(h, D \cup {}, k, type)
      BY <2>1, Zenon
    <2> QED BY <1>1, <2>1, <2>2
  <1>6. \A T \in SUBSET C : \A c \in C \ T : \A u \in V :
          <<T, u>> \in R => <<T \cup {c}, CouponUpdate(u, c)>> \in R
    BY <1>3
  <1>7. <<C, CouponUpdates(h, C)>> \in R
    <2> HIDE DEF R
    <2> QED BY <1>4, <1>5, <1>6, CouponUpdatesInduct
  <1> QED BY <1>7

\* Coupons that reach an array.
LEMMA CouponsIntoArray ==
  ASSUME NEW h, NEW v, Array(h, v), NEW C, IsFiniteSet(C), C \subseteq Nat \X (1..MAX_VALUE)
  PROVE  /\ Kept(CouponUpdates(h, C), h)
         /\ \E w : Array(CouponUpdates(h, C), w) /\ IsTop(w, v, C, h.lgK)
  <1> DEFINE k == h.lgK
             V == {u \in Arrays(k) : Kept(u, h) /\ \E w : Array(u, w)}
             R == {p \in (SUBSET C) \X V : \E w : Array(p[2], w) /\ IsTop(w, v, p[1], k)}
  <1>0. k \in Nat /\ h \in Arrays(k) /\ v \in [Slots(k) -> 0..MAX_VALUE] /\ h \in V
    BY DEF Array, Shiftable, Encodes, Kept
  <1>1. ASSUME NEW u \in V, NEW c \in C, NEW w, Array(u, w)
        PROVE  /\ CouponUpdate(u, c) \in V /\ Array(CouponUpdate(u, c), Raised(w, c[1] % Power2(k), c[2]))
               /\ u.lgK = k
    <2> DEFINE g == ArrayUpdate(u, c)
               z == Raised(w, c[1] % Power2(k), c[2])
    <2>1. u.lgK = k /\ Kept(u, h) /\ u.mode = "HLL"
      BY DEF Kept, Arrays
    <2>2. c \in Nat \X (1..MAX_VALUE)
      OBVIOUS
    <2>3. Array(g, z) /\ Kept(g, u)
      BY <1>1, <2>1, <2>2, ArrayUpdateFacts
    <2>4. Kept(g, h)
      BY <2>1, <2>3, KeptTransitive
    <2>6. CouponUpdate(u, c) = g
      BY <2>1 DEF CouponUpdate
    <2> HIDE DEF g, z, k
    <2>5. g \in Arrays(k)
      BY <2>1, <2>3 DEF Array, Shiftable, Kept
    <2> QED BY <2>1, <2>3, <2>4, <2>5, <2>6 DEF z
  <1>2. \A c \in C, u \in V : CouponUpdate(u, c) \in V
    <2> TAKE c \in C, u \in V
    <2>1. PICK w : Array(u, w)
      OBVIOUS
    <2> HIDE DEF V
    <2> QED BY <1>1, <2>1
  <1>3. <<{}, h>> \in R
    <2>1. IsTop(v, v, {}, k)
      BY <1>0, TopEmpty
    <2> HIDE DEF V, k
    <2> QED BY <1>0, <2>1
  <1>4. ASSUME NEW T \in SUBSET C, NEW c \in C \ T, NEW u \in V, <<T, u>> \in R
        PROVE  <<T \cup {c}, CouponUpdate(u, c)>> \in R
    <2> HIDE DEF V, k
    <2>1. PICK w : Array(u, w) /\ IsTop(w, v, T, k)
      BY <1>4
    <2> DEFINE z == Raised(w, c[1] % Power2(k), c[2])
    <2>2. CouponUpdate(u, c) \in V /\ Array(CouponUpdate(u, c), z)
      BY <1>1, <2>1
    <2>3. IsTop(z, v, T \cup {c}, k)
      BY <1>0, <2>1, TopRaised
    <2> HIDE DEF z
    <2> QED BY <2>2, <2>3
  <1>5. CouponUpdates(h, C) \in V /\ <<C, CouponUpdates(h, C)>> \in R
    <2> HIDE DEF V, R
    <2> QED BY <1>0, <1>2, <1>3, <1>4, CouponUpdatesInduct
  <1> QED BY <1>5

----------------------------------------------------------------------------
(* What was absorbed *)

Truths == [Addr -> 0..MAX_VALUE]
None == [a \in Addr |-> 0]

\* v are the registers of what f says was absorbed.
Tops(v, f, k) ==
  /\ v \in [Slots(k) -> 0..MAX_VALUE]
  /\ \A i \in Slots(k) :
       /\ v[i] = 0 \/ \E a \in Addr : a % Power2(k) = i /\ v[i] = f[a]
       /\ \A a \in Addr : a % Power2(k) = i => f[a] <= v[i]

\* The coupons C hold all that f says was absorbed.
Recall(C, f) ==
  /\ C \subseteq Coupon /\ IsFiniteSet(C)
  /\ \A a \in Addr : f[a] = 0 \/ <<a, f[a]>> \in C
  /\ \A c \in C : c[2] <= f[c[1]]

\* Addresses and values.
LEMMA AddrFacts ==
  /\ Addr \subseteq Nat /\ MAX_VALUE \in Nat
  /\ Coupon \subseteq Nat \X (1..MAX_VALUE)
  /\ \A c \in Coupon : c[1] \in Addr /\ c[2] \in 1..MAX_VALUE /\ c = <<c[1], c[2]>>
  <1>1. Coupon \subseteq Nat \X (1..MAX_VALUE)
    BY ConstantFacts
  <1>2. \A c \in Coupon : c[1] \in Nat /\ c[2] \in 1..MAX_VALUE /\ c = <<c[1], c[2]>>
    BY <1>1
  <1> QED BY <1>1, <1>2, ConstantFacts DEF Addr

\* The greater of what two sketches absorbed.
LEMMA GreaterFacts ==
  ASSUME NEW f \in Truths, NEW g \in Truths
  PROVE  /\ Greater(f, g) \in Truths
         /\ \A a \in Addr : Greater(f, g)[a] = IF f[a] < g[a] THEN g[a] ELSE f[a]
  <1>1. ASSUME NEW a \in Addr PROVE Max({f[a], g[a]}) = IF f[a] < g[a] THEN g[a] ELSE f[a]
    <2>1. f[a] \in 0..MAX_VALUE /\ g[a] \in 0..MAX_VALUE
      BY DEF Truths
    <2> DEFINE m == Max({f[a], g[a]})
    <2>2. m \in {f[a], g[a]} /\ \A y \in {f[a], g[a]} : y <= m
      <3>1. {f[a], g[a]} \subseteq 0..MAX_VALUE /\ {f[a], g[a]} # {}
        BY <2>1
      <3> QED BY <3>1, AddrFacts, MaxFacts
    <2> HIDE DEF m
    <2>3. (m = f[a] \/ m = g[a]) /\ f[a] <= m /\ g[a] <= m
      BY <2>2
    <2>4. m = IF f[a] < g[a] THEN g[a] ELSE f[a]
      BY <2>1, <2>3, AddrFacts
    <2> QED BY <2>4 DEF m
  <1>2. \A a \in Addr : Greater(f, g)[a] = IF f[a] < g[a] THEN g[a] ELSE f[a]
    BY <1>1 DEF Greater
  <1>3. \A a \in Addr : Max({f[a], g[a]}) \in 0..MAX_VALUE
    BY <1>1 DEF Truths
  <1>4. Greater(f, g) \in Truths
    BY <1>3 DEF Greater, Truths
  <1> QED BY <1>2, <1>4

\* The greater at one address.
LEMMA GreaterBounds ==
  ASSUME NEW f \in Truths, NEW g \in Truths, NEW a \in Addr
  PROVE  /\ f[a] <= Greater(f, g)[a] /\ g[a] <= Greater(f, g)[a]
         /\ Greater(f, g)[a] = f[a] \/ Greater(f, g)[a] = g[a]
         /\ f[a] \in 0..MAX_VALUE /\ g[a] \in 0..MAX_VALUE /\ Greater(f, g)[a] \in 0..MAX_VALUE
  <1>1. f[a] \in 0..MAX_VALUE /\ g[a] \in 0..MAX_VALUE
    BY DEF Truths
  <1>2. Greater(f, g)[a] = IF f[a] < g[a] THEN g[a] ELSE f[a]
    BY GreaterFacts
  <1> QED BY <1>1, <1>2, AddrFacts

\* The greater commutes, and nothing absorbed adds nothing.
LEMMA GreaterCommutes ==
  ASSUME NEW f \in Truths, NEW g \in Truths
  PROVE  Greater(f, g) = Greater(g, f) /\ Greater(None, f) = f /\ None \in Truths /\ Greater(f, None) = f
  <1>1. None \in Truths /\ \A a \in Addr : None[a] = 0
    BY AddrFacts DEF None, Truths
  <1>2. \A a \in Addr : f[a] \in 0..MAX_VALUE /\ g[a] \in 0..MAX_VALUE
    BY DEF Truths
  <1>3. Greater(f, g) = Greater(g, f)
    <2>1. \A a \in Addr : Greater(f, g)[a] = Greater(g, f)[a]
      BY <1>2, GreaterFacts, AddrFacts
    <2> QED BY <2>1, GreaterFacts DEF Truths
  <1>4. Greater(None, f) = f
    <2>1. \A a \in Addr : Greater(None, f)[a] = f[a]
      BY <1>1, <1>2, GreaterFacts, AddrFacts
    <2> QED BY <1>1, <2>1, GreaterFacts DEF Truths
  <1>5. Greater(f, None) = f
    <2>1. \A a \in Addr : Greater(f, None)[a] = f[a]
      BY <1>1, <1>2, GreaterFacts, AddrFacts
    <2> QED BY <1>1, <2>1, GreaterFacts DEF Truths
  <1> QED BY <1>1, <1>3, <1>4, <1>5

\* Zeros hold nothing.
LEMMA TopsEmpty ==
  ASSUME NEW k \in Nat
  PROVE  Tops(Zeros(k), None, k)
  <1>1. Zeros(k) \in [Slots(k) -> 0..MAX_VALUE] /\ \A i \in Slots(k) : Zeros(k)[i] = 0
    BY AddrFacts DEF Zeros
  <1>2. \A a \in Addr : None[a] = 0
    BY DEF None
  <1> QED BY <1>1, <1>2 DEF Tops

\* Registers raised by coupons hold what they held and what the coupons say.
LEMMA TopsCoupons ==
  ASSUME NEW k \in Nat, NEW f \in Truths, NEW g \in Truths, NEW v, Tops(v, f, k),
         NEW C, Recall(C, g), NEW w, IsTop(w, v, C, k)
  PROVE  Tops(w, Greater(f, g), k)
  <1> DEFINE G == Greater(f, g)
             At(a, i) == a % Power2(k) = i
  <1>1. /\ w \in [Slots(k) -> 0..MAX_VALUE]
        /\ \A i \in Slots(k) : /\ w[i] = v[i] \/ \E c \in C : At(c[1], i) /\ w[i] = c[2]
                               /\ v[i] <= w[i]
                               /\ \A c \in C : At(c[1], i) => c[2] <= w[i]
    BY DEF IsTop
  <1>2. /\ v \in [Slots(k) -> 0..MAX_VALUE]
        /\ \A i \in Slots(k) : /\ v[i] = 0 \/ \E a \in Addr : At(a, i) /\ v[i] = f[a]
                               /\ \A a \in Addr : At(a, i) => f[a] <= v[i]
    BY DEF Tops
  <1>3. /\ C \subseteq Coupon /\ \A a \in Addr : g[a] = 0 \/ <<a, g[a]>> \in C
        /\ \A c \in C : c[2] <= g[c[1]] /\ c[1] \in Addr /\ c[2] \in 1..MAX_VALUE
    BY AddrFacts DEF Recall
  <1>4. \A a \in Addr : /\ f[a] <= G[a] /\ g[a] <= G[a] /\ (G[a] = f[a] \/ G[a] = g[a])
                        /\ f[a] \in 0..MAX_VALUE /\ g[a] \in 0..MAX_VALUE /\ G[a] \in 0..MAX_VALUE
    BY GreaterBounds
  <1>5. \A i \in Slots(k) : w[i] \in 0..MAX_VALUE /\ v[i] \in 0..MAX_VALUE
    BY <1>1, <1>2
  <1> HIDE DEF At, G
  <1>6. ASSUME NEW i \in Slots(k), NEW a \in Addr, At(a, i) PROVE G[a] <= w[i]
    <2>1. f[a] <= w[i]
      <3>1. f[a] <= v[i] /\ v[i] <= w[i]
        BY <1>1, <1>2, <1>6
      <3> QED BY <1>4, <1>5, <3>1, AddrFacts
    <2>2. g[a] <= w[i]
      <3>1. CASE g[a] = 0
        BY <1>5, <3>1, AddrFacts
      <3>2. CASE <<a, g[a]>> \in C
        <4>1. <<a, g[a]>>[1] = a /\ <<a, g[a]>>[2] = g[a]
          OBVIOUS
        <4> QED BY <1>1, <1>6, <3>2, <4>1
      <3> QED BY <1>3, <3>1, <3>2
    <2> QED BY <1>4, <2>1, <2>2
  <1>7. ASSUME NEW i \in Slots(k) PROVE w[i] = 0 \/ \E a \in Addr : At(a, i) /\ w[i] = G[a]
    <2>1. CASE \E c \in C : At(c[1], i) /\ w[i] = c[2]
      <3>1. PICK c \in C : At(c[1], i) /\ w[i] = c[2]
        BY <2>1
      <3>2. c[1] \in Addr /\ c[2] <= g[c[1]] /\ c[2] \in 1..MAX_VALUE
        BY <1>3
      <3>3. G[c[1]] <= w[i] /\ w[i] <= g[c[1]] /\ g[c[1]] <= G[c[1]]
        BY <1>4, <1>6, <3>1, <3>2
      <3>4. w[i] = G[c[1]]
        <4>1. \A a \in Addr : G[a] <= w[i] /\ w[i] <= g[a] /\ g[a] <= G[a] => w[i] = G[a]
          BY <1>4, <1>5, AddrFacts
        <4> QED BY <3>2, <3>3, <4>1
      <3> QED BY <3>1, <3>2, <3>4
    <2>2. CASE w[i] = v[i] /\ v[i] # 0
      <3>1. PICK a \in Addr : At(a, i) /\ v[i] = f[a]
        BY <1>2, <2>2
      <3>2. G[a] <= w[i] /\ w[i] = f[a] /\ f[a] <= G[a]
        BY <1>4, <1>6, <2>2, <3>1
      <3>3. w[i] = G[a]
        BY <1>4, <1>5, <3>2, AddrFacts
      <3> QED BY <3>1, <3>3
    <2> QED BY <1>1, <2>1, <2>2
  <1> QED BY <1>1, <1>6, <1>7 DEF Tops, At, G

\* Merged registers hold what both held, at the narrower width.
LEMMA TopsMerge ==
  ASSUME NEW j \in Nat, NEW k \in Nat, j <= k, NEW f \in Truths, NEW g \in Truths,
         NEW d, Tops(d, f, j), NEW v, Tops(v, g, k), NEW w, IsMerge(w, d, v, j, k)
  PROVE  Tops(w, Greater(f, g), j)
  <1> DEFINE G == Greater(f, g)
             At(a, i) == a % Power2(j) = i
  <1>1. /\ w \in [Slots(j) -> 0..MAX_VALUE]
        /\ \A i \in Slots(j) : /\ w[i] = d[i] \/ \E s \in Slots(k) : At(s, i) /\ w[i] = v[s]
                               /\ d[i] <= w[i]
                               /\ \A s \in Slots(k) : At(s, i) => v[s] <= w[i]
    BY DEF IsMerge
  <1>2. /\ d \in [Slots(j) -> 0..MAX_VALUE]
        /\ \A i \in Slots(j) : /\ d[i] = 0 \/ \E a \in Addr : At(a, i) /\ d[i] = f[a]
                               /\ \A a \in Addr : At(a, i) => f[a] <= d[i]
    BY DEF Tops
  <1>3. /\ v \in [Slots(k) -> 0..MAX_VALUE]
        /\ \A s \in Slots(k) : /\ v[s] = 0 \/ \E a \in Addr : a % Power2(k) = s /\ v[s] = g[a]
                               /\ \A a \in Addr : a % Power2(k) = s => g[a] <= v[s]
    BY DEF Tops
  <1>4. \A a \in Addr : /\ f[a] <= G[a] /\ g[a] <= G[a] /\ (G[a] = f[a] \/ G[a] = g[a])
                        /\ f[a] \in 0..MAX_VALUE /\ g[a] \in 0..MAX_VALUE /\ G[a] \in 0..MAX_VALUE
    BY GreaterBounds
  <1>5. /\ \A i \in Slots(j) : w[i] \in 0..MAX_VALUE /\ d[i] \in 0..MAX_VALUE
        /\ \A s \in Slots(k) : v[s] \in 0..MAX_VALUE
    BY <1>1, <1>2, <1>3
  <1>6. \A a \in Addr : \A i : /\ a % Power2(k) \in Slots(k)
                               /\ At(a % Power2(k), i) <=> At(a, i)
    <2> TAKE a \in Addr
    <2> TAKE i
    <2>1. a \in Nat
      BY AddrFacts
    <2>2. a % Power2(k) \in Slots(k) /\ (a % Power2(k)) % Power2(j) = a % Power2(j)
      BY <2>1, SlotFacts
    <2> QED BY <2>2
  <1> HIDE DEF At, G
  <1>7. ASSUME NEW i \in Slots(j), NEW a \in Addr, At(a, i) PROVE G[a] <= w[i]
    <2>1. f[a] <= w[i]
      <3>1. f[a] <= d[i] /\ d[i] <= w[i]
        BY <1>1, <1>2, <1>7
      <3> QED BY <1>4, <1>5, <3>1, AddrFacts
    <2>2. g[a] <= w[i]
      <3> DEFINE s == a % Power2(k)
      <3>1. s \in Slots(k) /\ At(s, i)
        BY <1>6, <1>7
      <3>2. g[a] <= v[s] /\ v[s] <= w[i]
        BY <1>1, <1>3, <3>1
      <3> HIDE DEF s
      <3> QED BY <1>4, <1>5, <3>1, <3>2, AddrFacts
    <2> QED BY <1>4, <2>1, <2>2
  <1>8. ASSUME NEW i \in Slots(j) PROVE w[i] = 0 \/ \E a \in Addr : At(a, i) /\ w[i] = G[a]
    <2>1. CASE w[i] # 0 /\ \E s \in Slots(k) : At(s, i) /\ w[i] = v[s]
      <3>1. PICK s \in Slots(k) : At(s, i) /\ w[i] = v[s]
        BY <2>1
      <3>2. PICK a \in Addr : a % Power2(k) = s /\ v[s] = g[a]
        BY <1>3, <2>1, <3>1
      <3>3. At(a, i)
        BY <1>6, <3>1, <3>2
      <3>4. G[a] <= w[i] /\ w[i] = g[a] /\ g[a] <= G[a]
        BY <1>4, <1>7, <3>1, <3>2, <3>3
      <3>5. w[i] = G[a]
        BY <1>4, <1>5, <3>4, AddrFacts
      <3> QED BY <3>3, <3>5
    <2>2. CASE w[i] = d[i] /\ w[i] # 0
      <3>1. PICK a \in Addr : At(a, i) /\ d[i] = f[a]
        BY <1>2, <2>2
      <3>2. G[a] <= w[i] /\ w[i] = f[a] /\ f[a] <= G[a]
        BY <1>4, <1>7, <2>2, <3>1
      <3>3. w[i] = G[a]
        BY <1>4, <1>5, <3>2, AddrFacts
      <3> QED BY <3>1, <3>3
    <2> QED BY <1>1, <2>1, <2>2
  <1> QED BY <1>1, <1>7, <1>8 DEF Tops, At, G

\* What was absorbed determines the registers.
LEMMA TopsUnique ==
  ASSUME NEW k \in Nat, NEW f \in Truths, NEW v, NEW w, Tops(v, f, k), Tops(w, f, k)
  PROVE  v = w
  <1>0. \A a \in Addr : f[a] \in 0..MAX_VALUE
    BY DEF Truths
  <1>1. v \in [Slots(k) -> 0..MAX_VALUE] /\ w \in [Slots(k) -> 0..MAX_VALUE]
    BY DEF Tops
  <1>2. ASSUME NEW x, NEW y, Tops(x, f, k), Tops(y, f, k), NEW i \in Slots(k) PROVE x[i] <= y[i]
    <2>1. x[i] \in 0..MAX_VALUE /\ y[i] \in 0..MAX_VALUE
      BY <1>2 DEF Tops
    <2>2. CASE x[i] = 0
      BY <2>1, <2>2, AddrFacts
    <2>3. CASE x[i] # 0
      <3>1. PICK a \in Addr : a % Power2(k) = i /\ x[i] = f[a]
        BY <1>2, <2>3 DEF Tops
      <3>2. f[a] <= y[i]
        BY <1>2, <3>1 DEF Tops
      <3> QED BY <3>1, <3>2
    <2> QED BY <2>2, <2>3
  <1>3. \A i \in Slots(k) : v[i] = w[i]
    <2> TAKE i \in Slots(k)
    <2>1. v[i] <= w[i] /\ w[i] <= v[i]
      BY <1>2
    <2>2. v[i] \in 0..MAX_VALUE /\ w[i] \in 0..MAX_VALUE
      BY <1>1
    <2> QED BY <2>1, <2>2, AddrFacts
  <1> QED BY <1>1, <1>3

\* Two sets of coupons together recall what both do.
LEMMA RecallUnion ==
  ASSUME NEW f \in Truths, NEW g \in Truths, NEW C, Recall(C, f), NEW D, Recall(D, g)
  PROVE  Recall(C \cup D, Greater(f, g))
  <1> DEFINE G == Greater(f, g)
  <1>1. \A a \in Addr : /\ f[a] <= G[a] /\ g[a] <= G[a] /\ (G[a] = f[a] \/ G[a] = g[a])
                        /\ f[a] \in 0..MAX_VALUE /\ g[a] \in 0..MAX_VALUE /\ G[a] \in 0..MAX_VALUE
    BY GreaterBounds
  <1>2. C \cup D \subseteq Coupon /\ IsFiniteSet(C \cup D)
    BY FS_Union DEF Recall
  <1> HIDE DEF G
  <1>3. ASSUME NEW c \in C \cup D PROVE c[2] <= G[c[1]]
    <2>1. c[1] \in Addr /\ c[2] \in 1..MAX_VALUE
      BY <1>2, AddrFacts
    <2>2. c[2] <= f[c[1]] \/ c[2] <= g[c[1]]
      BY <1>3 DEF Recall
    <2>3. \A a \in Addr : c[2] <= f[a] \/ c[2] <= g[a] => c[2] <= G[a]
      BY <1>1, <2>1, AddrFacts
    <2> QED BY <2>1, <2>2, <2>3
  <1>4. \A a \in Addr : G[a] = 0 \/ <<a, G[a]>> \in C \cup D
    <2> TAKE a \in Addr
    <2>1. (f[a] = 0 \/ <<a, f[a]>> \in C) /\ (g[a] = 0 \/ <<a, g[a]>> \in D)
      BY DEF Recall
    <2> QED BY <1>1, <2>1
  <1> QED BY <1>2, <1>3, <1>4 DEF Recall, G

----------------------------------------------------------------------------
(* Sketches that hold what was absorbed *)

\* A LIST or a SET that recalls f
InCoupons(m, k, type, C, f) == Recall(C, f) /\ ~Full(Cardinality(C), k) /\ CouponSketch(m, C, k, type)

\* An array that holds f
InArray(m, k, type, ooo, f) ==
  /\ m.lgK = k /\ m.type = type /\ m.mode = "HLL" /\ ~m.rebuild /\ (m.ooo <=> ooo) /\ (m.hip <=> ~ooo)
  /\ \E a \in Addr : f[a] # 0
  /\ \E v : Array(m, v) /\ Tops(v, f, k)

\* The fields of a LIST or SET; it is empty only if nothing was absorbed.
LEMMA InCouponsFacts ==
  ASSUME NEW m, NEW k, NEW type, NEW C, NEW f \in Truths, InCoupons(m, k, type, C, f)
  PROVE  /\ m.mode \in {"LIST", "SET"} /\ m.lgK = k /\ m.type = type /\ m.coupons = C /\ ~m.ooo /\ ~m.err
         /\ m.array = <<>> /\ m.aux = <<>>
         /\ m.mode = "LIST" <=> Cardinality(C) < Power2(LG_INIT_LIST_SIZE)
         /\ IsEmpty(m) <=> C = {}
         /\ C = {} <=> f = None
         /\ Recall(C, f) /\ C \subseteq Nat \X (1..MAX_VALUE) /\ IsFiniteSet(C)
  <1>1. PICK mode, l : m = CouponsWith(mode, k, type, C, l) /\ mode \in {"LIST", "SET"}
                       /\ (mode = "LIST" <=> Cardinality(C) < Power2(LG_INIT_LIST_SIZE))
    BY DEF InCoupons, CouponSketch, ListWith, SetWith
  <1>2. /\ m.mode = mode /\ m.lgK = k /\ m.type = type /\ m.coupons = C /\ ~m.ooo /\ ~m.err
        /\ m.array = <<>> /\ m.aux = <<>>
    BY <1>1, CouponsWithFields
  <1>3. IsEmpty(m) <=> C = {}
    BY <1>1, <1>2 DEF IsEmpty
  <1>4. Recall(C, f) /\ C \subseteq Coupon /\ IsFiniteSet(C)
    BY DEF InCoupons, Recall
  <1>5. \A a \in Addr : f[a] \in 0..MAX_VALUE
    BY DEF Truths
  <1>6. C = {} => f = None
    <2> SUFFICES ASSUME C = {} PROVE f = None
      OBVIOUS
    <2>1. \A a \in Addr : f[a] = 0
      BY <1>4 DEF Recall
    <2> QED BY <2>1 DEF None, Truths
  <1>7. f = None => C = {}
    <2> SUFFICES ASSUME f = None, NEW c \in C PROVE FALSE
      OBVIOUS
    <2>1. c[1] \in Addr /\ c[2] \in 1..MAX_VALUE
      BY <1>4, AddrFacts
    <2>2. f[c[1]] = 0 /\ c[2] <= f[c[1]]
      BY <1>4, <2>1 DEF None, Recall
    <2> QED BY <2>1, <2>2, AddrFacts
  <1> QED BY <1>1, <1>2, <1>3, <1>4, <1>6, <1>7, AddrFacts

\* The fields of an array; it is not empty.
LEMMA InArrayFacts ==
  ASSUME NEW m, NEW k \in Nat, NEW type, NEW ooo, NEW f \in Truths, InArray(m, k, type, ooo, f)
  PROVE  /\ m.mode = "HLL" /\ m.lgK = k /\ m.type = type /\ ~m.err /\ ~IsEmpty(m) /\ m \in Arrays(k) /\ m.coupons = {}
  <1>1. PICK v : Array(m, v) /\ Tops(v, f, k)
    BY DEF InArray
  <1>2. m.mode = "HLL" /\ m.lgK = k /\ m.type = type
    BY DEF InArray
  <1>3. m \in Arrays(k) /\ Encodes(m, v) /\ Summed(m, v)
    BY <1>1, <1>2 DEF Array, Shiftable
  <1>4. ~m.err /\ m.coupons = {}
    BY <1>3 DEF Arrays
  <1>5. ~IsEmpty(m)
    <2>1. PICK a \in Addr : f[a] # 0
      BY DEF InArray
    <2> DEFINE s == a % Power2(k)
    <2>2. s \in Slots(k) /\ f[a] <= v[s] /\ v[s] \in 0..MAX_VALUE /\ f[a] \in 0..MAX_VALUE
      BY <1>1, <2>1, AddrFacts, SlotFacts DEF Tops, Truths
    <2>3. v[s] # 0
      BY <2>1, <2>2, AddrFacts
    <2> HIDE DEF s
    <2>4. ASSUME m.curMin = 0 PROVE m.numAtCurMin # Power2(k)
      <3>1. AtMin(m, v) \subseteq Slots(k) /\ AtMin(m, v) # Slots(k)
        BY <1>2, <2>2, <2>3, <2>4 DEF AtMin
      <3>2. Cardinality(AtMin(m, v)) # Cardinality(Slots(k))
        BY <3>1, SlotsFinite, FS_Subset
      <3> QED BY <1>3, <3>2, SlotsFinite DEF Summed
    <2> QED BY <1>2, <2>4 DEF IsEmpty
  <1> QED BY <1>2, <1>3, <1>4, <1>5

\* Coupons say something.
LEMMA RecallNonempty ==
  ASSUME NEW C, NEW f \in Truths, Recall(C, f), C # {}
  PROVE  \E a \in Addr : f[a] # 0
  <1>1. PICK c \in C : TRUE
    OBVIOUS
  <1>2. c[1] \in Addr /\ c[2] \in 1..MAX_VALUE /\ c[2] <= f[c[1]] /\ f[c[1]] \in 0..MAX_VALUE
    BY AddrFacts DEF Recall, Truths
  <1>3. f[c[1]] # 0
    BY <1>2, AddrFacts
  <1> QED BY <1>2, <1>3

\* What coupons make holds what they say.
LEMMA MadeHolds ==
  ASSUME NEW k \in Nat, NEW type, NEW C, NEW f \in Truths, Recall(C, f), NEW u, Made(u, C, k, type)
  PROVE  IF Full(Cardinality(C), k) THEN InArray(u, k, type, FALSE, f) ELSE InCoupons(u, k, type, C, f)
  <1>1. CASE Full(Cardinality(C), k)
    <2>1. InOrder(u, k, type) /\ \E v : Array(u, v) /\ IsTop(v, Zeros(k), C, k)
      BY <1>1 DEF Made
    <2>2. PICK v : Array(u, v) /\ IsTop(v, Zeros(k), C, k)
      BY <2>1
    <2>3. Tops(v, Greater(None, f), k)
      BY <2>2, TopsEmpty, TopsCoupons, GreaterCommutes
    <2>4. Tops(v, f, k)
      BY <2>3, GreaterCommutes
    <2>5. C # {}
      <3>1. Cardinality(C) # 0
        BY <1>1, PowerFacts, ConstantFacts DEF Full
      <3> QED BY <3>1, FS_EmptySet
    <2> QED BY <1>1, <2>1, <2>2, <2>4, <2>5, RecallNonempty DEF InArray, InOrder
  <1>2. CASE ~Full(Cardinality(C), k)
    BY <1>2 DEF Made, InCoupons
  <1> QED BY <1>1, <1>2

\* A copy of a LIST or SET.
LEMMA CopiedCoupons ==
  ASSUME NEW m, NEW k, NEW type, NEW C, NEW f \in Truths, InCoupons(m, k, type, C, f), NEW t
  PROVE  InCoupons(CopyAs(m, t), k, t, C, f)
  <1>1. m.mode # "HLL"
    BY InCouponsFacts
  <1>2. PICK r : r = [m EXCEPT !.type = t]
    OBVIOUS
  <1>3. CopyAs(m, t) = r
    BY <1>1, <1>2 DEF CopyAs
  <1>4. CouponSketch(r, C, k, t)
    <2>1. CASE Cardinality(C) < Power2(LG_INIT_LIST_SIZE)
      <3>1. m = CouponsWith("LIST", k, type, C, LG_INIT_LIST_SIZE)
        BY <2>1 DEF InCoupons, CouponSketch, ListWith
      <3>2. r = CouponsWith("LIST", k, t, C, LG_INIT_LIST_SIZE)
        BY <1>2, <3>1, CouponsWithType
      <3> QED BY <2>1, <3>2 DEF CouponSketch, ListWith
    <2>2. CASE ~(Cardinality(C) < Power2(LG_INIT_LIST_SIZE))
      <3>1. PICK l : Fits(Cardinality(C), k, l) /\ m = CouponsWith("SET", k, type, C, l)
        BY <2>2 DEF InCoupons, CouponSketch, SetWith
      <3>2. r = CouponsWith("SET", k, t, C, l)
        BY <1>2, <3>1, CouponsWithType
      <3> QED BY <2>2, <3>1, <3>2 DEF CouponSketch, SetWith
    <2> QED BY <2>1, <2>2
  <1> QED BY <1>3, <1>4 DEF InCoupons

\* A copy of an array.
LEMMA CopiedArray ==
  ASSUME NEW m, NEW k \in Nat, NEW type, NEW ooo, NEW f \in Truths, InArray(m, k, type, ooo, f), NEW t \in HllTypes
  PROVE  InArray(CopyAs(m, t), k, t, ooo, f)
  <1>1. PICK v : Array(m, v) /\ Tops(v, f, k)
    BY DEF InArray
  <1>2. m \in Arrays(k) /\ Encodes(m, v)
    BY <1>1 DEF Array, Shiftable, InArray
  <1>3. Array(CopyAs(m, t), v) /\ Copied(CopyAs(m, t), m, t)
    BY <1>1, <1>2, CopyAsFacts
  <1> QED BY <1>1, <1>3 DEF InArray, Copied

\* An array that absorbed coupons.
LEMMA RaisedArray ==
  ASSUME NEW m, NEW k \in Nat, NEW type, NEW ooo, NEW f \in Truths, InArray(m, k, type, ooo, f),
         NEW C, NEW g \in Truths, Recall(C, g)
  PROVE  /\ InArray(CouponUpdates(m, C), k, type, ooo, Greater(f, g))
         /\ InArray(ArrayUpdates(m, C), k, type, ooo, Greater(f, g))
  <1>1. PICK v : Array(m, v) /\ Tops(v, f, k)
    BY DEF InArray
  <1>2. m.lgK = k /\ IsFiniteSet(C) /\ C \subseteq Nat \X (1..MAX_VALUE)
    BY AddrFacts DEF InArray, Recall
  <1>3. \E a \in Addr : Greater(f, g)[a] # 0
    <2>1. PICK a \in Addr : f[a] # 0
      BY DEF InArray
    <2>2. f[a] <= Greater(f, g)[a] /\ f[a] \in 0..MAX_VALUE /\ Greater(f, g)[a] \in 0..MAX_VALUE
      BY GreaterBounds
    <2>3. Greater(f, g)[a] # 0
      BY <2>1, <2>2, AddrFacts
    <2> QED BY <2>3
  <1>4. ASSUME NEW u, Kept(u, m), NEW w, Array(u, w), IsTop(w, v, C, k)
        PROVE  InArray(u, k, type, ooo, Greater(f, g))
    <2>1. Tops(w, Greater(f, g), k)
      BY <1>1, <1>4, TopsCoupons
    <2>2. /\ u.lgK = k /\ u.type = type /\ ~u.rebuild /\ (u.ooo <=> ooo) /\ (u.hip <=> ~ooo)
      BY <1>4 DEF Kept, InArray
    <2>3. u.mode = "HLL"
      BY <1>4 DEF Array, Shiftable, Arrays
    <2> QED BY <1>3, <1>4, <2>1, <2>2, <2>3 DEF InArray
  <1>5. Kept(CouponUpdates(m, C), m) /\ \E w : Array(CouponUpdates(m, C), w) /\ IsTop(w, v, C, k)
    BY <1>1, <1>2, CouponsIntoArray
  <1>6. Kept(ArrayUpdates(m, C), m) /\ \E w : Array(ArrayUpdates(m, C), w) /\ IsTop(w, v, C, k)
    BY <1>1, <1>2, ArrayUpdatesFacts
  <1> QED BY <1>4, <1>5, <1>6

----------------------------------------------------------------------------
(* Unions *)

\* Two arrays put together in the narrower, and copied.
LEMMA MergeInto ==
  ASSUME NEW j \in Nat, NEW k \in Nat, j <= k, NEW dst \in Arrays(j), NEW d, Encodes(dst, d), dst.type = "HLL_8",
         NEW f \in Truths, Tops(d, f, j),
         NEW src, NEW type, NEW ooo, NEW g \in Truths, InArray(src, k, type, ooo, g), NEW t \in HllTypes,
         NEW r, r = Reflagged(MergeHll(dst, src), TRUE, FALSE)
  PROVE  InArray(CopyAs(r, t), j, t, TRUE, Greater(f, g))
  <1>1. PICK v : Array(src, v) /\ Tops(v, g, k)
    BY DEF InArray
  <1>2. src \in Arrays(k) /\ Encodes(src, v)
    BY <1>1 DEF Array, Shiftable, InArray
  <1>3. PICK w : MergeHll(dst, src) = MergedInto(dst, w) /\ IsMerge(w, d, v, j, k)
    BY <1>2, MergeFacts
  <1>4. Tops(w, Greater(f, g), j)
    BY <1>1, <1>3, TopsMerge
  <1>5. Rebuilt(r, w, j, TRUE, FALSE)
    <2>1. w \in [Slots(j) -> 0..MAX_VALUE]
      BY <1>3 DEF IsMerge
    <2>2. Rebuilt(Reflagged(MergedInto(dst, w), TRUE, FALSE), w, j, TRUE, FALSE)
      BY <2>1, MergedArray
    <2> QED BY <1>3, <2>2
  <1>6. Array(CopyAs(r, t), w) /\ Copied(CopyAs(r, t), r, t)
    BY <1>5, CopyAsFacts DEF Rebuilt
  <1>7. \E a \in Addr : Greater(f, g)[a] # 0
    <2>1. PICK a \in Addr : g[a] # 0
      BY DEF InArray
    <2>2. g[a] <= Greater(f, g)[a] /\ g[a] \in 0..MAX_VALUE /\ Greater(f, g)[a] \in 0..MAX_VALUE
      BY GreaterBounds
    <2>3. Greater(f, g)[a] # 0
      BY <2>1, <2>2, AddrFacts
    <2> QED BY <2>3
  <1> QED BY <1>4, <1>5, <1>6, <1>7 DEF InArray, Copied, Rebuilt

\* The gadget, made narrower for a narrower array.
LEMMA DownsampledFacts ==
  ASSUME NEW j \in Nat, NEW k \in Nat, k < j, NEW g, NEW type, NEW ooo, NEW f \in Truths, InArray(g, j, type, ooo, f)
  PROVE  \E w : /\ CopyOrDownsample(g, k) \in Arrays(k) /\ Encodes(CopyOrDownsample(g, k), w)
                /\ CopyOrDownsample(g, k).type = "HLL_8" /\ Tops(w, f, k)
  <1> DEFINE n == NewArray(k, "HLL_8")
             r == CopyOrDownsample(g, k)
  <1>1. PICK v : Array(g, v) /\ Tops(v, f, j)
    BY DEF InArray
  <1>2. g \in Arrays(j) /\ Encodes(g, v) /\ g.lgK = j /\ g.hip \in BOOLEAN /\ g.ooo \in BOOLEAN
    BY <1>1 DEF Array, Shiftable, InArray, Arrays
  <1>3. Array(n, Zeros(k)) /\ n.lgK = k /\ n.type = "HLL_8"
    BY NewArrayFacts DEF HllTypes
  <1>4. n \in Arrays(k) /\ Encodes(n, Zeros(k))
    BY <1>3 DEF Array, Shiftable
  <1> HIDE DEF n
  <1>5. PICK w : MergeHll(n, g) = MergedInto(n, w) /\ IsMerge(w, Zeros(k), v, k, j)
    BY <1>2, <1>3, <1>4, MergeFacts
  <1>6. Tops(w, f, k)
    <2>1. Tops(w, Greater(None, f), k)
      <3>1. None \in Truths /\ Tops(Zeros(k), None, k) /\ k <= j
        BY TopsEmpty, GreaterCommutes
      <3> QED BY <1>1, <1>5, <3>1, TopsMerge
    <2> QED BY <2>1, GreaterCommutes
  <1>7. r = Reflagged(MergeHll(n, g), g.ooo, g.hip)
    <2>1. ~(g.lgK <= k)
      BY <1>2
    <2>2. r = [MergeHll(n, g) EXCEPT !.hip = g.hip, !.ooo = g.ooo]
      BY <2>1 DEF CopyOrDownsample, n
    <2>3. \A m, a, b : [m EXCEPT !.hip = b, !.ooo = a] = [m EXCEPT !.ooo = a, !.hip = b]
      OBVIOUS
    <2> QED BY <2>2, <2>3 DEF Reflagged
  <1> HIDE DEF r
  <1>8. r \in Arrays(k) /\ Encodes(r, w) /\ r.type = "HLL_8"
    <2>1. w \in [Slots(k) -> 0..MAX_VALUE]
      BY <1>5 DEF IsMerge
    <2>2. Rebuilt(Reflagged(MergedInto(n, w), g.ooo, g.hip), w, k, g.ooo, g.hip)
      BY <1>2, <1>3, <1>4, <2>1, MergedArray
    <2> QED BY <1>5, <1>7, <2>2 DEF Rebuilt
  <1> QED BY <1>6, <1>8 DEF r

\* The union of two arrays, copied: as narrow as the narrower, and out of order.
LEMMA UnionArraysFacts ==
  ASSUME NEW j \in Nat, NEW k \in Nat, NEW g, NEW o1, NEW f \in Truths, InArray(g, j, "HLL_8", o1, f),
         NEW src, NEW type, NEW o2, NEW h \in Truths, InArray(src, k, type, o2, h), NEW t \in HllTypes
  PROVE  InArray(CopyAs(UnionArrays(g, src), t), IF k < j THEN k ELSE j, t, TRUE, Greater(f, h))
  <1> DEFINE base == IF src.lgK < g.lgK THEN CopyOrDownsample(g, src.lgK) ELSE g
             r == UnionArrays(g, src)
             n == IF k < j THEN k ELSE j
  <1>1. g.lgK = j /\ src.lgK = k /\ g.type = "HLL_8"
    BY DEF InArray
  <1>2. r = Reflagged(MergeHll(base, src), TRUE, FALSE)
    BY DEF UnionArrays, Reflagged
  <1>3. \E w : base \in Arrays(n) /\ Encodes(base, w) /\ base.type = "HLL_8" /\ Tops(w, f, n)
    <2>1. CASE k < j
      <3>1. base = CopyOrDownsample(g, k) /\ n = k
        BY <1>1, <2>1
      <3> HIDE DEF base, n
      <3> QED BY <2>1, <3>1, DownsampledFacts
    <2>2. CASE ~(k < j)
      <3>1. base = g /\ n = j
        BY <1>1, <2>2
      <3>2. PICK w : Array(g, w) /\ Tops(w, f, j)
        BY DEF InArray
      <3> HIDE DEF base, n
      <3> QED BY <1>1, <3>1, <3>2 DEF Array, Shiftable
    <2> QED BY <2>1, <2>2
  <1>4. n \in Nat /\ n <= k
    OBVIOUS
  <1>5. PICK w : base \in Arrays(n) /\ Encodes(base, w) /\ base.type = "HLL_8" /\ Tops(w, f, n)
    BY <1>3
  <1> HIDE DEF base, r, n
  <1>6. InArray(CopyAs(r, t), n, t, TRUE, Greater(f, h))
    BY <1>2, <1>4, <1>5, MergeInto
  <1> QED BY <1>6 DEF r, n

\* The union of coupons C and D in a sketch of width k
InEither(m, k, type, C, f) ==
  IF Full(Cardinality(C), k) THEN InArray(m, k, type, FALSE, f) ELSE InCoupons(m, k, type, C, f)

\* A gadget of coupons absorbs a sketch of coupons.
LEMMA CouponsUnionCoupons ==
  ASSUME NEW K \in Nat, NEW u, NEW C, NEW f \in Truths, InCoupons(u, K, "HLL_8", C, f),
         NEW h, NEW k \in Nat, k <= K, NEW type, NEW D, NEW g \in Truths, InCoupons(h, k, type, D, g)
  PROVE  InEither(UnionUpdate(u, h, K), K, "HLL_8", C \cup D, Greater(f, g))
  <1> DEFINE r == UnionUpdate(u, h, K)
  <1>1. /\ u.mode # "HLL" /\ u.lgK = K /\ (IsEmpty(u) <=> C = {}) /\ (C = {} <=> f = None) /\ Recall(C, f)
        /\ C \subseteq Nat \X (1..MAX_VALUE) /\ IsFiniteSet(C)
    BY InCouponsFacts
  <1>2. /\ h.mode # "HLL" /\ h.lgK = k /\ h.coupons = D /\ (IsEmpty(h) <=> D = {}) /\ (D = {} <=> g = None)
        /\ Recall(D, g) /\ D \subseteq Nat \X (1..MAX_VALUE) /\ IsFiniteSet(D)
    BY InCouponsFacts
  <1>3. ~Full(Cardinality(C), K)
    BY DEF InCoupons
  <1>4. CASE D = {}
    <2>1. r = u
      BY <1>2, <1>4 DEF UnionUpdate
    <2>2. C \cup D = C /\ Greater(f, g) = f
      BY <1>2, <1>4, GreaterCommutes
    <2> HIDE DEF r
    <2>3. InEither(u, K, "HLL_8", C, f)
      BY <1>3 DEF InEither
    <2>4. InEither(u, K, "HLL_8", C \cup D, Greater(f, g))
      BY <2>2, <2>3, Zenon
    <2> QED BY <2>1, <2>4 DEF r
  <1>5. CASE D # {} /\ C = {} /\ k = K
    <2>1. r = CopyAs(h, "HLL_8")
      BY <1>1, <1>2, <1>5 DEF UnionUpdate, UnionImpl, UnionCoupons
    <2>2. C \cup D = D /\ Greater(f, g) = g
      BY <1>1, <1>5, GreaterCommutes
    <2>3. InCoupons(CopyAs(h, "HLL_8"), K, "HLL_8", D, g)
      BY <1>5, CopiedCoupons
    <2> HIDE DEF r
    <2>4. InEither(r, K, "HLL_8", D, g)
      BY <2>1, <2>3 DEF InEither, InCoupons
    <2>5. InEither(r, K, "HLL_8", C \cup D, Greater(f, g))
      BY <2>2, <2>4, Zenon
    <2> QED BY <2>5 DEF r
  <1>6. CASE D # {} /\ ~(C = {} /\ k = K)
    <2>1. r = CouponUpdates(u, D)
      BY <1>1, <1>2, <1>6 DEF UnionUpdate, UnionImpl, UnionCoupons
    <2>2. Made(u, C, K, "HLL_8")
      BY DEF InCoupons, Made
    <2>3. Made(r, C \cup D, K, "HLL_8")
      BY <1>1, <1>2, <2>1, <2>2, CouponUpdatesFacts DEF HllTypes
    <2> HIDE DEF r
    <2>4. Recall(C \cup D, Greater(f, g)) /\ Greater(f, g) \in Truths
      BY <1>1, <1>2, RecallUnion, GreaterFacts
    <2>5. InEither(r, K, "HLL_8", C \cup D, Greater(f, g))
      BY <2>3, <2>4, MadeHolds DEF InEither
    <2> QED BY <2>5 DEF r
  <1> QED BY <1>4, <1>5, <1>6

\* A gadget of coupons absorbs an array, by becoming one.
LEMMA CouponsUnionArray ==
  ASSUME NEW K \in Nat, NEW u, NEW C, NEW f \in Truths, InCoupons(u, K, "HLL_8", C, f),
         NEW h, NEW k \in Nat, k <= K, NEW type, NEW ooo, NEW g \in Truths, InArray(h, k, type, ooo, g)
  PROVE  InArray(UnionUpdate(u, h, K), k, "HLL_8", ooo, Greater(f, g))
  <1> DEFINE r == UnionUpdate(u, h, K)
             copy == CopyAs(h, "HLL_8")
  <1>1. /\ u.mode # "HLL" /\ u.coupons = C /\ (IsEmpty(u) <=> C = {}) /\ (C = {} <=> f = None) /\ Recall(C, f)
    BY InCouponsFacts
  <1>2. h.mode = "HLL" /\ h.lgK = k /\ ~IsEmpty(h)
    BY InArrayFacts
  <1>3. InArray(copy, k, "HLL_8", ooo, g)
    BY CopiedArray DEF HllTypes
  <1>4. CopyOrDownsample(h, K) = copy
    BY <1>2 DEF CopyOrDownsample
  <1> HIDE DEF copy
  <1>5. CASE C = {}
    <2>1. r = copy
      BY <1>1, <1>2, <1>4, <1>5 DEF UnionUpdate, UnionImpl
    <2>2. Greater(f, g) = g
      BY <1>1, <1>5, GreaterCommutes
    <2> QED BY <1>3, <2>1, <2>2
  <1>6. CASE C # {}
    <2>1. r = ArrayUpdates(copy, C)
      BY <1>1, <1>2, <1>4, <1>6 DEF UnionUpdate, UnionImpl
    <2>2. InArray(r, k, "HLL_8", ooo, Greater(g, f))
      BY <1>1, <1>3, <2>1, RaisedArray
    <2> QED BY <2>2, GreaterCommutes
  <1> QED BY <1>5, <1>6

\* A gadget that is an array absorbs a sketch of coupons.
LEMMA ArrayUnionCoupons ==
  ASSUME NEW K, NEW u, NEW j \in Nat, NEW ooo, NEW f \in Truths, InArray(u, j, "HLL_8", ooo, f),
         NEW h, NEW k \in Nat, NEW type, NEW D, NEW g \in Truths, InCoupons(h, k, type, D, g)
  PROVE  InArray(UnionUpdate(u, h, K), j, "HLL_8", ooo, Greater(f, g))
  <1> DEFINE r == UnionUpdate(u, h, K)
  <1>1. /\ h.mode # "HLL" /\ h.coupons = D /\ (IsEmpty(h) <=> D = {}) /\ (D = {} <=> g = None) /\ Recall(D, g)
    BY InCouponsFacts
  <1>2. ~IsEmpty(u)
    BY InArrayFacts
  <1>3. CASE D = {}
    <2>1. r = u
      BY <1>1, <1>3 DEF UnionUpdate
    <2>2. Greater(f, g) = f
      BY <1>1, <1>3, GreaterCommutes
    <2> QED BY <2>1, <2>2
  <1>4. CASE D # {}
    <2>1. r = CouponUpdates(u, D)
      BY <1>1, <1>2, <1>4 DEF UnionUpdate, UnionImpl, UnionCoupons
    <2> QED BY <1>1, <2>1, RaisedArray
  <1> QED BY <1>3, <1>4

\* A gadget that is an array absorbs an array.
LEMMA ArrayUnionArray ==
  ASSUME NEW K, NEW u, NEW j \in Nat, NEW o1, NEW f \in Truths, InArray(u, j, "HLL_8", o1, f),
         NEW h, NEW k \in Nat, NEW type, NEW o2, NEW g \in Truths, InArray(h, k, type, o2, g), NEW t \in HllTypes
  PROVE  InArray(CopyAs(UnionUpdate(u, h, K), t), IF k < j THEN k ELSE j, t, TRUE, Greater(f, g))
  <1>1. u.mode = "HLL" /\ ~IsEmpty(u)
    BY InArrayFacts
  <1>2. h.mode = "HLL" /\ ~IsEmpty(h)
    BY InArrayFacts
  <1>3. UnionUpdate(u, h, K) = UnionArrays(u, h)
    BY <1>1, <1>2 DEF UnionUpdate, UnionImpl
  <1>4. InArray(CopyAs(UnionArrays(u, h), t), IF k < j THEN k ELSE j, t, TRUE, Greater(f, g))
    BY UnionArraysFacts
  <1> QED BY <1>3, <1>4

\* A new sketch.
LEMMA EmptyList ==
  ASSUME NEW K \in Nat, NEW type
  PROVE  InCoupons(NewList(K, type), K, type, {}, None)
  <1>1. Recall({}, None)
    BY FS_EmptySet DEF Recall, None
  <1>2. Cardinality({}) = 0 /\ Power2(LG_INIT_LIST_SIZE) \in Nat \ {0}
    BY FS_EmptySet, PowerFacts, ConstantFacts
  <1>3. ~Full(0, K)
    BY <1>2 DEF Full
  <1>4. CouponSketch(NewList(K, type), {}, K, type)
    BY <1>2, NewCoupons DEF CouponSketch
  <1> QED BY <1>1, <1>2, <1>3, <1>4 DEF InCoupons

\* The wider of two widths.
LEMMA WidthFacts ==
  ASSUME NEW a \in Nat, NEW b \in Nat
  PROVE  Max({a, b}) = (IF a < b THEN b ELSE a) /\ Max({b, a}) = Max({a, b})
         /\ Max({a, b}) \in Nat /\ a <= Max({a, b}) /\ b <= Max({a, b})
  <1> DEFINE m == Max({a, b})
  <1>1. m \in {a, b} /\ \A y \in {a, b} : y <= m
    <2>1. {a, b} \subseteq 0..(a + b) /\ a + b \in Nat /\ {a, b} # {}
      OBVIOUS
    <2> QED BY <2>1, MaxFacts
  <1> HIDE DEF m
  <1>2. m = (IF a < b THEN b ELSE a) /\ m \in Nat /\ a <= m /\ b <= m
    BY <1>1
  <1>3. {b, a} = {a, b}
    OBVIOUS
  <1> QED BY <1>2, <1>3 DEF m

----------------------------------------------------------------------------
(* Merges *)

\* The width of the union
Wider(j, k) == IF j < k THEN k ELSE j

\* What hll_merge_cpp does: both sketches into a gadget as wide as the wider, copied
\* in the receiver's type.
LEMMA MergedUnfolds ==
  ASSUME NEW j \in Nat, NEW k \in Nat, NEW h, h.lgK = j, NEW o, o.lgK = k
  PROVE  Merged(h, o) = CopyAs(UnionUpdate(UnionUpdate(NewList(Wider(j, k), "HLL_8"), h, Wider(j, k)), o, Wider(j, k)),
                               h.type)
  BY WidthFacts DEF Merged, Wider

\* A new gadget absorbs a sketch of coupons.
LEMMA FirstCoupons ==
  ASSUME NEW K \in Nat, NEW h, NEW k \in Nat, k <= K, NEW type, NEW C, NEW f \in Truths, InCoupons(h, k, type, C, f)
  PROVE  InCoupons(UnionUpdate(NewList(K, "HLL_8"), h, K), K, "HLL_8", C, f)
  <1> DEFINE u == NewList(K, "HLL_8")
             r == UnionUpdate(u, h, K)
  <1>1. InCoupons(u, K, "HLL_8", {}, None)
    BY EmptyList
  <1>2. None \in Truths /\ Greater(None, f) = f /\ {} \cup C = C
    BY GreaterCommutes
  <1> HIDE DEF u
  <1>3. InEither(r, K, "HLL_8", {} \cup C, Greater(None, f))
    BY <1>1, <1>2, CouponsUnionCoupons
  <1> HIDE DEF r
  <1>4. InEither(r, K, "HLL_8", C, f)
    BY <1>2, <1>3, Zenon
  <1>5. ~Full(Cardinality(C), K)
    <2>1. ~Full(Cardinality(C), k)
      BY DEF InCoupons
    <2>2. Cardinality(C) \in Nat
      BY InCouponsFacts, FS_CardinalityType
    <2> QED BY <2>1, <2>2, FullMonotone
  <1>6. InCoupons(r, K, "HLL_8", C, f)
    BY <1>4, <1>5 DEF InEither
  <1> QED BY <1>6 DEF r, u

\* A new gadget absorbs an array.
LEMMA FirstArray ==
  ASSUME NEW K \in Nat, NEW h, NEW k \in Nat, k <= K, NEW type, NEW ooo, NEW f \in Truths, InArray(h, k, type, ooo, f)
  PROVE  InArray(UnionUpdate(NewList(K, "HLL_8"), h, K), k, "HLL_8", ooo, f)
  <1>1. InCoupons(NewList(K, "HLL_8"), K, "HLL_8", {}, None)
    BY EmptyList
  <1>2. None \in Truths /\ Greater(None, f) = f
    BY GreaterCommutes
  <1>3. InArray(UnionUpdate(NewList(K, "HLL_8"), h, K), k, "HLL_8", ooo, Greater(None, f))
    BY <1>1, <1>2, CouponsUnionArray
  <1> QED BY <1>2, <1>3

\* The merge of two sketches of coupons.
LEMMA MergedCoupons ==
  ASSUME NEW j \in Nat, NEW s \in HllTypes, NEW h, NEW C, NEW f \in Truths, InCoupons(h, j, s, C, f),
         NEW k \in Nat, NEW t, NEW o, NEW D, NEW g \in Truths, InCoupons(o, k, t, D, g)
  PROVE  InEither(Merged(h, o), Wider(j, k), s, C \cup D, Greater(f, g))
  <1> DEFINE K == Wider(j, k)
             u == UnionUpdate(NewList(K, "HLL_8"), h, K)
             r == UnionUpdate(u, o, K)
  <1>1. h.lgK = j /\ o.lgK = k /\ h.type = s
    BY InCouponsFacts
  <1>2. Merged(h, o) = CopyAs(r, s)
    BY <1>1, MergedUnfolds
  <1>3. K \in Nat /\ j <= K /\ k <= K
    BY DEF Wider
  <1> HIDE DEF K
  <1>4. InCoupons(u, K, "HLL_8", C, f)
    BY <1>3, FirstCoupons
  <1> HIDE DEF u
  <1>5. InEither(r, K, "HLL_8", C \cup D, Greater(f, g))
    BY <1>3, <1>4, CouponsUnionCoupons
  <1>6. Greater(f, g) \in Truths
    BY GreaterFacts
  <1> HIDE DEF r
  <1>7. CASE Full(Cardinality(C \cup D), K)
    <2>1. InArray(CopyAs(r, s), K, s, FALSE, Greater(f, g))
      BY <1>3, <1>5, <1>6, <1>7, CopiedArray DEF InEither
    <2>2. InEither(CopyAs(r, s), K, s, C \cup D, Greater(f, g))
      BY <1>7, <2>1 DEF InEither
    <2> QED BY <1>2, <2>2 DEF K
  <1>8. CASE ~Full(Cardinality(C \cup D), K)
    <2>1. InCoupons(r, K, "HLL_8", C \cup D, Greater(f, g))
      BY <1>5, <1>8 DEF InEither
    <2>2. InCoupons(CopyAs(r, s), K, s, C \cup D, Greater(f, g))
      BY <1>6, <2>1, CopiedCoupons
    <2>3. InEither(CopyAs(r, s), K, s, C \cup D, Greater(f, g))
      BY <1>8, <2>2 DEF InEither
    <2> QED BY <1>2, <2>3 DEF K
  <1> QED BY <1>7, <1>8

\* An array merged into a sketch of coupons.
LEMMA MergedCouponsArray ==
  ASSUME NEW j \in Nat, NEW s \in HllTypes, NEW h, NEW C, NEW f \in Truths, InCoupons(h, j, s, C, f),
         NEW k \in Nat, NEW t, NEW o, NEW ooo, NEW g \in Truths, InArray(o, k, t, ooo, g)
  PROVE  InArray(Merged(h, o), k, s, ooo, Greater(f, g))
  <1> DEFINE K == Wider(j, k)
             u == UnionUpdate(NewList(K, "HLL_8"), h, K)
             r == UnionUpdate(u, o, K)
  <1>1. h.lgK = j /\ o.lgK = k /\ h.type = s
    <2>1. o.lgK = k
      BY InArrayFacts
    <2>2. h.lgK = j /\ h.type = s
      BY InCouponsFacts
    <2> QED BY <2>1, <2>2
  <1>2. Merged(h, o) = CopyAs(r, s)
    BY <1>1, MergedUnfolds
  <1>3. K \in Nat /\ j <= K /\ k <= K
    BY DEF Wider
  <1> HIDE DEF K
  <1>4. InCoupons(u, K, "HLL_8", C, f)
    BY <1>3, FirstCoupons
  <1> HIDE DEF u
  <1>5. InArray(r, k, "HLL_8", ooo, Greater(f, g)) /\ Greater(f, g) \in Truths
    BY <1>3, <1>4, CouponsUnionArray, GreaterFacts
  <1> HIDE DEF r
  <1>6. InArray(CopyAs(r, s), k, s, ooo, Greater(f, g))
    BY <1>5, CopiedArray
  <1> QED BY <1>2, <1>6

\* A sketch of coupons merged into an array.
LEMMA MergedArrayCoupons ==
  ASSUME NEW j \in Nat, NEW s \in HllTypes, NEW h, NEW ooo, NEW f \in Truths, InArray(h, j, s, ooo, f),
         NEW k \in Nat, NEW t, NEW o, NEW D, NEW g \in Truths, InCoupons(o, k, t, D, g)
  PROVE  InArray(Merged(h, o), j, s, ooo, Greater(f, g))
  <1> DEFINE K == Wider(j, k)
             u == UnionUpdate(NewList(K, "HLL_8"), h, K)
             r == UnionUpdate(u, o, K)
  <1>1. h.lgK = j /\ o.lgK = k /\ h.type = s
    <2>1. o.lgK = k
      BY InCouponsFacts
    <2>2. h.lgK = j /\ h.type = s
      BY InArrayFacts
    <2> QED BY <2>1, <2>2
  <1>2. Merged(h, o) = CopyAs(r, s)
    BY <1>1, MergedUnfolds
  <1>3. K \in Nat /\ j <= K
    BY DEF Wider
  <1> HIDE DEF K
  <1>4. InArray(u, j, "HLL_8", ooo, f)
    BY <1>3, FirstArray
  <1> HIDE DEF u
  <1>5. InArray(r, j, "HLL_8", ooo, Greater(f, g)) /\ Greater(f, g) \in Truths
    BY <1>4, ArrayUnionCoupons, GreaterFacts
  <1> HIDE DEF r
  <1>6. InArray(CopyAs(r, s), j, s, ooo, Greater(f, g))
    BY <1>5, CopiedArray
  <1> QED BY <1>2, <1>6

\* The merge of two arrays.
LEMMA MergedArrays ==
  ASSUME NEW j \in Nat, NEW s \in HllTypes, NEW h, NEW o1, NEW f \in Truths, InArray(h, j, s, o1, f),
         NEW k \in Nat, NEW t, NEW o, NEW o2, NEW g \in Truths, InArray(o, k, t, o2, g)
  PROVE  InArray(Merged(h, o), IF k < j THEN k ELSE j, s, TRUE, Greater(f, g))
  <1> DEFINE K == Wider(j, k)
             u == UnionUpdate(NewList(K, "HLL_8"), h, K)
  <1>1. h.lgK = j /\ o.lgK = k /\ h.type = s
    BY InArrayFacts
  <1>2. Merged(h, o) = CopyAs(UnionUpdate(u, o, K), s)
    BY <1>1, MergedUnfolds
  <1>3. K \in Nat /\ j <= K
    BY DEF Wider
  <1> HIDE DEF K
  <1>4. InArray(u, j, "HLL_8", o1, f)
    BY <1>3, FirstArray
  <1> HIDE DEF u
  <1>5. InArray(CopyAs(UnionUpdate(u, o, K), s), IF k < j THEN k ELSE j, s, TRUE, Greater(f, g))
    BY <1>4, ArrayUnionArray
  <1> QED BY <1>2, <1>5

----------------------------------------------------------------------------
(* One sketch *)

\* What coupon sketches answer is determined by width and coupons.
LEMMA SameCoupons ==
  ASSUME NEW k, NEW s, NEW t, NEW C, NEW f \in Truths, NEW m, InCoupons(m, k, s, C, f), NEW n, InCoupons(n, k, t, C, f)
  PROVE  Answers(m) = Answers(n)
  <1>1. ASSUME NEW u, NEW type, InCoupons(u, k, type, C, f)
        PROVE  /\ u.mode = IF Cardinality(C) < Power2(LG_INIT_LIST_SIZE) THEN "LIST" ELSE "SET"
               /\ u.lgK = k /\ u.coupons = C /\ u.ooo = FALSE /\ u.array = <<>>
               /\ IsEmpty(u) = (C = {})
    <2>1. PICK mode, l : u = CouponsWith(mode, k, type, C, l) /\ mode \in {"LIST", "SET"}
                         /\ (mode = "LIST" <=> Cardinality(C) < Power2(LG_INIT_LIST_SIZE))
      BY <1>1 DEF InCoupons, CouponSketch, ListWith, SetWith
    <2>2. u.mode = mode /\ u.lgK = k /\ u.coupons = C /\ u.ooo = FALSE /\ u.array = <<>>
      BY <2>1 DEF CouponsWith
    <2> QED BY <2>1, <2>2 DEF IsEmpty
  <1>2. /\ m.mode = n.mode /\ m.lgK = n.lgK /\ m.coupons = n.coupons /\ m.ooo = n.ooo
        /\ IsEmpty(m) = IsEmpty(n) /\ m.array = <<>> /\ n.array = <<>>
    BY <1>1
  <1>3. [i \in DOMAIN m.array |-> ValueOf(m, i)] = [i \in DOMAIN n.array |-> ValueOf(n, i)]
    <2>1. DOMAIN m.array = {} /\ DOMAIN n.array = {}
      BY <1>2
    <2> QED BY <2>1
  <1> QED BY <1>2, <1>3 DEF Answers

\* What arrays answer is determined by width, order and what was absorbed.
LEMMA SameArrays ==
  ASSUME NEW k \in Nat, NEW s, NEW t, NEW ooo, NEW f \in Truths,
         NEW m, InArray(m, k, s, ooo, f), NEW n, InArray(n, k, t, ooo, f)
  PROVE  Answers(m) = Answers(n)
  <1>1. PICK v : Array(m, v) /\ Tops(v, f, k)
    BY DEF InArray
  <1>2. PICK w : Array(n, w) /\ Tops(w, f, k)
    BY DEF InArray
  <1>3. v = w
    BY <1>1, <1>2, TopsUnique
  <1>4. /\ m.mode = "HLL" /\ m.lgK = k /\ ~IsEmpty(m) /\ m \in Arrays(k) /\ m.coupons = {}
    BY InArrayFacts
  <1>5. /\ n.mode = "HLL" /\ n.lgK = k /\ ~IsEmpty(n) /\ n \in Arrays(k) /\ n.coupons = {}
    BY InArrayFacts
  <1>6. m.ooo = n.ooo
    BY <1>4, <1>5 DEF InArray, Arrays
  <1>7. IsEmpty(m) = FALSE /\ IsEmpty(n) = FALSE
    BY <1>4, <1>5 DEF IsEmpty
  <1>8. /\ DOMAIN m.array = Slots(k) /\ \A i \in Slots(k) : ValueOf(m, i) = v[i]
        /\ DOMAIN n.array = Slots(k) /\ \A i \in Slots(k) : ValueOf(n, i) = v[i]
    <2>1. Encodes(m, v) /\ Encodes(n, v)
      BY <1>1, <1>2, <1>3 DEF Array, Shiftable
    <2> QED BY <1>4, <1>5, <2>1, EncodesFacts
  <1>9. [i \in DOMAIN m.array |-> ValueOf(m, i)] = [i \in DOMAIN n.array |-> ValueOf(n, i)]
    BY <1>8
  <1> QED BY <1>4, <1>5, <1>6, <1>7, <1>9 DEF Answers

\* The same, of the union of coupons.
LEMMA SameEither ==
  ASSUME NEW k \in Nat, NEW s, NEW t, NEW C, NEW f \in Truths, NEW m, InEither(m, k, s, C, f), NEW n, InEither(n, k, t, C, f)
  PROVE  Answers(m) = Answers(n)
  <1>1. CASE Full(Cardinality(C), k)
    <2>1. PICK ooo \in BOOLEAN : ooo = FALSE
      OBVIOUS
    <2>2. InArray(m, k, s, ooo, f) /\ InArray(n, k, t, ooo, f)
      BY <1>1, <2>1 DEF InEither
    <2> QED BY <2>2, SameArrays
  <1>2. CASE ~Full(Cardinality(C), k)
    BY <1>2, SameCoupons DEF InEither
  <1> QED BY <1>1, <1>2

Widths == {cfg[1] : cfg \in Config}

\* A sketch that holds f; mix says that its registers come from two arrays.
Sound(m, mix, f) ==
  /\ m.lgK \in Widths /\ m.type \in HllTypes /\ f \in Truths
  /\ \/ ~mix /\ \E C : InCoupons(m, m.lgK, m.type, C, f)
     \/ InArray(m, m.lgK, m.type, mix, f)

\* Widths are natural numbers.
LEMMA WidthsFacts == Widths \subseteq Nat
  BY HLLAssumption DEF Widths

\* A new sketch holds nothing.
LEMMA NewSound ==
  ASSUME NEW cfg \in Config
  PROVE  Sound(NewList(cfg[1], cfg[2]), FALSE, None)
  <1>1. cfg[1] \in Widths /\ cfg[1] \in Nat /\ cfg[2] \in HllTypes
    BY HLLAssumption DEF Widths
  <1>2. PICK k, type : k = cfg[1] /\ type = cfg[2]
    OBVIOUS
  <1>3. InCoupons(NewList(k, type), k, type, {}, None)
    BY <1>1, <1>2, EmptyList
  <1>4. None \in Truths
    BY ConstantFacts DEF None, Truths
  <1>5. NewList(k, type).lgK = k /\ NewList(k, type).type = type
    BY <1>3, <1>4, InCouponsFacts
  <1> QED BY <1>1, <1>2, <1>3, <1>4, <1>5 DEF Sound

\* What one coupon says
One(c) == [a \in Addr |-> IF a = c[1] THEN c[2] ELSE 0]
Bumped(f, c) == [f EXCEPT ![c[1]] = Max({f[c[1]], c[2]})]

\* One coupon more.
LEMMA BumpedFacts ==
  ASSUME NEW f \in Truths, NEW c \in Coupon
  PROVE  /\ Bumped(f, c) = Greater(f, One(c)) /\ One(c) \in Truths /\ Recall({c}, One(c))
         /\ c \in Nat \X (1..MAX_VALUE)
  <1>1. c[1] \in Addr /\ c[2] \in 1..MAX_VALUE /\ c = <<c[1], c[2]>> /\ c \in Nat \X (1..MAX_VALUE)
    BY AddrFacts
  <1> DEFINE a == c[1]
             x == c[2]
             g == [b \in Addr |-> IF b = a THEN x ELSE 0]
  <1>2. One(c) = g
    BY DEF One
  <1>3. a \in Addr /\ x \in 1..MAX_VALUE /\ c = <<a, x>> /\ MAX_VALUE \in Nat
    BY <1>1, ConstantFacts
  <1> HIDE DEF a, x
  <1>4. g \in Truths
    BY <1>3 DEF Truths
  <1>5. Recall({c}, g)
    <2>1. IsFiniteSet({c}) /\ {c} \subseteq Coupon
      BY FS_Singleton
    <2>2. \A b \in Addr : g[b] = 0 \/ <<b, g[b]>> \in {c}
      BY <1>3
    <2>3. \A d \in {c} : d[2] <= g[d[1]]
      BY <1>3 DEF a, x
    <2> QED BY <2>1, <2>2, <2>3 DEF Recall
  <1>6. [f EXCEPT ![a] = Max({f[a], x})] = Greater(f, g)
    <2>1. \A b \in Addr : f[b] \in 0..MAX_VALUE
      BY DEF Truths
    <2>2. \A b \in Addr : b # a => Greater(f, g)[b] = f[b]
      <3> SUFFICES ASSUME NEW b \in Addr, b # a PROVE Greater(f, g)[b] = f[b]
        OBVIOUS
      <3>1. g[b] = 0 /\ f[b] \in Nat
        BY <2>1, <1>3
      <3> HIDE DEF g
      <3>2. Greater(f, g)[b] = IF f[b] < g[b] THEN g[b] ELSE f[b]
        BY <1>4, GreaterFacts
      <3> QED BY <3>1, <3>2
    <2>3. Greater(f, g)[a] = Max({f[a], x})
      BY <1>3 DEF Greater
    <2> HIDE DEF g
    <2>4. Greater(f, g) \in [Addr -> 0..MAX_VALUE] /\ f \in [Addr -> 0..MAX_VALUE]
      BY <1>4, GreaterFacts DEF Truths
    <2> QED BY <1>3, <2>2, <2>3, <2>4
  <1>7. Bumped(f, c) = [f EXCEPT ![a] = Max({f[a], x})]
    BY DEF Bumped, a, x
  <1> HIDE DEF g
  <1> QED BY <1>1, <1>2, <1>4, <1>5, <1>6, <1>7

\* An update leaves the sketch sound.
LEMMA UpdateSound ==
  ASSUME NEW m, NEW mix \in BOOLEAN, NEW f, Sound(m, mix, f), NEW c \in Coupon
  PROVE  Sound(CouponUpdate(m, c), mix, Bumped(f, c))
  <1> DEFINE k == m.lgK
             type == m.type
             r == CouponUpdate(m, c)
             g == Bumped(f, c)
  <1>1. k \in Widths /\ k \in Nat /\ type \in HllTypes /\ f \in Truths
    BY WidthsFacts DEF Sound
  <1>2. /\ g = Greater(f, One(c)) /\ One(c) \in Truths /\ Recall({c}, One(c)) /\ c \in Nat \X (1..MAX_VALUE)
        /\ g \in Truths
    BY <1>1, BumpedFacts, GreaterFacts
  <1>3. CASE ~mix /\ \E C : InCoupons(m, k, type, C, f)
    <2>1. PICK C : InCoupons(m, k, type, C, f)
      BY <1>3
    <2> HIDE DEF k, type, r, g
    <2>2. Made(m, C, k, type) /\ Recall(C, f) /\ IsFiniteSet(C) /\ C \subseteq Nat \X (1..MAX_VALUE)
      BY <1>1, <2>1, InCouponsFacts DEF InCoupons, Made
    <2>3. Made(r, C \cup {c}, k, type)
      BY <1>1, <1>2, <2>2, CouponUpdateFacts DEF r
    <2>4. Recall(C \cup {c}, g)
      BY <1>1, <1>2, <2>2, RecallUnion
    <2>5. \/ InArray(r, k, type, FALSE, g)
          \/ InCoupons(r, k, type, C \cup {c}, g)
      BY <1>1, <1>2, <2>3, <2>4, MadeHolds
    <2>6. CASE InArray(r, k, type, FALSE, g)
      <3>1. r.lgK = k /\ r.type = type
        BY <1>1, <1>2, <2>6, InArrayFacts
      <3>2. InArray(r, k, type, mix, g)
        BY <1>3, <2>6 DEF InArray
      <3>3. Sound(r, mix, g)
        BY <1>1, <1>2, <3>1, <3>2 DEF Sound
      <3> QED BY <3>3 DEF r, g
    <2>7. CASE InCoupons(r, k, type, C \cup {c}, g)
      <3>1. r.lgK = k /\ r.type = type
        BY <1>1, <1>2, <2>7, InCouponsFacts
      <3>2. Sound(r, mix, g)
        BY <1>1, <1>2, <1>3, <2>7, <3>1 DEF Sound
      <3> QED BY <3>2 DEF r, g
    <2> QED BY <2>5, <2>6, <2>7
  <1>4. CASE InArray(m, k, type, mix, f)
    <2>1. PICK v : Array(m, v) /\ Tops(v, f, k)
      BY <1>4 DEF InArray
    <2>2. r = ArrayUpdate(m, c)
      BY <1>4 DEF InArray, CouponUpdate
    <2> DEFINE w == Raised(v, c[1] % Power2(k), c[2])
    <2>3. Array(r, w) /\ Kept(r, m)
      BY <1>2, <2>1, <2>2, ArrayUpdateFacts
    <2>4. v \in [Slots(k) -> 0..MAX_VALUE]
      BY <2>1 DEF Tops
    <2>5. IsTop(v, v, {}, k)
      BY <2>4, TopEmpty
    <2>6. IsTop(w, v, {} \cup {c}, k)
      BY <1>1, <1>2, <2>4, <2>5, TopRaised
    <2> HIDE DEF k, type, r, g, w
    <2>7. IsTop(w, v, {c}, k)
      <3>1. {} \cup {c} = {c}
        OBVIOUS
      <3> QED BY <2>6, <3>1, Zenon
    <2>8. Tops(w, g, k)
      BY <1>1, <1>2, <2>1, <2>7, TopsCoupons
    <2>9. \E a \in Addr : g[a] # 0
      <3>1. PICK a \in Addr : f[a] # 0
        BY <1>4 DEF InArray
      <3>2. f[a] <= g[a] /\ f[a] \in 0..MAX_VALUE /\ g[a] \in 0..MAX_VALUE
        BY <1>1, <1>2, GreaterBounds
      <3>3. g[a] # 0
        BY <3>1, <3>2, ConstantFacts
      <3> QED BY <3>3
    <2>10. r.lgK = k /\ r.type = type /\ ~r.rebuild /\ (r.ooo <=> mix) /\ (r.hip <=> ~mix)
      BY <1>4, <2>3 DEF Kept, InArray, k, type
    <2>11. r.mode = "HLL"
      BY <2>3 DEF Array, Shiftable, Arrays
    <2>12. InArray(r, k, type, mix, g)
      BY <2>3, <2>8, <2>9, <2>10, <2>11 DEF InArray
    <2>13. Sound(r, mix, g)
      BY <1>1, <1>2, <2>10, <2>12 DEF Sound
    <2> QED BY <2>13 DEF r, g
  <1> QED BY <1>3, <1>4 DEF Sound

\* The union of coupons is sound.
LEMMA EitherSound ==
  ASSUME NEW k \in Widths, NEW s \in HllTypes, NEW C, NEW f \in Truths, NEW m, InEither(m, k, s, C, f)
  PROVE  Sound(m, FALSE, f)
  <1>1. k \in Nat
    BY WidthsFacts
  <1>2. CASE Full(Cardinality(C), k)
    <2>1. InArray(m, k, s, FALSE, f)
      BY <1>2 DEF InEither
    <2>2. m.lgK = k /\ m.type = s
      BY <1>1, <2>1, InArrayFacts
    <2> QED BY <2>1, <2>2 DEF Sound
  <1>3. CASE ~Full(Cardinality(C), k)
    <2>1. InCoupons(m, k, s, C, f)
      BY <1>3 DEF InEither
    <2>2. m.lgK = k /\ m.type = s
      BY <2>1, InCouponsFacts
    <2> QED BY <2>1, <2>2 DEF Sound
  <1> QED BY <1>2, <1>3

\* An array that holds what was absorbed is sound.
LEMMA ArraySound ==
  ASSUME NEW k \in Widths, NEW s \in HllTypes, NEW mix, NEW f \in Truths, NEW m, InArray(m, k, s, mix, f)
  PROVE  Sound(m, mix, f)
  <1>1. k \in Nat
    BY WidthsFacts
  <1>2. m.lgK = k /\ m.type = s
    BY <1>1, InArrayFacts
  <1> QED BY <1>2 DEF Sound

\* The registers come from two arrays.
Mixes(h, m1, o, m2) == m1 \/ m2 \/ (h.mode = "HLL" /\ o.mode = "HLL")

\* A sound sketch is of coupons and in order, or an array.
LEMMA SoundCases ==
  ASSUME NEW m, NEW mix \in BOOLEAN, NEW f, Sound(m, mix, f)
  PROVE  /\ m.lgK \in Widths /\ m.lgK \in Nat /\ m.type \in HllTypes /\ f \in Truths
         /\ \/ m.mode # "HLL" /\ mix = FALSE /\ \E C : InCoupons(m, m.lgK, m.type, C, f)
            \/ m.mode = "HLL" /\ InArray(m, m.lgK, m.type, mix, f)
  <1>1. m.lgK \in Widths /\ m.lgK \in Nat /\ m.type \in HllTypes /\ f \in Truths
    BY WidthsFacts DEF Sound
  <1>2. CASE ~mix /\ \E C : InCoupons(m, m.lgK, m.type, C, f)
    <2>1. m.mode # "HLL"
      BY <1>1, <1>2, InCouponsFacts
    <2> QED BY <1>1, <1>2, <2>1
  <1>3. CASE InArray(m, m.lgK, m.type, mix, f)
    BY <1>1, <1>3 DEF InArray
  <1> QED BY <1>2, <1>3 DEF Sound

\* A merge leaves its receiver sound, and does not depend on which of the two
\* receives.
LEMMA MergeSound ==
  ASSUME NEW h, NEW m1 \in BOOLEAN, NEW f, Sound(h, m1, f), NEW o, NEW m2 \in BOOLEAN, NEW g, Sound(o, m2, g)
  PROVE  /\ Sound(Merged(h, o), Mixes(h, m1, o, m2), Greater(f, g))
         /\ Answers(Merged(h, o)) = Answers(Merged(o, h))
  <1> DEFINE j == h.lgK
             s == h.type
             k == o.lgK
             t == o.type
             u == Merged(h, o)
             v == Merged(o, h)
             G == Greater(f, g)
  <1>1. /\ j \in Widths /\ j \in Nat /\ s \in HllTypes /\ f \in Truths
        /\ \/ h.mode # "HLL" /\ m1 = FALSE /\ \E C : InCoupons(h, j, s, C, f)
           \/ h.mode = "HLL" /\ InArray(h, j, s, m1, f)
    BY SoundCases
  <1>2. /\ k \in Widths /\ k \in Nat /\ t \in HllTypes /\ g \in Truths
        /\ \/ o.mode # "HLL" /\ m2 = FALSE /\ \E C : InCoupons(o, k, t, C, g)
           \/ o.mode = "HLL" /\ InArray(o, k, t, m2, g)
    BY SoundCases
  <1>3. G \in Truths /\ Greater(g, f) = G
    BY <1>1, <1>2, GreaterFacts, GreaterCommutes
  <1> HIDE DEF j, s, k, t, u, v, G
  <1>4. ASSUME h.mode # "HLL", m1 = FALSE, NEW C, InCoupons(h, j, s, C, f),
               o.mode # "HLL", m2 = FALSE, NEW D, InCoupons(o, k, t, D, g)
        PROVE  Sound(u, Mixes(h, m1, o, m2), G) /\ Answers(u) = Answers(v)
    <2> DEFINE K == Wider(j, k)
    <2>1. K \in Widths /\ K \in Nat /\ Wider(k, j) = K
      BY <1>1, <1>2 DEF Wider
    <2>2. InEither(u, K, s, C \cup D, G)
      BY <1>1, <1>2, <1>4, MergedCoupons DEF u, G
    <2>3. InEither(v, Wider(k, j), t, D \cup C, Greater(g, f))
      BY <1>1, <1>2, <1>4, MergedCoupons DEF v
    <2>4. InEither(v, K, t, C \cup D, G)
      <3>1. D \cup C = C \cup D
        OBVIOUS
      <3> QED BY <1>3, <2>1, <2>3, <3>1, Zenon
    <2> HIDE DEF K
    <2>5. Answers(u) = Answers(v)
      BY <1>3, <2>1, <2>2, <2>4, SameEither
    <2>6. Sound(u, FALSE, G)
      BY <1>1, <1>3, <2>1, <2>2, EitherSound
    <2>7. Mixes(h, m1, o, m2) = FALSE
      BY <1>4 DEF Mixes
    <2> QED BY <2>5, <2>6, <2>7
  <1>5. ASSUME h.mode # "HLL", m1 = FALSE, NEW C, InCoupons(h, j, s, C, f),
               o.mode = "HLL", InArray(o, k, t, m2, g)
        PROVE  Sound(u, Mixes(h, m1, o, m2), G) /\ Answers(u) = Answers(v)
    <2>1. InArray(u, k, s, m2, G)
      BY <1>1, <1>2, <1>5, MergedCouponsArray DEF u, G
    <2>2. InArray(v, k, t, m2, Greater(g, f))
      BY <1>1, <1>2, <1>5, MergedArrayCoupons DEF v
    <2>3. Mixes(h, m1, o, m2) = m2
      BY <1>5 DEF Mixes
    <2>4. Sound(u, m2, G)
      BY <1>1, <1>2, <1>3, <2>1, ArraySound
    <2>5. Answers(u) = Answers(v)
      BY <1>2, <1>3, <2>1, <2>2, SameArrays
    <2> QED BY <2>3, <2>4, <2>5
  <1>6. ASSUME h.mode = "HLL", InArray(h, j, s, m1, f),
               o.mode # "HLL", m2 = FALSE, NEW D, InCoupons(o, k, t, D, g)
        PROVE  Sound(u, Mixes(h, m1, o, m2), G) /\ Answers(u) = Answers(v)
    <2>1. InArray(u, j, s, m1, G)
      BY <1>1, <1>2, <1>6, MergedArrayCoupons DEF u, G
    <2>2. InArray(v, j, t, m1, Greater(g, f))
      BY <1>1, <1>2, <1>6, MergedCouponsArray DEF v
    <2>3. Mixes(h, m1, o, m2) = m1
      BY <1>6 DEF Mixes
    <2>4. Sound(u, m1, G)
      BY <1>1, <1>3, <2>1, ArraySound
    <2>5. Answers(u) = Answers(v)
      BY <1>1, <1>3, <2>1, <2>2, SameArrays
    <2> QED BY <2>3, <2>4, <2>5
  <1>7. ASSUME h.mode = "HLL", InArray(h, j, s, m1, f), o.mode = "HLL", InArray(o, k, t, m2, g)
        PROVE  Sound(u, Mixes(h, m1, o, m2), G) /\ Answers(u) = Answers(v)
    <2> DEFINE n == IF k < j THEN k ELSE j
    <2>1. n \in Widths /\ n \in Nat /\ (IF j < k THEN j ELSE k) = n
      BY <1>1, <1>2
    <2>2. InArray(u, n, s, TRUE, G)
      BY <1>1, <1>2, <1>7, MergedArrays DEF u, G
    <2>3. InArray(v, IF j < k THEN j ELSE k, t, TRUE, Greater(g, f))
      BY <1>1, <1>2, <1>7, MergedArrays DEF v
    <2> HIDE DEF n
    <2>4. InArray(v, n, t, TRUE, G)
      BY <1>3, <2>1, <2>3
    <2>5. Mixes(h, m1, o, m2) = TRUE
      BY <1>7 DEF Mixes
    <2>6. Sound(u, TRUE, G)
      BY <1>1, <1>3, <2>1, <2>2, ArraySound
    <2>7. PICK b \in BOOLEAN : b = TRUE
      OBVIOUS
    <2>8. InArray(u, n, s, b, G) /\ InArray(v, n, t, b, G)
      BY <2>2, <2>4, <2>7
    <2>9. Answers(u) = Answers(v)
      BY <1>3, <2>1, <2>8, SameArrays
    <2> QED BY <2>5, <2>6, <2>9
  <1> QED BY <1>1, <1>2, <1>4, <1>5, <1>6, <1>7 DEF u, v, G

\* Bytes bring a sound sketch back: the table of a SET is as large as its coupons
\* make it, and the fields an array does not write have the values they are given.
LEMMA RestoredSame ==
  ASSUME NEW m, NEW mix \in BOOLEAN, NEW f, Sound(m, mix, f)
  PROVE  Restored(m) = m
  <1> DEFINE k == m.lgK
             type == m.type
  <1>1. /\ k \in Nat /\ type \in HllTypes /\ f \in Truths
        /\ \/ m.mode # "HLL" /\ \E C : InCoupons(m, k, type, C, f)
           \/ m.mode = "HLL" /\ InArray(m, k, type, mix, f)
    BY SoundCases
  <1>2. CASE m.mode # "HLL"
    <2>1. PICK C : InCoupons(m, k, type, C, f)
      BY <1>1, <1>2
    <2>2. /\ m.coupons = C /\ IsFiniteSet(C) /\ m.mode \in {"LIST", "SET"} /\ Cardinality(C) \in Nat
          /\ (m.mode = "LIST" <=> Cardinality(C) < Power2(LG_INIT_LIST_SIZE))
      BY <1>1, <2>1, InCouponsFacts, FS_CardinalityType
    <2>3. CASE m.mode = "LIST"
      BY <2>3 DEF Restored
    <2>4. CASE m.mode = "SET"
      <3>1. ~(Cardinality(C) < Power2(LG_INIT_LIST_SIZE))
        BY <2>2, <2>4
      <3>2. PICK l : Fits(Cardinality(C), k, l) /\ m = SetWith(k, type, C, l)
        BY <2>1, <3>1 DEF InCoupons, CouponSketch
      <3>3. k >= MIN_SET_LG_K
        <4>1. ~Full(Cardinality(C), k)
          BY <2>1 DEF InCoupons
        <4>2. Power2(LG_INIT_LIST_SIZE) \in Nat
          BY PowerFacts, ConstantFacts
        <4> QED BY <1>1, <2>2, <3>1, <4>1, <4>2, ConstantFacts DEF Full
      <3> HIDE DEF k, type
      <3>4. PICK n : Fits(Cardinality(C), k, n) /\ Insertions(NewSet(k, type), C) = SetWith(k, type, C, n)
        BY <1>1, <2>2, <3>3, InsertionsFacts
      <3>5. n = l
        BY <1>1, <2>2, <3>2, <3>4, FitsUnique
      <3>6. Restored(m) = Insertions(NewSet(k, type), C)
        BY <2>2, <2>4 DEF Restored, k, type
      <3> QED BY <3>2, <3>4, <3>5, <3>6
    <2> QED BY <2>2, <2>3, <2>4
  <1>3. CASE m.mode = "HLL"
    <2>1. InArray(m, k, type, mix, f)
      BY <1>1, <1>3
    <2>2. m \in Arrays(k)
      BY <1>1, <2>1, InArrayFacts
    <2>3. (m.hip /\ ~m.ooo) = m.hip /\ m.rebuild = FALSE
      BY <2>1, <2>2 DEF InArray, Arrays
    <2>4. PICK r : r = [m EXCEPT !.hip = m.hip, !.rebuild = m.rebuild]
      OBVIOUS
    <2>5. r = m
      BY <2>2, <2>4 DEF Arrays
    <2>6. Restored(m) = [m EXCEPT !.hip = (m.hip /\ ~m.ooo), !.rebuild = FALSE]
      BY <1>3 DEF Restored
    <2> QED BY <2>3, <2>4, <2>5, <2>6
  <1> QED BY <1>2, <1>3

\* The registers of a sound array.
LEMMA SoundRegisters ==
  ASSUME NEW m, NEW mix \in BOOLEAN, NEW f, Sound(m, mix, f)
  PROVE  \/ /\ m.mode # "HLL" /\ ~mix
            /\ \E C : InCoupons(m, m.lgK, m.type, C, f)
         \/ /\ m.mode = "HLL" /\ InArray(m, m.lgK, m.type, mix, f)
            /\ \E v : /\ m \in Arrays(m.lgK) /\ Encodes(m, v) /\ Summed(m, v) /\ Tops(v, f, m.lgK)
                      /\ (m.type = "HLL_4" => m.numAtCurMin # 0)
  <1>1. CASE m.mode # "HLL"
    BY <1>1, SoundCases
  <1>2. CASE m.mode = "HLL"
    <2>1. InArray(m, m.lgK, m.type, mix, f)
      BY <1>2, SoundCases
    <2>2. PICK v : Array(m, v) /\ Tops(v, f, m.lgK)
      BY <2>1 DEF InArray
    <2>3. m \in Arrays(m.lgK) /\ Encodes(m, v) /\ Summed(m, v) /\ (m.type = "HLL_4" => m.numAtCurMin # 0)
      BY <2>2 DEF Array, Shiftable
    <2> QED BY <1>2, <2>1, <2>2, <2>3
  <1> QED BY <1>1, <1>2

\* A largest element is the maximum.
LEMMA MaxIs ==
  ASSUME NEW M \in Nat, NEW S, S \subseteq 0..M, NEW x \in S, \A y \in S : y <= x
  PROVE  Max(S) = x
  <1>1. PICK z : z = Max(S)
    OBVIOUS
  <1>2. z \in S /\ \A y \in S : y <= z
    BY <1>1, MaxFacts
  <1>3. z \in Nat /\ x \in Nat /\ z <= x /\ x <= z
    BY <1>2
  <1>4. z = x
    BY <1>3
  <1> QED BY <1>1, <1>4

TypeFits(h, f) ==
  /\ h.mode \in {"LIST", "SET", "HLL"} /\ h.type \in HllTypes
  /\ h.lgK \in {cfg[1] : cfg \in Config} /\ h.coupons \subseteq Coupon
  /\ h.mode = "HLL" => h.array \in [Slots(h.lgK) -> 0..MAX_VALUE]
  /\ h.type = "HLL_4" => \A i \in DOMAIN h.array : h.array[i] <= AUX_TOKEN
  /\ DOMAIN h.aux \subseteq DOMAIN h.array
  /\ f \in [Addr -> 0..MAX_VALUE]

\* A sound sketch has the right types, and has not thrown.
LEMMA SoundType ==
  ASSUME NEW m, NEW mix \in BOOLEAN, NEW f, Sound(m, mix, f)
  PROVE  TypeFits(m, f) /\ ~m.err
  <1> DEFINE k == m.lgK
  <1>1. k \in Widths /\ k \in Nat /\ m.type \in HllTypes /\ f \in Truths
    BY SoundCases
  <1>2. m.lgK \in {cfg[1] : cfg \in Config} /\ f \in [Addr -> 0..MAX_VALUE]
    BY <1>1 DEF Widths, Truths
  <1>3. CASE m.mode # "HLL"
    <2>1. PICK C : InCoupons(m, k, m.type, C, f)
      BY <1>3, SoundRegisters
    <2>2. m.mode \in {"LIST", "SET"} /\ m.coupons = C /\ m.array = <<>> /\ m.aux = <<>> /\ ~m.err /\ Recall(C, f)
      BY <1>1, <2>1, InCouponsFacts
    <2>3. DOMAIN m.array = {} /\ DOMAIN m.aux = {} /\ C \subseteq Coupon
      BY <2>2 DEF Recall
    <2> QED BY <1>1, <1>2, <1>3, <2>2, <2>3 DEF TypeFits
  <1>4. CASE m.mode = "HLL"
    <2>1. PICK v : m \in Arrays(k) /\ Encodes(m, v) /\ Summed(m, v) /\ Tops(v, f, k)
      BY <1>4, SoundRegisters
    <2>2. /\ DOMAIN m.array = Slots(k) /\ Tokens(m) = DOMAIN m.aux /\ m.curMin \in Nat
          /\ m.array \in [Slots(k) -> Nat] /\ m.coupons = {} /\ ~m.err
      BY <1>1, <2>1, EncodesFacts DEF Arrays
    <2>3. \A i \in Slots(k) : v[i] \in 0..MAX_VALUE /\ m.curMin <= v[i]
      BY <2>1 DEF Encodes
    <2>4. CASE m.type = "HLL_4"
      <3>1. \A i \in Slots(k) : m.array[i] = IF v[i] - m.curMin < AUX_TOKEN THEN v[i] - m.curMin ELSE AUX_TOKEN
        BY <2>1, <2>4 DEF Encodes, Excess
      <3>2. \A i \in Slots(k) : m.array[i] \in 0..MAX_VALUE /\ m.array[i] <= AUX_TOKEN
        BY <2>2, <2>3, <3>1, ConstantFacts
      <3>3. m.array \in [Slots(k) -> 0..MAX_VALUE]
        BY <2>2, <3>2
      <3>4. DOMAIN m.aux \subseteq DOMAIN m.array
        BY <2>2 DEF Tokens
      <3> QED BY <1>1, <1>2, <1>4, <2>2, <3>2, <3>3, <3>4 DEF TypeFits
    <2>5. CASE m.type # "HLL_4"
      <3>1. m.array = v /\ v \in [Slots(k) -> 0..MAX_VALUE]
        BY <2>1, <2>5 DEF Encodes
      <3>2. DOMAIN m.aux \subseteq DOMAIN m.array
        BY <2>2 DEF Tokens
      <3> QED BY <1>1, <1>2, <1>4, <2>2, <2>5, <3>1, <3>2 DEF TypeFits
    <2> QED BY <2>4, <2>5
  <1> QED BY <1>3, <1>4

\* A register, and what a LIST or a SET recalls of an address
RegisterExact(h, f, i) ==
  ValueOf(h, i) = Max({0} \cup {f[a] : a \in {b \in Addr : b % Power2(h.lgK) = i}})
AddressExact(h, f, a) == f[a] = Max({0} \cup {c[2] : c \in {d \in h.coupons : d[1] = a}})

HoldsExactly(h, f) ==
  /\ IsEmpty(h) <=> \A a \in Addr : f[a] = 0
  /\ IF h.mode = "HLL" THEN \A i \in Slots(h.lgK) : RegisterExact(h, f, i)
     ELSE \A a \in Addr : AddressExact(h, f, a)

\* A sound sketch holds exactly what was absorbed.
LEMMA SoundExact ==
  ASSUME NEW m, NEW mix \in BOOLEAN, NEW f, Sound(m, mix, f)
  PROVE  HoldsExactly(m, f)
  <1> DEFINE k == m.lgK
  <1>1. k \in Nat /\ m.type \in HllTypes /\ f \in Truths /\ MAX_VALUE \in Nat
    BY SoundCases, ConstantFacts
  <1>2. \A a \in Addr : f[a] \in 0..MAX_VALUE
    BY <1>1 DEF Truths
  <1>3. CASE m.mode # "HLL"
    <2>1. PICK C : InCoupons(m, k, m.type, C, f)
      BY <1>3, SoundRegisters
    <2>2. /\ m.coupons = C /\ (IsEmpty(m) <=> C = {}) /\ (C = {} <=> f = None) /\ Recall(C, f)
          /\ C \subseteq Nat \X (1..MAX_VALUE)
      BY <1>1, <2>1, InCouponsFacts
    <2>3. IsEmpty(m) <=> \A a \in Addr : f[a] = 0
      <3>1. f = None <=> \A a \in Addr : f[a] = 0
        BY <1>1 DEF None, Truths
      <3> QED BY <2>2, <3>1
    <2>4. ASSUME NEW a \in Addr PROVE AddressExact(m, f, a)
      <3> DEFINE S == {0} \cup {c[2] : c \in {d \in C : d[1] = a}}
      <3>1. S \subseteq 0..MAX_VALUE /\ S # {}
        <4>1. \A c \in C : c[2] \in 1..MAX_VALUE
          BY <2>2
        <4> QED BY <1>1, <4>1
      <3>2. f[a] \in S
        <4>1. f[a] = 0 \/ <<a, f[a]>> \in C
          BY <2>2 DEF Recall
        <4> QED BY <4>1
      <3>3. \A y \in S : y <= f[a]
        <4>1. \A c \in C : c[2] <= f[c[1]]
          BY <2>2 DEF Recall
        <4> QED BY <1>2, <4>1
      <3> HIDE DEF S
      <3>4. f[a] = Max(S)
        BY <1>1, <3>1, <3>2, <3>3, MaxIs
      <3> QED BY <2>2, <3>4 DEF S, AddressExact
    <2> QED BY <1>3, <2>3, <2>4 DEF HoldsExactly
  <1>4. CASE m.mode = "HLL"
    <2>1. InArray(m, k, m.type, mix, f)
      BY <1>4, SoundRegisters
    <2>2. PICK v : m \in Arrays(k) /\ Encodes(m, v) /\ Summed(m, v) /\ Tops(v, f, k)
      BY <1>4, SoundRegisters
    <2>3. IsEmpty(m) <=> \A a \in Addr : f[a] = 0
      <3>1. ~IsEmpty(m) /\ \E a \in Addr : f[a] # 0
        BY <1>1, <2>1, InArrayFacts DEF InArray
      <3> QED BY <3>1
    <2>4. \A i \in Slots(k) : ValueOf(m, i) = v[i]
      BY <1>1, <2>2, EncodesFacts
    <2>5. ASSUME NEW i \in Slots(k) PROVE RegisterExact(m, f, i)
      <3> DEFINE S == {0} \cup {f[a] : a \in {b \in Addr : b % Power2(k) = i}}
      <3>1. S \subseteq 0..MAX_VALUE /\ S # {}
        BY <1>1, <1>2
      <3>2. v[i] \in S /\ (\A y \in S : y <= v[i]) /\ v[i] \in Nat
        <4>1. /\ v[i] = 0 \/ \E a \in Addr : a % Power2(k) = i /\ v[i] = f[a]
              /\ \A a \in Addr : a % Power2(k) = i => f[a] <= v[i]
              /\ v[i] \in 0..MAX_VALUE
          BY <2>2 DEF Tops
        <4> QED BY <1>1, <4>1
      <3> HIDE DEF S
      <3>3. v[i] = Max(S)
        BY <1>1, <3>1, <3>2, MaxIs
      <3> QED BY <2>4, <3>3 DEF S, RegisterExact
    <2> QED BY <1>4, <2>3, <2>5 DEF HoldsExactly
  <1> QED BY <1>3, <1>4

\* A smallest element is the minimum.
LEMMA MinIs ==
  ASSUME NEW S, S \subseteq Nat, NEW x \in S, \A y \in S : x <= y
  PROVE  Min(S) = x
  <1>1. \E z \in S : \A y \in S : z <= y
    OBVIOUS
  <1>2. PICK z : z = Min(S)
    OBVIOUS
  <1>3. z \in S /\ \A y \in S : z <= y
    BY <1>1, <1>2 DEF Min
  <1>4. z \in Nat /\ x \in Nat /\ z <= x /\ x <= z
    BY <1>3
  <1>5. z = x
    BY <1>4
  <1> QED BY <1>2, <1>5

Summarised(h) ==
  LET values == {ValueOf(h, i) : i \in Slots(h.lgK)} IN
  /\ h.curMin = IF h.type = "HLL_4" THEN Min(values) ELSE 0
  /\ h.numAtCurMin = Cardinality({i \in Slots(h.lgK) : ValueOf(h, i) = h.curMin})
  /\ h.kxq0 = KxQOver(h, 0, SPLIT - 1) /\ h.kxq1 = KxQOver(h, SPLIT, MAX_VALUE)
  /\ DOMAIN h.aux = Tokens(h)
  /\ \A i \in DOMAIN h.aux : h.aux[i] - h.curMin >= AUX_TOKEN
  /\ ~h.rebuild

\* The summaries and the flags of a sound array are right.
LEMMA SoundSummaries ==
  ASSUME NEW m, NEW mix \in BOOLEAN, NEW f, Sound(m, mix, f), m.mode = "HLL"
  PROVE  Summarised(m) /\ (m.ooo <=> mix) /\ (m.hip <=> ~m.ooo)
  <1> DEFINE k == m.lgK
             values == {ValueOf(m, i) : i \in Slots(k)}
  <1>1. k \in Nat
    BY SoundCases
  <1>2. InArray(m, k, m.type, mix, f)
    BY SoundRegisters
  <1>3. PICK v : /\ m \in Arrays(k) /\ Encodes(m, v) /\ Summed(m, v) /\ Tops(v, f, k)
                 /\ (m.type = "HLL_4" => m.numAtCurMin # 0)
    BY SoundRegisters
  <1>4. ~m.rebuild /\ (m.ooo <=> mix) /\ (m.hip <=> ~m.ooo)
    BY <1>2 DEF InArray
  <1>5. /\ DOMAIN m.array = Slots(k) /\ Tokens(m) = DOMAIN m.aux /\ m.curMin \in Nat
        /\ \A i \in Slots(k) : ValueOf(m, i) = v[i]
        /\ m.type = "HLL_4" => DOMAIN m.aux = Exceptional(m, v)
        /\ m.type # "HLL_4" => DOMAIN m.aux = {}
    BY <1>1, <1>3, EncodesFacts
  <1>6. \A i \in Slots(k) : v[i] \in 0..MAX_VALUE /\ m.curMin <= v[i]
    BY <1>3 DEF Encodes
  <1>7. v \in [Slots(k) -> 0..MAX_VALUE]
    BY <1>3 DEF Encodes
  <1>8. m.numAtCurMin = Cardinality(AtMin(m, v))
    BY <1>3 DEF Summed
  <1>9. {i \in Slots(k) : ValueOf(m, i) = m.curMin} = AtMin(m, v)
    BY <1>5 DEF AtMin
  <1>10. ASSUME NEW low, NEW high PROVE KxQOver(m, low, high) = SharesOf(v, low, high)
    <2>1. [i \in Slots(k) |-> Share(ValueOf(m, i), low, high)] = [i \in DOMAIN v |-> Share(v[i], low, high)]
      BY <1>5, <1>7
    <2> QED BY <2>1 DEF KxQOver, SharesOf
  <1>11. m.kxq0 = KxQOver(m, 0, SPLIT - 1) /\ m.kxq1 = KxQOver(m, SPLIT, MAX_VALUE)
    BY <1>3, <1>10 DEF Summed
  <1>12. \A i \in DOMAIN m.aux : m.aux[i] - m.curMin >= AUX_TOKEN
    <2>1. CASE m.type = "HLL_4"
      BY <1>3, <1>5, <2>1 DEF Encodes, Exceptional
    <2> QED BY <1>5, <2>1
  <1>13. m.curMin = IF m.type = "HLL_4" THEN Min(values) ELSE 0
    <2>1. CASE m.type # "HLL_4"
      BY <1>3, <2>1 DEF Encodes
    <2>2. CASE m.type = "HLL_4"
      <3>1. AtMin(m, v) # {}
        BY <1>1, <1>3, <1>8, <2>2, AtMinFinite
      <3>2. PICK i \in Slots(k) : v[i] = m.curMin
        BY <3>1 DEF AtMin
      <3>3. m.curMin \in values
        BY <1>5, <3>2
      <3>4. values \subseteq Nat /\ \A y \in values : m.curMin <= y
        BY <1>5, <1>6
      <3> HIDE DEF values
      <3> QED BY <2>2, <3>3, <3>4, MinIs
    <2> QED BY <2>1, <2>2
  <1> QED BY <1>4, <1>5, <1>8, <1>9, <1>11, <1>12, <1>13 DEF Summarised

----------------------------------------------------------------------------
(* All sketches *)

HllIInv ==
  /\ DOMAIN hll = HllSketch /\ DOMAIN seen = HllSketch
  /\ \A s \in HllSketch : Sound(hll[s], s \in mixed, seen[s])

\* One sketch of a sound system.
LEMMA IInvSketch ==
  ASSUME HllIInv, NEW s \in HllSketch
  PROVE  \E mix \in BOOLEAN : mix = (s \in mixed) /\ Sound(hll[s], mix, seen[s])
  <1>1. Sound(hll[s], s \in mixed, seen[s])
    BY DEF HllIInv
  <1>2. CASE s \in mixed
    <2>1. (s \in mixed) = TRUE
      BY <1>2
    <2>2. Sound(hll[s], TRUE, seen[s])
      BY <1>1, <2>1
    <2> QED BY <2>1, <2>2
  <1>3. CASE s \notin mixed
    <2>1. (s \in mixed) = FALSE
      BY <1>3
    <2>2. Sound(hll[s], FALSE, seen[s])
      BY <1>1, <2>1
    <2> QED BY <2>1, <2>2
  <1> QED BY <1>2, <1>3

\* New sketches are sound.
LEMMA HllInitSound == HllInit => HllIInv
  <1> SUFFICES ASSUME HllInit PROVE HllIInv
    OBVIOUS
  <1>1. DOMAIN hll = HllSketch /\ DOMAIN seen = HllSketch
    BY DEF HllInit
  <1>2. ASSUME NEW s \in HllSketch PROVE Sound(hll[s], s \in mixed, seen[s])
    <2>1. PICK cfg \in Config : hll[s] = NewList(cfg[1], cfg[2])
      BY DEF HllInit
    <2>2. seen[s] = None
      BY DEF HllInit, None
    <2>3. (s \in mixed) = FALSE
      BY DEF HllInit
    <2>4. Sound(hll[s], FALSE, None)
      BY <2>1, NewSound
    <2> QED BY <2>2, <2>3, <2>4
  <1> QED BY <1>1, <1>2 DEF HllIInv

\* Updates keep all sketches sound.
LEMMA HllUpdateSound ==
  ASSUME HllIInv, NEW s \in HllSketch, NEW c \in Coupon, HllUpdate(s, c)
  PROVE  HllIInv'
  <1>1. /\ hll' = [hll EXCEPT ![s] = CouponUpdate(hll[s], c)] /\ mixed' = mixed
        /\ DOMAIN hll = HllSketch /\ DOMAIN seen = HllSketch
    BY DEF HllUpdate, HllIInv
  <1>2. seen' = [seen EXCEPT ![s] = Bumped(seen[s], c)]
    BY DEF HllUpdate, Bumped
  <1>3. ASSUME NEW t \in HllSketch PROVE Sound(hll'[t], t \in mixed', seen'[t])
    <2>1. PICK mix \in BOOLEAN : mix = (t \in mixed) /\ Sound(hll[t], mix, seen[t])
      BY IInvSketch
    <2>2. CASE t = s
      <3>1. hll'[t] = CouponUpdate(hll[t], c) /\ seen'[t] = Bumped(seen[t], c)
        BY <1>1, <1>2, <2>2
      <3>2. Sound(CouponUpdate(hll[t], c), mix, Bumped(seen[t], c))
        BY <2>1, UpdateSound
      <3> QED BY <1>1, <2>1, <3>1, <3>2
    <2>3. CASE t # s
      <3>1. hll'[t] = hll[t] /\ seen'[t] = seen[t]
        BY <1>1, <1>2, <2>3
      <3> QED BY <1>1, <2>1, <3>1
    <2> QED BY <2>2, <2>3
  <1>4. DOMAIN hll' = HllSketch /\ DOMAIN seen' = HllSketch
    BY <1>1, <1>2
  <1> QED BY <1>3, <1>4 DEF HllIInv

\* Merges keep all sketches sound.
LEMMA HllMergeSound ==
  ASSUME HllIInv, NEW s \in HllSketch, NEW other \in HllSketch, HllMerge(s, other)
  PROVE  HllIInv'
  <1>1. PICK m1 \in BOOLEAN : m1 = (s \in mixed) /\ Sound(hll[s], m1, seen[s])
    BY IInvSketch
  <1>2. PICK m2 \in BOOLEAN : m2 = (other \in mixed) /\ Sound(hll[other], m2, seen[other])
    BY IInvSketch
  <1> DEFINE mix == Mixes(hll[s], m1, hll[other], m2)
  <1>3. /\ hll' = [hll EXCEPT ![s] = Merged(hll[s], hll[other])]
        /\ seen' = [seen EXCEPT ![s] = Greater(seen[s], seen[other])]
        /\ DOMAIN hll = HllSketch /\ DOMAIN seen = HllSketch
    BY DEF HllMerge, HllIInv
  <1>4. (s \in mixed') = mix /\ \A t \in HllSketch : t # s => (t \in mixed') = (t \in mixed)
    <2>1. mixed' = IF other \in mixed \/ (hll[s].mode = "HLL" /\ hll[other].mode = "HLL")
                   THEN mixed \cup {s} ELSE mixed
      BY DEF HllMerge
    <2>2. s \in mixed' <=> (other \in mixed \/ (hll[s].mode = "HLL" /\ hll[other].mode = "HLL") \/ s \in mixed)
      BY <2>1
    <2>3. mix <=> s \in mixed'
      BY <1>1, <1>2, <2>2 DEF Mixes
    <2>4. mix \in BOOLEAN
      BY DEF Mixes
    <2>5. \A t \in HllSketch : t # s => (t \in mixed' <=> t \in mixed)
      BY <2>1
    <2> HIDE DEF mix
    <2> QED BY <2>3, <2>4, <2>5
  <1>5. Sound(Merged(hll[s], hll[other]), mix, Greater(seen[s], seen[other]))
    BY <1>1, <1>2, MergeSound
  <1> HIDE DEF mix
  <1>6. ASSUME NEW t \in HllSketch PROVE Sound(hll'[t], t \in mixed', seen'[t])
    <2>1. Sound(hll[t], t \in mixed, seen[t])
      BY DEF HllIInv
    <2>2. CASE t = s
      <3>1. hll'[t] = Merged(hll[s], hll[other]) /\ seen'[t] = Greater(seen[s], seen[other])
        BY <1>3, <2>2
      <3> QED BY <1>4, <1>5, <2>2, <3>1
    <2>3. CASE t # s
      <3>1. hll'[t] = hll[t] /\ seen'[t] = seen[t]
        BY <1>3, <2>3
      <3> QED BY <1>4, <2>1, <2>3, <3>1
    <2> QED BY <2>2, <2>3
  <1>7. DOMAIN hll' = HllSketch /\ DOMAIN seen' = HllSketch
    BY <1>3
  <1> QED BY <1>6, <1>7 DEF HllIInv

\* Restores keep all sketches sound.
LEMMA HllRestoreSound ==
  ASSUME HllIInv, NEW s \in HllSketch, NEW t \in HllSketch, HllRestore(s, t)
  PROVE  HllIInv'
  <1>1. /\ hll' = [hll EXCEPT ![t] = Restored(hll[s])] /\ seen' = [seen EXCEPT ![t] = seen[s]]
        /\ DOMAIN hll = HllSketch /\ DOMAIN seen = HllSketch
    BY DEF HllRestore, HllIInv
  <1>2. (t \in mixed') = (s \in mixed) /\ \A r \in HllSketch : r # t => (r \in mixed') = (r \in mixed)
    BY DEF HllRestore
  <1>3. Sound(hll[s], s \in mixed, seen[s])
    BY DEF HllIInv
  <1>4. Restored(hll[s]) = hll[s]
    <2>1. PICK mix \in BOOLEAN : Sound(hll[s], mix, seen[s])
      BY IInvSketch
    <2> QED BY <2>1, RestoredSame
  <1>5. ASSUME NEW r \in HllSketch PROVE Sound(hll'[r], r \in mixed', seen'[r])
    <2>1. Sound(hll[r], r \in mixed, seen[r])
      BY DEF HllIInv
    <2>2. CASE r = t
      <3>1. hll'[r] = hll[s] /\ seen'[r] = seen[s]
        BY <1>1, <1>4, <2>2
      <3> QED BY <1>2, <1>3, <2>2, <3>1
    <2>3. CASE r # t
      <3>1. hll'[r] = hll[r] /\ seen'[r] = seen[r]
        BY <1>1, <2>3
      <3> QED BY <1>2, <2>1, <2>3, <3>1
    <2> QED BY <2>2, <2>3
  <1>6. DOMAIN hll' = HllSketch /\ DOMAIN seen' = HllSketch
    BY <1>1
  <1> QED BY <1>5, <1>6 DEF HllIInv

\* Every operation keeps every sketch sound.
LEMMA HllStepSound == HllIInv /\ [HllNext]_hllVars => HllIInv'
  <1> SUFFICES ASSUME HllIInv, [HllNext]_hllVars PROVE HllIInv'
    OBVIOUS
  <1>1. ASSUME NEW s \in HllSketch, NEW c \in Coupon, HllUpdate(s, c) PROVE HllIInv'
    BY <1>1, HllUpdateSound
  <1>2. ASSUME NEW s \in HllSketch, NEW other \in HllSketch, HllMerge(s, other) PROVE HllIInv'
    BY <1>2, HllMergeSound
  <1>3. ASSUME NEW s \in HllSketch, NEW t \in HllSketch, HllRestore(s, t) PROVE HllIInv'
    BY <1>3, HllRestoreSound
  <1>4. CASE UNCHANGED hllVars
    BY <1>4 DEF HllIInv, hllVars
  <1> QED BY <1>1, <1>2, <1>3, <1>4 DEF HllNext

\* Every sketch is sound: a LIST or SET holds coupons that recall what was absorbed
\* and are too few for an array, its table fits their number; an array encodes the
\* greatest values absorbed at the addresses of each slot, its summaries are those
\* of these values, some slot of an HLL_4 array is at curMin, and the flags say
\* whether its registers come from one array.
THEOREM HllInvariant == HllSpec => []HllIInv
  BY HllInitSound, HllStepSound, PTL DEF HllSpec

\* Types, from soundness.
LEMMA IInvHllTypeOK == HllIInv => HllTypeOK
  <1> SUFFICES ASSUME HllIInv, NEW s \in HllSketch PROVE TypeFits(hll[s], seen[s])
    BY DEF HllTypeOK, TypeFits
  <1>1. PICK mix \in BOOLEAN : mix = (s \in mixed) /\ Sound(hll[s], mix, seen[s])
    BY IInvSketch
  <1> QED BY <1>1, SoundType

\* Registers, from soundness.
LEMMA IInvRegistersExact == HllIInv => RegistersExact
  <1> SUFFICES ASSUME HllIInv, NEW s \in HllSketch PROVE HoldsExactly(hll[s], seen[s])
    BY DEF RegistersExact, HoldsExactly, RegisterExact, AddressExact, Absorbed
  <1>1. PICK mix \in BOOLEAN : mix = (s \in mixed) /\ Sound(hll[s], mix, seen[s])
    BY IInvSketch
  <1> QED BY <1>1, SoundExact

\* Summaries, from soundness.
LEMMA IInvSummariesExact == HllIInv => SummariesExact
  <1> SUFFICES ASSUME HllIInv, NEW s \in HllSketch
               PROVE  ~hll[s].err /\ (hll[s].mode = "HLL" => Summarised(hll[s]))
    BY DEF SummariesExact, Summarised
  <1>1. PICK mix \in BOOLEAN : mix = (s \in mixed) /\ Sound(hll[s], mix, seen[s])
    BY IInvSketch
  <1>2. ~hll[s].err
    BY <1>1, SoundType
  <1>3. ASSUME hll[s].mode = "HLL" PROVE Summarised(hll[s])
    BY <1>1, <1>3, SoundSummaries
  <1> QED BY <1>2, <1>3

\* Flags, from soundness.
LEMMA IInvHipOnlyInOrder == HllIInv => HipOnlyInOrder
  <1> SUFFICES ASSUME HllIInv, NEW s \in HllSketch, hll[s].mode = "HLL"
               PROVE  (hll[s].ooo <=> s \in mixed) /\ (hll[s].hip <=> ~hll[s].ooo)
    BY DEF HipOnlyInOrder
  <1>1. PICK mix \in BOOLEAN : mix = (s \in mixed) /\ Sound(hll[s], mix, seen[s])
    BY IInvSketch
  <1> QED BY <1>1, SoundSummaries

\* Merges, from soundness.
LEMMA IInvMergeCommutes == HllIInv => MergeCommutes
  <1> SUFFICES ASSUME HllIInv, NEW s \in HllSketch, NEW other \in HllSketch
               PROVE  Answers(Merged(hll[s], hll[other])) = Answers(Merged(hll[other], hll[s]))
    BY DEF MergeCommutes
  <1>1. PICK m1 \in BOOLEAN : Sound(hll[s], m1, seen[s])
    BY IInvSketch
  <1>2. PICK m2 \in BOOLEAN : Sound(hll[other], m2, seen[other])
    BY IInvSketch
  <1> QED BY <1>1, <1>2, MergeSound

\* Round trips, from soundness.
LEMMA IInvHllRestored == HllIInv => HllRestored
  <1> SUFFICES ASSUME HllIInv, NEW s \in HllSketch PROVE Restored(hll[s]) = hll[s]
    BY DEF HllRestored
  <1>1. PICK mix \in BOOLEAN : mix = (s \in mixed) /\ Sound(hll[s], mix, seen[s])
    BY IInvSketch
  <1> QED BY <1>1, RestoredSame

\* Modes, types, widths, coupons and registers keep their types, and exceptions are
\* exceptions of slots.
THEOREM HllTypeCorrect == HllSpec => []HllTypeOK
  BY HllInvariant, IInvHllTypeOK, PTL

\* For every width, type, set of coupons and sequence of updates, promotions, merges
\* and restores, each register is the greatest value absorbed at its addresses, no
\* LIST or SET has lost one, and a sketch is empty only if it absorbed nothing.
THEOREM HllRegistersExact == HllSpec => []RegistersExact
  BY HllInvariant, IInvRegistersExact, PTL

\* curMin, the count of slots at it, the two sums of inverse powers and the
\* exceptions map agree with the registers, through conversions and merges that
\* leave them stale, and no std::logic_error of the array code is reached.
THEOREM HllSummariesExact == HllSpec => []SummariesExact
  BY HllInvariant, IInvSummariesExact, PTL

\* The out-of-order flag is up exactly where registers of two arrays were put
\* together, and the HIP accumulator counts exactly where it is down.
THEOREM HllHipOnlyInOrder == HllSpec => []HipOnlyInOrder
  BY HllInvariant, IInvHipOnlyInOrder, PTL

\* Whatever the widths, types and modes of two sketches, it makes no difference
\* which one receives the other.
THEOREM HllMergeCommutes == HllSpec => []MergeCommutes
  BY HllInvariant, IInvMergeCommutes, PTL

\* A sketch read back from its bytes is the sketch, although bytes hold neither the
\* size of a SET's table nor the rebuild flag.
THEOREM HllRestoreFaithful == HllSpec => []HllRestored
  BY HllInvariant, IInvHllRestored, PTL
==============================================================================
