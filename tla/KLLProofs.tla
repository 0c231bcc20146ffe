------------------------------ MODULE KLLProofs ------------------------------
(***************************************************************************)
(* What holds of KLL for every set of items, every k, every number of      *)
(* sketches, and every outcome of the coin tosses. Bounds on how many      *)
(* items a run absorbs play no part. First come the levels: what sorting,  *)
(* the sorted merge and the halving do to items, weights and capacities;   *)
(* then the operations, one by one. At the end stand the invariant that    *)
(* all of them keep, Sound, and what follows from it.                      *)
(***************************************************************************)
EXTENDS KLL, InductionTheorems, SequenceTheorems

----------------------------------------------------------------------------
(* Powers *)

\* The powers of a base, unfolded.
LEMMA PowerDef ==
  ASSUME NEW b \in Nat
  PROVE  /\ Power(b, 0) = 1
         /\ \A e \in Nat : Power(b, e) \in Nat /\ Power(b, e + 1) = b * Power(b, e)
  <1> DEFINE P(e) == CHOOSE p : p = [i \in 0..e |-> IF i = 0 THEN 1 ELSE b * p[i - 1]]
  <1>1. ASSUME NEW e \in Nat
        PROVE  /\ P(e)[0] = 1 /\ P(e) \in [0..e -> Nat]
               /\ \A i \in 1..e : P(e)[i] = b * P(e)[i - 1]
    <2> DEFINE step == [i \in 1..e |-> [v \in Nat |-> b * v]]
    <2>1. step \in [1..e -> [Nat -> Nat]]
      OBVIOUS
    <2>2. PICK f : Recursive(f, e, Nat, 1, step)
      <3> HIDE DEF step
      <3> QED BY <2>1, RecursionExists
    <2>3. /\ f \in [0..e -> Nat] /\ f[0] = 1
          /\ \A i \in 1..e : f[i] = b * f[i - 1]
      <3>1. f \in [0..e -> Nat] /\ f[0] = 1 /\ \A i \in 1..e : f[i] = step[i][f[i - 1]]
        <4> HIDE DEF step
        <4> QED BY <2>2 DEF Recursive
      <3>2. \A i \in 1..e : f[i - 1] \in Nat
        BY <3>1
      <3> QED BY <3>1, <3>2
    <2>4. f = [i \in 0..e |-> IF i = 0 THEN 1 ELSE b * f[i - 1]]
      BY <2>3
    <2>5. P(e) = [i \in 0..e |-> IF i = 0 THEN 1 ELSE b * P(e)[i - 1]]
      BY <2>4
    <2> DEFINE G == {i \in 0..e : P(e)[i] \in Nat}
    <2> HIDE DEF P
    <2>6. P(e)[0] = 1 /\ \A i \in 1..e : P(e)[i] = b * P(e)[i - 1]
      BY <2>5
    <2>7. 0..e \subseteq G
      <3>1. 0 \in G
        BY <2>6
      <3>2. ASSUME NEW i \in 1..e, i - 1 \in G PROVE i \in G
        BY <2>6, <3>2
      <3> HIDE DEF G
      <3> QED BY <3>1, <3>2, UptoInduction
    <2> QED BY <2>5, <2>6, <2>7
  <1>2. \A e \in Nat : Power(b, e) = P(e)[e]
    BY DEF Power
  <1> HIDE DEF P
  <1>3. ASSUME NEW e \in Nat PROVE P(e + 1)[e] = P(e)[e]
    <2> DEFINE G == {i \in 0..e : P(e + 1)[i] = P(e)[i]}
    <2>0. /\ P(e + 1)[0] = 1 /\ P(e)[0] = 1
          /\ \A i \in 1..(e + 1) : P(e + 1)[i] = b * P(e + 1)[i - 1]
      <3>1. e + 1 \in Nat
        OBVIOUS
      <3> QED BY <1>1, <3>1
    <2>1. 0 \in G
      BY <2>0
    <2>2. ASSUME NEW i \in 1..e, i - 1 \in G PROVE i \in G
      <3>1. P(e + 1)[i] = b * P(e + 1)[i - 1]
        <4>1. i \in 1..(e + 1)
          OBVIOUS
        <4> QED BY <2>0, <4>1
      <3>2. P(e)[i] = b * P(e)[i - 1]
        BY <1>1
      <3> QED BY <2>2, <3>1, <3>2
    <2>3. 0..e \subseteq G
      <3> HIDE DEF G
      <3> QED BY <2>1, <2>2, UptoInduction
    <2> QED BY <2>3
  <1>4. ASSUME NEW e \in Nat
        PROVE  Power(b, e) \in Nat /\ Power(b, e + 1) = b * Power(b, e)
    <2>1. P(e + 1)[e + 1] = b * P(e + 1)[e]
      <3>1. e + 1 \in 1..(e + 1) /\ (e + 1) - 1 = e
        OBVIOUS
      <3> QED BY <1>1, <3>1
    <2>2. P(e)[e] \in Nat
      BY <1>1
    <2>3. Power(b, e) = P(e)[e] /\ Power(b, e + 1) = P(e + 1)[e + 1]
      BY <1>2
    <2> QED BY <1>3, <2>1, <2>2, <2>3
  <1> QED BY <1>1, <1>2, <1>4

\* A power of a positive base is positive.
LEMMA PowerPositive ==
  ASSUME NEW b \in Nat \ {0}
  PROVE  \A e \in Nat : Power(b, e) \in Nat \ {0}
  <1> DEFINE G == {e \in Nat : Power(b, e) # 0}
  <1>1. 0 \in G
    BY PowerDef
  <1>2. ASSUME NEW e \in Nat, e \in G PROVE e + 1 \in G
    <2>1. \A p \in Nat : p # 0 => b * p # 0
      OBVIOUS
    <2>2. Power(b, e) \in Nat /\ Power(b, e) # 0 /\ Power(b, e + 1) = b * Power(b, e)
      BY <1>2, PowerDef
    <2>3. Power(b, e + 1) # 0
      BY <2>1, <2>2
    <2> QED BY <2>3
  <1>3. Nat \subseteq G
    <2> HIDE DEF G
    <2> QED BY <1>1, <1>2, NatInductionSet
  <1> QED BY <1>3, PowerDef

----------------------------------------------------------------------------
(* Counting *)

\* How many of the first n items are in B.
CountTo(s, n, B) == Cardinality({i \in 1..n : s[i] \in B})

CountIn(s, B) == CountTo(s, Len(s), B)

\* A count of the first n items is at most n.
LEMMA CountType ==
  ASSUME NEW s, NEW n \in Nat, NEW B
  PROVE  CountTo(s, n, B) \in 0..n
  <1> DEFINE D == {i \in 1..n : s[i] \in B}
  <1>1. IsFiniteSet(1..n) /\ Cardinality(1..n) = n
    BY FS_Interval
  <1>2. D \in SUBSET (1..n)
    OBVIOUS
  <1> HIDE DEF D
  <1>3. IsFiniteSet(D) /\ Cardinality(D) <= n /\ Cardinality(D) \in Nat
    BY <1>1, <1>2, FS_Subset, FS_CardinalityType
  <1> QED BY <1>3 DEF CountTo, D

\* Nothing is counted among no items.
LEMMA CountZero ==
  ASSUME NEW s, NEW B
  PROVE  CountTo(s, 0, B) = 0
  <1>1. {i \in 1..0 : s[i] \in B} = {}
    OBVIOUS
  <1> QED BY <1>1, FS_EmptySet DEF CountTo

\* One more item is counted or not.
LEMMA CountStep ==
  ASSUME NEW s, NEW n \in Nat, NEW B
  PROVE  CountTo(s, n + 1, B) = CountTo(s, n, B) + (IF s[n + 1] \in B THEN 1 ELSE 0)
  <1> DEFINE D(m) == {i \in 1..m : s[i] \in B}
  <1>1. IsFiniteSet(1..n) /\ D(n) \in SUBSET (1..n)
    BY FS_Interval
  <1>2. IsFiniteSet(D(n)) /\ Cardinality(D(n)) \in Nat
    BY <1>1, FS_Subset, FS_CardinalityType
  <1>3. CASE s[n + 1] \in B
    <2>1. D(n + 1) = D(n) \cup {n + 1} /\ n + 1 \notin D(n)
      BY <1>3
    <2>2. Cardinality(D(n + 1)) = Cardinality(D(n)) + 1
      <3> HIDE DEF D
      <3> QED BY <1>2, <2>1, FS_AddElement
    <2> QED BY <1>3, <2>2 DEF CountTo
  <1>4. CASE s[n + 1] \notin B
    <2>1. D(n + 1) = D(n)
      BY <1>4
    <2> QED BY <1>2, <1>4, <2>1 DEF CountTo
  <1> QED BY <1>3, <1>4

\* Sequences that agree count the same.
LEMMA CountSame ==
  ASSUME NEW s, NEW t, NEW n \in Nat, NEW B, \A i \in 1..n : s[i] \in B <=> t[i] \in B
  PROVE  CountTo(s, n, B) = CountTo(t, n, B)
  <1>1. {i \in 1..n : s[i] \in B} = {i \in 1..n : t[i] \in B}
    OBVIOUS
  <1> QED BY <1>1 DEF CountTo

\* A set that holds every item counts them all.
LEMMA CountAll ==
  ASSUME NEW s, NEW n \in Nat, NEW B, \A i \in 1..n : s[i] \in B
  PROVE  CountTo(s, n, B) = n
  <1>1. {i \in 1..n : s[i] \in B} = 1..n
    OBVIOUS
  <1>2. Cardinality(1..n) = n
    BY FS_Interval
  <1> QED BY <1>1, <1>2 DEF CountTo

\* Disjoint sets are counted apart.
LEMMA CountUnion ==
  ASSUME NEW s, NEW n \in Nat, NEW B, NEW C, B \cap C = {}
  PROVE  CountTo(s, n, B \cup C) = CountTo(s, n, B) + CountTo(s, n, C)
  <1> DEFINE D == {i \in 1..n : s[i] \in B}
             E == {i \in 1..n : s[i] \in C}
  <1>1. {i \in 1..n : s[i] \in B \cup C} = D \cup E /\ D \cap E = {}
    OBVIOUS
  <1>2. D \in SUBSET (1..n) /\ E \in SUBSET (1..n)
    OBVIOUS
  <1>3. CountTo(s, n, B \cup C) = Cardinality(D \cup E)
    BY <1>1 DEF CountTo
  <1>4. CountTo(s, n, B) = Cardinality(D) /\ CountTo(s, n, C) = Cardinality(E)
    BY DEF CountTo
  <1> HIDE DEF D, E
  <1>5. IsFiniteSet(D) /\ IsFiniteSet(E)
    <2>1. IsFiniteSet(1..n)
      BY FS_Interval
    <2> QED BY <1>2, <2>1, FS_Subset
  <1>6. Cardinality(D \cup E) = Cardinality(D) + Cardinality(E) - Cardinality(D \cap E)
    BY <1>5, FS_Union
  <1>7. Cardinality(D \cap E) = 0 /\ Cardinality(D) \in Nat /\ Cardinality(E) \in Nat
    BY <1>1, <1>5, FS_EmptySet, FS_CardinalityType
  <1> QED BY <1>3, <1>4, <1>6, <1>7

\* How many of the first n items are x.
CountOf(s, n, x) == CountTo(s, n, {x})

\* An item is counted at most n times among n.
LEMMA CountOfType ==
  ASSUME NEW s, NEW n \in Nat, NEW x
  PROVE  CountOf(s, n, x) \in 0..n
  BY CountType DEF CountOf

\* The items of a set, counted one value at a time.
LEMMA CountByValue ==
  ASSUME NEW s, NEW n \in Nat, NEW B, IsFiniteSet(B), NEW c,
         \A x \in B : c[x] = CountOf(s, n, x)
  PROVE  CountTo(s, n, B) = SumOver(c, B)
  <1> DEFINE G == {T \in SUBSET B : CountTo(s, n, T) = SumOver(c, T)}
  <1>0. \A x \in B : c[x] \in Int
    BY CountOfType
  <1>1. ASSUME NEW T \in SUBSET B, \A x \in T : T \ {x} \in G PROVE T \in G
    <2>1. CASE T = {}
      <3>1. {i \in 1..n : s[i] \in {}} = {}
        OBVIOUS
      <3> QED BY <2>1, <3>1, SumEmpty, FS_EmptySet DEF CountTo
    <2>2. CASE T # {}
      <3>1. PICK x \in T : TRUE
        BY <2>2
      <3>2. IsFiniteSet(T)
        BY FS_Subset
      <3>3. SumOver(c, T) = c[x] + SumOver(c, T \ {x})
        BY <1>0, <3>1, <3>2, SumRemove
      <3> DEFINE rest == T \ {x}
      <3>4. rest \cap {x} = {} /\ rest \cup {x} = T
        BY <3>1
      <3>5. CountTo(s, n, rest) = SumOver(c, rest)
        BY <1>1, <3>1
      <3> HIDE DEF rest
      <3>6. CountTo(s, n, rest \cup {x}) = CountTo(s, n, rest) + CountTo(s, n, {x})
        BY <3>4, CountUnion
      <3>7. CountTo(s, n, T) = CountTo(s, n, rest) + CountOf(s, n, x)
        BY <3>4, <3>6 DEF CountOf
      <3>8. CountOf(s, n, x) \in Int /\ CountTo(s, n, rest) \in Int /\ c[x] = CountOf(s, n, x)
        BY <3>1, CountType, CountOfType
      <3>9. CountTo(s, n, T) = SumOver(c, T)
        BY <3>3, <3>5, <3>7, <3>8 DEF rest
      <3> QED BY <3>9
    <2> QED BY <2>1, <2>2
  <1>2. B \in G
    <2> HIDE DEF G
    <2> QED BY <1>1, SetInduction
  <1> QED BY <1>2

\* Sequences with the same occurrences of each value have as many items in any set.
LEMMA CountFromOccurrences ==
  ASSUME NEW s, NEW t, NEW m \in Nat, NEW n \in Nat, NEW B, IsFiniteSet(B),
         \A x \in B : CountOf(s, m, x) = CountOf(t, n, x)
  PROVE  CountTo(s, m, B) = CountTo(t, n, B)
  <1> DEFINE c == [x \in B |-> CountOf(s, m, x)]
  <1>1. \A x \in B : c[x] = CountOf(s, m, x)
    OBVIOUS
  <1>2. \A x \in B : c[x] = CountOf(t, n, x)
    OBVIOUS
  <1> HIDE DEF c
  <1>3. CountTo(s, m, B) = SumOver(c, B)
    BY <1>1, CountByValue
  <1>4. CountTo(t, n, B) = SumOver(c, B)
    BY <1>2, CountByValue
  <1> QED BY <1>3, <1>4

\* The occurrences of an item in a whole sequence.
LEMMA OccurrencesCount ==
  ASSUME NEW S, NEW s \in Seq(S), NEW x
  PROVE  Occurrences(s, x) = CountOf(s, Len(s), x)
  <1>1. {i \in DOMAIN s : s[i] = x} = {i \in 1..Len(s) : s[i] \in {x}}
    BY LenProperties
  <1> QED BY <1>1 DEF Occurrences, CountOf, CountTo

----------------------------------------------------------------------------
(* Sorted sequences *)

Down(B) == B \subseteq Item /\ \A x \in B, y \in Item : y <= x => y \in B

\* Items are integers, and every set of them is finite.
LEMMA ItemFacts == Item \subseteq Int /\ IsFiniteSet(Item) /\ \A B \in SUBSET Item : IsFiniteSet(B)
  BY KLLAssumption, FS_Subset

\* A sorted sequence is ordered at any distance.
LEMMA SortedAll ==
  ASSUME NEW s \in Seq(Item), Sorted(s), NEW i \in 1..Len(s), NEW j \in 1..Len(s), i <= j
  PROVE  s[i] <= s[j]
  <1> DEFINE G == {d \in Nat : i + d <= Len(s) => s[i] <= s[i + d]}
  <1>0. Len(s) \in Nat /\ \A l \in 1..Len(s) : s[l] \in Int
    BY ItemFacts, LenProperties, ElementOfSeq
  <1>1. 0 \in G
    <2>1. s[i] \in Int /\ i + 0 = i
      BY <1>0
    <2> QED BY <2>1
  <1>2. ASSUME NEW d \in Nat, d \in G PROVE d + 1 \in G
    <2>1. CASE i + (d + 1) <= Len(s)
      <3>1. i + d \in 1..(Len(s) - 1) /\ (i + d) + 1 = i + (d + 1)
        BY <1>0, <2>1
      <3>2. s[i + d] <= s[(i + d) + 1]
        BY <3>1 DEF Sorted
      <3>3. s[i] <= s[i + d]
        BY <1>2, <3>1
      <3>4. s[i] \in Int /\ s[i + d] \in Int /\ s[(i + d) + 1] \in Int
        BY <1>0, <2>1, <3>1
      <3>5. s[i] <= s[i + (d + 1)]
        BY <3>1, <3>2, <3>3, <3>4
      <3> QED BY <3>5
    <2> QED BY <2>1
  <1>3. Nat \subseteq G
    <2> HIDE DEF G
    <2> QED BY <1>1, <1>2, NatInductionSet
  <1>4. j - i \in G /\ i + (j - i) = j
    BY <1>3, SMTT(30)
  <1> QED BY <1>4

\* What is below a bound comes first in a sorted sequence.
LEMMA SortedPrefix ==
  ASSUME NEW s \in Seq(Item), Sorted(s), NEW B, Down(B)
  PROVE  \A i \in 1..Len(s) : s[i] \in B <=> i <= CountIn(s, B)
  <1> DEFINE D == {i \in 1..Len(s) : s[i] \in B}
             N == Len(s)
             Out == {i \in 1..(N + 1) : i \notin D}
  <1>0. N \in Nat /\ \A l \in 1..N : s[l] \in Item /\ s[l] \in Int
    BY ItemFacts, LenProperties, ElementOfSeq
  <1>1. N + 1 \in Out /\ Out \subseteq Nat
    BY <1>0
  <1>2. PICK m \in Out : \A l \in Out : m <= l
    BY <1>1, LeastNatural
  <1>3. m \in 1..(N + 1)
    OBVIOUS
  <1>4. \A i \in 1..N : i < m => i \in D
    BY <1>0, <1>2
  <1>5. ASSUME NEW i \in 1..N, m <= i PROVE i \notin D
    <2>1. m \in 1..N
      BY <1>0, <1>3, <1>5
    <2>2. s[m] <= s[i]
      BY <1>5, <2>1, SortedAll
    <2>3. s[m] \notin B
      BY <1>2, <2>1
    <2> QED BY <1>0, <2>1, <2>2, <2>3 DEF Down
  <1>6. D = 1..(m - 1)
    BY <1>0, <1>3, <1>4, <1>5
  <1>7. Cardinality(1..(m - 1)) = m - 1
    BY <1>3, FS_Interval
  <1>8. CountIn(s, B) = m - 1
    BY <1>6, <1>7 DEF CountIn, CountTo
  <1> QED BY <1>3, <1>6, <1>8

----------------------------------------------------------------------------
(* Merging two levels *)

\* How far the merge has come in each of its arguments.
LEMMA TakenDef ==
  ASSUME NEW a \in Seq(Item), NEW b \in Seq(Item)
  PROVE  LET taken == TakenFromFirst(a, b)
             N == Len(a) + Len(b)
         IN /\ taken[0] = 0
            /\ \A c \in 0..N : taken[c] \in 0..Len(a) /\ c - taken[c] \in 0..Len(b)
            /\ \A c \in 0..(N - 1) :
                 LET i == taken[c]
                     j == c - taken[c]
                 IN \/ /\ taken[c + 1] = i + 1 /\ i < Len(a)
                       /\ j = Len(b) \/ a[i + 1] < b[j + 1]
                    \/ /\ taken[c + 1] = i /\ j < Len(b)
                       /\ ~ (i < Len(a) /\ a[i + 1] < b[j + 1])
  <1> DEFINE N == Len(a) + Len(b)
             turn(c, i) == IF FromFirst(a, b, i, c - 1 - i) THEN i + 1 ELSE i
             step == [c \in 1..N |-> [i \in Nat |-> turn(c, i)]]
             taken == TakenFromFirst(a, b)
  <1>0. Len(a) \in Nat /\ Len(b) \in Nat /\ N \in Nat
    BY LenProperties
  <1>1. step \in [1..N -> [Nat -> Nat]]
    OBVIOUS
  <1>2. PICK f : Recursive(f, N, Nat, 0, step)
    <2> HIDE DEF step
    <2> QED BY <1>0, <1>1, RecursionExists
  <1>3. f \in [0..N -> Nat] /\ f[0] = 0 /\ \A c \in 1..N : f[c] = step[c][f[c - 1]]
    <2> HIDE DEF step
    <2> QED BY <1>2 DEF Recursive
  <1>4. \A c \in 1..N : f[c - 1] \in Nat /\ f[c] = turn(c, f[c - 1])
    <2>1. \A c \in 1..N : c - 1 \in 0..N
      BY <1>0
    <2>2. \A c \in 1..N : f[c - 1] \in Nat
      BY <1>3, <2>1
    <2> HIDE DEF turn
    <2> QED BY <1>3, <2>2
  <1>5. f = [c \in 0..N |-> IF c = 0 THEN 0 ELSE turn(c, f[c - 1])]
    <2> HIDE DEF turn
    <2> QED BY <1>3, <1>4
  <1>6. taken = [c \in 0..N |-> IF c = 0 THEN 0 ELSE turn(c, taken[c - 1])]
    BY <1>5 DEF TakenFromFirst
  <1> HIDE DEF taken
  <1>7. taken[0] = 0 /\ \A c \in 1..N : taken[c] = turn(c, taken[c - 1])
    <2> HIDE DEF turn
    <2> QED BY <1>0, <1>6
  <1> DEFINE G == {c \in 0..N : taken[c] \in 0..Len(a) /\ c - taken[c] \in 0..Len(b)}
  <1>8. 0..N \subseteq G
    <2>1. 0 \in G
      BY <1>0, <1>7
    <2>2. ASSUME NEW c \in 1..N, c - 1 \in G PROVE c \in G
      <3> DEFINE i == taken[c - 1]
      <3>1. i \in 0..Len(a) /\ c - 1 - i \in 0..Len(b)
        BY <2>2
      <3>2. taken[c] = turn(c, i)
        BY <1>7
      <3> HIDE DEF i
      <3>3. CASE FromFirst(a, b, i, c - 1 - i)
        BY <1>0, <3>1, <3>2, <3>3 DEF FromFirst
      <3>4. CASE ~FromFirst(a, b, i, c - 1 - i)
        BY <1>0, <3>1, <3>2, <3>4, SMTT(30) DEF FromFirst
      <3> QED BY <3>3, <3>4
    <2> HIDE DEF G
    <2> QED BY <1>0, <2>1, <2>2, UptoInduction
  <1>9. ASSUME NEW c \in 0..(N - 1)
        PROVE  LET i == taken[c]
                   j == c - taken[c]
               IN \/ /\ taken[c + 1] = i + 1 /\ i < Len(a)
                     /\ j = Len(b) \/ a[i + 1] < b[j + 1]
                  \/ /\ taken[c + 1] = i /\ j < Len(b)
                     /\ ~ (i < Len(a) /\ a[i + 1] < b[j + 1])
    <2> DEFINE i == taken[c]
               j == c - taken[c]
    <2>1. c + 1 \in 1..N /\ (c + 1) - 1 = c /\ c \in 0..N
      BY <1>0
    <2>2. taken[c + 1] = turn(c + 1, i)
      BY <1>7, <2>1
    <2>3. i \in 0..Len(a) /\ j \in 0..Len(b) /\ c - i = j /\ (c + 1) - 1 - i = j
      BY <1>8, <2>1
    <2>4. taken[c + 1] = IF FromFirst(a, b, i, j) THEN i + 1 ELSE i
      BY <2>2, <2>3
    <2> HIDE DEF i, j, turn
    <2>5. CASE FromFirst(a, b, i, j)
      <3>1. i < Len(a)
        BY <1>0, <2>3, <2>5 DEF FromFirst
      <3>2. taken[c + 1] = i + 1 /\ (j = Len(b) \/ a[i + 1] < b[j + 1])
        BY <2>4, <2>5 DEF FromFirst
      <3> QED BY <3>1, <3>2 DEF i, j
    <2>6. CASE ~FromFirst(a, b, i, j)
      <3>1. taken[c + 1] = i /\ j < Len(b) /\ ~ (i < Len(a) /\ a[i + 1] < b[j + 1])
        BY <1>0, <2>3, <2>4, <2>6 DEF FromFirst
      <3> QED BY <3>1 DEF i, j
    <2> QED BY <2>5, <2>6
  <1> QED BY <1>7, <1>8, <1>9 DEF taken

\* Every place of the merge holds the next item of the one side or the other.
LEMMA MergeDef ==
  ASSUME NEW a \in Seq(Item), NEW b \in Seq(Item)
  PROVE  LET m == MergeSorted(a, b)
             taken == TakenFromFirst(a, b)
         IN /\ m \in Seq(Item) /\ Len(m) = Len(a) + Len(b)
            /\ \A c \in 0..(Len(m) - 1) :
                 LET i == taken[c]
                     j == c - taken[c]
                 IN /\ i \in 0..Len(a) /\ j \in 0..Len(b)
                    /\ \/ /\ taken[c + 1] = i + 1 /\ i < Len(a) /\ m[c + 1] = a[i + 1]
                          /\ j = Len(b) \/ a[i + 1] < b[j + 1]
                       \/ /\ taken[c + 1] = i /\ j < Len(b) /\ m[c + 1] = b[j + 1]
                          /\ ~ (i < Len(a) /\ a[i + 1] < b[j + 1])
  <1> DEFINE taken == TakenFromFirst(a, b)
             N == Len(a) + Len(b)
             m == MergeSorted(a, b)
             item(c) == IF taken[c] > taken[c - 1] THEN a[taken[c]] ELSE b[c - taken[c]]
             i(c) == taken[c]
             j(c) == c - taken[c]
  <1>0. Len(a) \in Nat /\ Len(b) \in Nat /\ N \in Nat
    BY LenProperties
  <1>1. /\ \A c \in 0..N : i(c) \in 0..Len(a) /\ j(c) \in 0..Len(b)
        /\ \A c \in 0..(N - 1) :
             \/ /\ taken[c + 1] = i(c) + 1 /\ i(c) < Len(a)
                /\ j(c) = Len(b) \/ a[i(c) + 1] < b[j(c) + 1]
             \/ /\ taken[c + 1] = i(c) /\ j(c) < Len(b)
                /\ ~ (i(c) < Len(a) /\ a[i(c) + 1] < b[j(c) + 1])
    BY TakenDef
  <1>2. m = [c \in 1..N |-> item(c)]
    BY DEF MergeSorted
  <1> HIDE DEF taken, m
  <1>3. ASSUME NEW c \in 0..(N - 1)
        PROVE  \/ /\ taken[c + 1] = i(c) + 1 /\ i(c) < Len(a) /\ m[c + 1] = a[i(c) + 1]
                  /\ j(c) = Len(b) \/ a[i(c) + 1] < b[j(c) + 1]
               \/ /\ taken[c + 1] = i(c) /\ j(c) < Len(b) /\ m[c + 1] = b[j(c) + 1]
                  /\ ~ (i(c) < Len(a) /\ a[i(c) + 1] < b[j(c) + 1])
    <2>1. c + 1 \in 1..N /\ (c + 1) - 1 = c /\ c \in 0..N
      BY <1>0
    <2>2. m[c + 1] = item(c + 1)
      <3> HIDE DEF item
      <3> QED BY <1>2, <2>1
    <2>3. /\ taken[c + 1] > taken[c] => m[c + 1] = a[taken[c + 1]]
          /\ ~ (taken[c + 1] > taken[c]) => m[c + 1] = b[c + 1 - taken[c + 1]]
      <3>1. taken[(c + 1) - 1] = taken[c]
        BY <2>1
      <3>2. CASE taken[c + 1] > taken[c]
        BY <2>2, <3>1, <3>2
      <3>3. CASE ~ (taken[c + 1] > taken[c])
        <4>1. m[c + 1] = b[(c + 1) - taken[c + 1]]
          BY <2>2, <3>1, <3>3
        <4>2. taken[c + 1] \in Int
          BY <1>1, <2>1
        <4> QED BY <3>3, <4>1, <4>2
      <3> QED BY <3>2, <3>3
    <2>4. taken[c] \in 0..Len(a) /\ c - taken[c] \in 0..Len(b)
      BY <1>1, <2>1
    <2>5. CASE /\ taken[c + 1] = taken[c] + 1 /\ taken[c] < Len(a)
               /\ c - taken[c] = Len(b) \/ a[taken[c] + 1] < b[c - taken[c] + 1]
      <3>1. taken[c + 1] > taken[c]
        BY <2>4, <2>5
      <3> QED BY <2>3, <2>5, <3>1
    <2>6. CASE /\ taken[c + 1] = taken[c] /\ c - taken[c] < Len(b)
               /\ ~ (taken[c] < Len(a) /\ a[taken[c] + 1] < b[c - taken[c] + 1])
      <3>1. ~ (taken[c + 1] > taken[c]) /\ c + 1 - taken[c + 1] = c - taken[c] + 1
        BY <2>4, <2>6
      <3> QED BY <2>3, <2>6, <3>1
    <2>7. \/ /\ taken[c + 1] = taken[c] + 1 /\ taken[c] < Len(a)
             /\ c - taken[c] = Len(b) \/ a[taken[c] + 1] < b[c - taken[c] + 1]
          \/ /\ taken[c + 1] = taken[c] /\ c - taken[c] < Len(b)
             /\ ~ (taken[c] < Len(a) /\ a[taken[c] + 1] < b[c - taken[c] + 1])
      BY <1>1
    <2> QED BY <2>5, <2>6, <2>7
  <1>4. \A c \in 1..N : m[c] \in Item
    <2> TAKE c \in 1..N
    <2>1. c - 1 \in 0..(N - 1) /\ (c - 1) + 1 = c /\ c - 1 \in 0..N
      BY <1>0
    <2>2. i(c - 1) \in 0..Len(a) /\ j(c - 1) \in 0..Len(b)
      BY <1>1, <2>1
    <2>3. \/ i(c - 1) < Len(a) /\ m[c] = a[i(c - 1) + 1]
          \/ j(c - 1) < Len(b) /\ m[c] = b[j(c - 1) + 1]
      BY <1>3, <2>1
    <2>4. CASE i(c - 1) < Len(a) /\ m[c] = a[i(c - 1) + 1]
      <3>1. i(c - 1) + 1 \in 1..Len(a)
        BY <1>0, <2>2, <2>4
      <3> HIDE DEF i, j
      <3> QED BY <2>4, <3>1, ElementOfSeq
    <2>5. CASE j(c - 1) < Len(b) /\ m[c] = b[j(c - 1) + 1]
      <3>1. j(c - 1) + 1 \in 1..Len(b)
        BY <1>0, <2>2, <2>5
      <3> HIDE DEF i, j
      <3> QED BY <2>5, <3>1, ElementOfSeq
    <2> QED BY <2>3, <2>4, <2>5
  <1>5. m \in [1..N -> Item]
    BY <1>2, <1>4
  <1>6. m \in Seq(Item) /\ Len(m) = N
    BY <1>0, <1>5, SeqDef
  <1>7. \A c \in 0..(Len(m) - 1) : c \in 0..N /\ c \in 0..(N - 1)
    BY <1>0, <1>6
  <1> QED BY <1>1, <1>3, <1>6, <1>7 DEF m, taken

\* A merge neither gains nor loses an item.
LEMMA MergeCounts ==
  ASSUME NEW a \in Seq(Item), NEW b \in Seq(Item), NEW B
  PROVE  CountIn(MergeSorted(a, b), B) = CountIn(a, B) + CountIn(b, B)
  <1> DEFINE taken == TakenFromFirst(a, b)
             N == Len(a) + Len(b)
             m == MergeSorted(a, b)
             G == {c \in 0..N : CountTo(m, c, B) = CountTo(a, taken[c], B)
                                                    + CountTo(b, c - taken[c], B)}
  <1>0. Len(a) \in Nat /\ Len(b) \in Nat /\ N \in Nat /\ Len(m) = N
    BY LenProperties, MergeDef
  <1>1. taken[0] = 0 /\ \A c \in 0..N : taken[c] \in 0..Len(a) /\ c - taken[c] \in 0..Len(b)
    BY TakenDef
  <1>2. \A c \in 0..(N - 1) :
          \/ taken[c + 1] = taken[c] + 1 /\ m[c + 1] = a[taken[c] + 1]
          \/ taken[c + 1] = taken[c] /\ m[c + 1] = b[c - taken[c] + 1]
    BY <1>0, MergeDef
  <1> HIDE DEF taken, m
  <1>3. 0..N \subseteq G
    <2>1. 0 \in G
      <3>1. CountTo(m, 0, B) = 0 /\ CountTo(a, 0, B) = 0 /\ CountTo(b, 0, B) = 0
        BY CountZero
      <3>2. 0 - taken[0] = 0
        BY <1>1
      <3> QED BY <1>0, <1>1, <3>1, <3>2
    <2>2. ASSUME NEW c \in 1..N, c - 1 \in G PROVE c \in G
      <3> DEFINE d == c - 1
                 i == taken[d]
                 j == d - taken[d]
      <3>1. d \in 0..(N - 1) /\ d \in Nat /\ c = d + 1 /\ d \in 0..N /\ d + 1 \in 0..N
        BY <1>0
      <3>0. CountTo(m, d, B) = CountTo(a, i, B) + CountTo(b, j, B)
        BY <2>2
      <3> HIDE DEF d
      <3>2. i \in Nat /\ j \in Nat
        BY <1>1, <3>1
      <3>4. CountTo(m, d + 1, B) = CountTo(m, d, B) + (IF m[d + 1] \in B THEN 1 ELSE 0)
        BY <3>1, CountStep
      <3>5. /\ CountTo(a, i + 1, B) = CountTo(a, i, B) + (IF a[i + 1] \in B THEN 1 ELSE 0)
            /\ CountTo(b, j + 1, B) = CountTo(b, j, B) + (IF b[j + 1] \in B THEN 1 ELSE 0)
        <4> HIDE DEF i, j
        <4> QED BY <3>2, CountStep
      <3>6. CountTo(a, i, B) \in Int /\ CountTo(b, j, B) \in Int
        <4> HIDE DEF i, j
        <4> QED BY <3>2, CountType
      <3>7. \/ taken[d + 1] = i + 1 /\ m[d + 1] = a[i + 1] /\ (d + 1) - taken[d + 1] = j
            \/ taken[d + 1] = i /\ m[d + 1] = b[j + 1] /\ (d + 1) - taken[d + 1] = j + 1
        <4>1. \/ taken[d + 1] = i + 1 /\ m[d + 1] = a[i + 1]
              \/ taken[d + 1] = i /\ m[d + 1] = b[j + 1]
          BY <1>2, <3>1
        <4>2. taken[d] \in Int /\ taken[d + 1] \in Int
          BY <1>1, <3>1
        <4>3. \A x, y \in Int : (x + 1) - (y + 1) = x - y /\ (x + 1) - y = (x - y) + 1
          OBVIOUS
        <4>4. (d + 1) - (i + 1) = j /\ (d + 1) - i = j + 1
          BY <3>1, <4>2, <4>3
        <4> HIDE DEF i, j
        <4> QED BY <4>1, <4>4
      <3> HIDE DEF i, j
      <3>8. CountTo(m, d + 1, B) = CountTo(a, taken[d + 1], B)
                                     + CountTo(b, (d + 1) - taken[d + 1], B)
        BY <3>0, <3>4, <3>5, <3>6, <3>7
      <3> QED BY <3>1, <3>8
    <2> HIDE DEF G
    <2> QED BY <1>0, <2>1, <2>2, UptoInduction
  <1>4. taken[N] = Len(a) /\ N - taken[N] = Len(b)
    BY <1>0, <1>1
  <1>5. N \in 0..N
    BY <1>0
  <1>6. CountTo(m, N, B) = CountTo(a, taken[N], B) + CountTo(b, N - taken[N], B)
    BY <1>3, <1>5
  <1> QED BY <1>0, <1>4, <1>6 DEF CountIn, m

\* ... and keeps sorted arguments sorted.
LEMMA MergeOrdered ==
  ASSUME NEW a \in Seq(Item), NEW b \in Seq(Item), Sorted(a), Sorted(b)
  PROVE  Sorted(MergeSorted(a, b))
  <1> DEFINE taken == TakenFromFirst(a, b)
             m == MergeSorted(a, b)
  <1>0. /\ Len(a) \in Nat /\ Len(b) \in Nat /\ Len(m) = Len(a) + Len(b)
        /\ \A l \in 1..Len(a) : a[l] \in Int
        /\ \A l \in 1..Len(b) : b[l] \in Int
    BY ItemFacts, LenProperties, ElementOfSeq, MergeDef
  <1>1. \A c \in 0..(Len(m) - 1) :
          LET i == taken[c]
              j == c - taken[c]
          IN /\ i \in 0..Len(a) /\ j \in 0..Len(b)
             /\ \/ /\ taken[c + 1] = i + 1 /\ i < Len(a) /\ m[c + 1] = a[i + 1]
                   /\ j = Len(b) \/ a[i + 1] < b[j + 1]
                \/ /\ taken[c + 1] = i /\ j < Len(b) /\ m[c + 1] = b[j + 1]
                   /\ ~ (i < Len(a) /\ a[i + 1] < b[j + 1])
    BY MergeDef
  <1> HIDE DEF taken, m
  <1>2. ASSUME NEW c \in 1..(Len(m) - 1) PROVE m[c] <= m[c + 1]
    <2> DEFINE d == c - 1
               i == taken[d]
               j == d - taken[d]
               ii == taken[c]
               jj == c - taken[c]
    <2>1. d \in 0..(Len(m) - 1) /\ c = d + 1 /\ c \in 0..(Len(m) - 1)
      BY <1>0
    <2>2. /\ i \in 0..Len(a) /\ j \in 0..Len(b)
          /\ \/ /\ ii = i + 1 /\ i < Len(a) /\ m[c] = a[i + 1]
                /\ j = Len(b) \/ a[i + 1] < b[j + 1]
             \/ /\ ii = i /\ j < Len(b) /\ m[c] = b[j + 1]
                /\ ~ (i < Len(a) /\ a[i + 1] < b[j + 1])
      BY <1>1, <2>1
    <2>3. /\ ii \in 0..Len(a) /\ jj \in 0..Len(b)
          /\ \/ ii < Len(a) /\ m[c + 1] = a[ii + 1]
             \/ jj < Len(b) /\ m[c + 1] = b[jj + 1]
      BY <1>1, <2>1
    <2>4. jj = j + (i + 1 - ii)
      <3>1. i \in Int /\ ii \in Int /\ d \in Int /\ c = d + 1
        BY <2>1, <2>2, <2>3, SMTT(30)
      <3>2. \A x, y, z \in Int : (x + 1) - z = (x - y) + (y + 1 - z)
        OBVIOUS
      <3>3. j = d - i /\ jj = c - ii
        OBVIOUS
      <3> HIDE DEF d, i, j, ii, jj
      <3> QED BY <3>1, <3>2, <3>3
    <2> HIDE DEF i, j, ii, jj
    <2>5. \A l \in 1..(Len(a) - 1) : a[l] <= a[l + 1]
      BY DEF Sorted
    <2>6. \A l \in 1..(Len(b) - 1) : b[l] <= b[l + 1]
      BY DEF Sorted
    <2>7. CASE /\ ii = i + 1 /\ i < Len(a) /\ m[c] = a[i + 1]
               /\ j = Len(b) \/ a[i + 1] < b[j + 1]
      <3>1. jj = j
        BY <2>2, <2>4, <2>7
      <3>2. CASE ii < Len(a) /\ m[c + 1] = a[ii + 1]
        <4>1. i + 1 \in 1..(Len(a) - 1)
          BY <1>0, <2>2, <2>7, <3>2
        <4> QED BY <2>5, <2>7, <3>2, <4>1
      <3>3. CASE jj < Len(b) /\ m[c + 1] = b[jj + 1]
        <4>1. a[i + 1] < b[j + 1]
          BY <1>0, <2>2, <2>7, <3>1, <3>3
        <4>2. i + 1 \in 1..Len(a) /\ j + 1 \in 1..Len(b)
          BY <1>0, <2>2, <2>7, <3>1, <3>3
        <4>3. a[i + 1] \in Int /\ b[j + 1] \in Int
          BY <1>0, <4>2
        <4> QED BY <2>7, <3>1, <3>3, <4>1, <4>3
      <3> QED BY <2>3, <3>2, <3>3
    <2>8. CASE /\ ii = i /\ j < Len(b) /\ m[c] = b[j + 1]
               /\ ~ (i < Len(a) /\ a[i + 1] < b[j + 1])
      <3>1. jj = j + 1
        BY <2>2, <2>4, <2>8
      <3>2. CASE ii < Len(a) /\ m[c + 1] = a[ii + 1]
        <4>1. ~ (a[i + 1] < b[j + 1])
          BY <2>8, <3>2
        <4>2. i + 1 \in 1..Len(a) /\ j + 1 \in 1..Len(b)
          BY <1>0, <2>2, <2>8, <3>2
        <4>3. a[i + 1] \in Int /\ b[j + 1] \in Int
          BY <1>0, <4>2
        <4> QED BY <2>8, <3>2, <4>1, <4>3
      <3>3. CASE jj < Len(b) /\ m[c + 1] = b[jj + 1]
        <4>1. j + 1 \in 1..(Len(b) - 1)
          BY <1>0, <2>2, <2>8, <3>1, <3>3
        <4> QED BY <2>6, <2>8, <3>1, <3>3, <4>1
      <3> QED BY <2>3, <3>2, <3>3
    <2> QED BY <2>2, <2>7, <2>8
  <1>3. \A c \in 1..(Len(m) - 1) : m[c] <= m[c + 1]
    BY <1>2
  <1> QED BY <1>3 DEF Sorted, m

\* A concatenation counts both its parts.
LEMMA CountConcat ==
  ASSUME NEW s \in Seq(Item), NEW t \in Seq(Item), NEW B
  PROVE  CountIn(s \o t, B) = CountIn(s, B) + CountIn(t, B)
  <1> DEFINE st == s \o t
             a == Len(s)
             N == Len(t)
             G == {n \in 0..N : CountTo(st, a + n, B) = CountTo(s, a, B) + CountTo(t, n, B)}
  <1>0. a \in Nat /\ N \in Nat /\ Len(st) = a + N
    BY LenProperties, ConcatProperties
  <1>1. \A i \in 1..(a + N) : st[i] = IF i <= a THEN s[i] ELSE t[i - a]
    BY ConcatProperties
  <1> HIDE DEF st, a, N
  <1>2. 0..N \subseteq G
    <2>1. 0 \in G
      <3>1. \A i \in 1..a : st[i] \in B <=> s[i] \in B
        <4> TAKE i \in 1..a
        <4>1. i \in 1..(a + N) /\ i <= a
          BY <1>0
        <4> QED BY <1>1, <4>1
      <3>2. CountTo(st, a, B) = CountTo(s, a, B)
        BY <1>0, <3>1, CountSame
      <3>3. CountTo(t, 0, B) = 0 /\ CountTo(s, a, B) \in Int /\ a + 0 = a
        BY <1>0, CountZero, CountType
      <3> QED BY <1>0, <3>2, <3>3
    <2>2. ASSUME NEW n \in 1..N, n - 1 \in G PROVE n \in G
      <3>0. PICK d \in Nat : d = n - 1 /\ n = d + 1 /\ a + n = (a + d) + 1 /\ a + d \in Nat
        BY <1>0
      <3>1. st[(a + d) + 1] = t[d + 1]
        <4>1. PICK q \in 1..(a + N) : q = (a + d) + 1 /\ ~ (q <= a) /\ q - a = d + 1
          BY <1>0, <3>0
        <4>2. st[q] = t[q - a]
          BY <1>1, <4>1
        <4> QED BY <4>1, <4>2
      <3>2. CountTo(st, (a + d) + 1, B)
              = CountTo(st, a + d, B) + (IF st[(a + d) + 1] \in B THEN 1 ELSE 0)
        BY <3>0, CountStep
      <3>3. CountTo(t, d + 1, B) = CountTo(t, d, B) + (IF t[d + 1] \in B THEN 1 ELSE 0)
        BY CountStep
      <3>4. CountTo(st, a + d, B) = CountTo(s, a, B) + CountTo(t, d, B)
        BY <2>2, <3>0
      <3>5. CountTo(s, a, B) \in Int /\ CountTo(t, d, B) \in Int
        BY <1>0, CountType
      <3>6. CountTo(st, a + n, B) = CountTo(s, a, B) + CountTo(t, n, B)
        BY <3>0, <3>1, <3>2, <3>3, <3>4, <3>5
      <3> QED BY <3>6
    <2> HIDE DEF G
    <2> QED BY <1>0, <2>1, <2>2, UptoInduction
  <1>3. N \in 0..N
    BY <1>0
  <1>4. CountTo(st, a + N, B) = CountTo(s, a, B) + CountTo(t, N, B)
    BY <1>2, <1>3
  <1> QED BY <1>0, <1>4 DEF CountIn, st, a, N

\* A single item.
LEMMA SingleItem ==
  ASSUME NEW x \in Item, NEW B
  PROVE  /\ <<x>> \in Seq(Item) /\ Len(<<x>>) = 1 /\ Sorted(<<x>>)
         /\ CountIn(<<x>>, B) = IF x \in B THEN 1 ELSE 0
  <1>1. <<x>> \in Seq(Item) /\ Len(<<x>>) = 1 /\ <<x>>[1] = x
    OBVIOUS
  <1> DEFINE s == <<x>>
  <1>2. CountTo(s, 0 + 1, B) = CountTo(s, 0, B) + (IF s[0 + 1] \in B THEN 1 ELSE 0)
    <2> HIDE DEF s
    <2> QED BY CountStep
  <1>3. CountTo(s, 0, B) = 0
    <2> HIDE DEF s
    <2> QED BY CountZero
  <1>4. CountTo(s, 1, B) = IF x \in B THEN 1 ELSE 0
    BY <1>1, <1>2, <1>3
  <1> QED BY <1>1, <1>4 DEF CountIn, Sorted

\* No items.
LEMMA EmptyItems ==
  ASSUME NEW B
  PROVE  /\ <<>> \in Seq(Item) /\ Len(<<>>) = 0 /\ Sorted(<<>>)
         /\ CountIn(<<>>, B) = 0
  <1>1. Len(<<>>) = 0 /\ <<>> \in Seq(Item)
    OBVIOUS
  <1> QED BY <1>1, CountZero DEF CountIn, Sorted

\* The order std::sort gives exists.
LEMMA SortExists ==
  ASSUME NEW s \in Seq(Item)
  PROVE  \E t \in [1..Len(s) -> Item] :
           Sorted(t) /\ \A x \in Item : Occurrences(t, x) = Occurrences(s, x)
  <1> DEFINE N == Len(s)
             Ordered(t, n) == /\ t \in Seq(Item) /\ Len(t) = n /\ Sorted(t)
                              /\ \A x \in Item : CountOf(t, n, x) = CountOf(s, n, x)
             G == {n \in 0..N : \E t : Ordered(t, n)}
  <1>0. N \in Nat /\ \A i \in 1..N : s[i] \in Item
    BY LenProperties, ElementOfSeq
  <1>1. 0..N \subseteq G
    <2>1. 0 \in G
      <3>1. \A x \in Item : CountOf(<<>>, 0, x) = 0 /\ CountOf(s, 0, x) = 0
        BY CountZero DEF CountOf
      <3>2. Ordered(<<>>, 0)
        BY <3>1, EmptyItems
      <3>3. 0 \in 0..N
        BY <1>0
      <3> HIDE DEF Ordered
      <3> QED BY <3>2, <3>3
    <2>2. ASSUME NEW n \in 1..N, n - 1 \in G PROVE n \in G
      <3>0. PICK d \in Nat : d = n - 1 /\ n = d + 1
        BY <1>0
      <3>1. PICK t : Ordered(t, d)
        BY <2>2, <3>0
      <3> DEFINE one == <<s[n]>>
                 u == MergeSorted(t, one)
      <3>2. s[n] \in Item
        BY <1>0
      <3>3. one \in Seq(Item) /\ Len(one) = 1 /\ Sorted(one)
        BY <3>2, SingleItem
      <3>4. \A B : CountIn(one, B) = IF s[n] \in B THEN 1 ELSE 0
        BY <3>2, SingleItem
      <3> HIDE DEF one
      <3>5. u \in Seq(Item) /\ Len(u) = d + 1 /\ Sorted(u)
        <4>1. t \in Seq(Item) /\ Len(t) = d /\ Sorted(t)
          BY <3>1
        <4>2. u \in Seq(Item) /\ Len(u) = Len(t) + Len(one)
          BY <3>3, <4>1, MergeDef
        <4>3. Sorted(u)
          BY <3>3, <4>1, MergeOrdered
        <4> QED BY <3>3, <4>1, <4>2, <4>3
      <3>6. ASSUME NEW x \in Item PROVE CountOf(u, n, x) = CountOf(s, n, x)
        <4> DEFINE B == {x}
        <4>1. CountIn(u, B) = CountIn(t, B) + CountIn(one, B)
          <5> HIDE DEF B
          <5> QED BY <3>1, <3>3, MergeCounts
        <4>2. CountTo(s, d + 1, B) = CountTo(s, d, B) + (IF s[d + 1] \in B THEN 1 ELSE 0)
          <5> HIDE DEF B
          <5> QED BY CountStep
        <4>3. CountOf(t, d, x) = CountOf(s, d, x)
          BY <3>1
        <4>4. CountTo(t, d, B) = CountTo(s, d, B)
          BY <4>3 DEF CountOf
        <4>5. CountIn(one, B) = IF s[n] \in B THEN 1 ELSE 0
          <5> HIDE DEF B
          <5> QED BY <3>4
        <4>6. CountOf(u, n, x) = CountTo(u, n, B) /\ CountOf(s, n, x) = CountTo(s, n, B)
          BY DEF CountOf
        <4> HIDE DEF B, u
        <4> QED BY <3>0, <3>1, <3>5, <4>1, <4>2, <4>4, <4>5, <4>6 DEF CountIn
      <3>7. Ordered(u, n)
        BY <3>0, <3>5, <3>6
      <3> QED BY <3>7
    <2> HIDE DEF G
    <2> QED BY <1>0, <2>1, <2>2, UptoInduction
  <1>2. N \in 0..N
    BY <1>0
  <1>3. PICK t : Ordered(t, N)
    BY <1>1, <1>2
  <1>4. t \in [1..N -> Item]
    BY <1>3, LenProperties
  <1>5. ASSUME NEW x \in Item PROVE Occurrences(t, x) = Occurrences(s, x)
    BY <1>3, OccurrencesCount
  <1> QED BY <1>3, <1>4, <1>5

\* Sorting keeps the items and orders them.
LEMMA SortFacts ==
  ASSUME NEW s \in Seq(Item)
  PROVE  /\ Sort(s) \in Seq(Item) /\ Len(Sort(s)) = Len(s) /\ Sorted(Sort(s))
         /\ \A B \in SUBSET Item : CountIn(Sort(s), B) = CountIn(s, B)
  <1> DEFINE t == Sort(s)
  <1>1. /\ t \in [1..Len(s) -> Item] /\ Sorted(t)
        /\ \A x \in Item : Occurrences(t, x) = Occurrences(s, x)
    BY SortExists DEF Sort
  <1> HIDE DEF t
  <1>2. t \in Seq(Item) /\ Len(t) = Len(s) /\ Len(s) \in Nat
    BY <1>1, LenProperties, SeqDef
  <1>3. ASSUME NEW B \in SUBSET Item PROVE CountIn(t, B) = CountIn(s, B)
    <2>1. IsFiniteSet(B)
      BY ItemFacts
    <2>2. \A x \in B : CountOf(t, Len(t), x) = CountOf(s, Len(s), x)
      BY <1>1, <1>2, OccurrencesCount
    <2> QED BY <1>2, <2>1, <2>2, CountFromOccurrences DEF CountIn
  <1> QED BY <1>1, <1>2, <1>3 DEF t

----------------------------------------------------------------------------
(* Halving *)

\* Every other item of a sorted sequence stands for two, give or take one.
LEMMA HalvesFacts ==
  ASSUME NEW s \in Seq(Item), Sorted(s), NEW m \in Nat, Len(s) = 2 * m, NEW half \in Halves(s)
  PROVE  /\ half \in Seq(Item) /\ Len(half) = m /\ Sorted(half)
         /\ \A B : Down(B) => 2 * CountIn(half, B) - CountIn(s, B) \in -1..1
  <1>0. Len(s) \div 2 = m
    OBVIOUS
  <1>1. PICK o \in {0, 1} : half = [i \in 1..m |-> s[2 * i - o]]
    BY <1>0 DEF Halves
  <1>2. \A i \in 1..m : 2 * i - o \in 1..Len(s) /\ half[i] = s[2 * i - o]
    BY <1>1
  <1>3. half \in [1..m -> Item]
    <2>1. \A i \in 1..m : s[2 * i - o] \in Item
      BY <1>2, ElementOfSeq
    <2> QED BY <1>1, <2>1
  <1>4. half \in Seq(Item) /\ Len(half) = m
    BY <1>3, SeqDef
  <1>5. Sorted(half)
    <2>1. ASSUME NEW i \in 1..(m - 1) PROVE half[i] <= half[i + 1]
      <3>1. i \in 1..m /\ i + 1 \in 1..m
        OBVIOUS
      <3>2. /\ 2 * i - o \in 1..Len(s) /\ half[i] = s[2 * i - o]
            /\ 2 * (i + 1) - o \in 1..Len(s) /\ half[i + 1] = s[2 * (i + 1) - o]
        BY <1>2, <3>1
      <3>3. 2 * i - o <= 2 * (i + 1) - o
        OBVIOUS
      <3> QED BY <3>2, <3>3, SortedAll
    <2> QED BY <1>4, <2>1 DEF Sorted
  <1>6. ASSUME NEW B, Down(B) PROVE 2 * CountIn(half, B) - CountIn(s, B) \in -1..1
    <2> DEFINE c == CountIn(s, B)
               d == CountIn(half, B)
    <2>1. c \in 0..Len(s) /\ d \in 0..m
      BY <1>4, CountType DEF CountIn
    <2>2. \A i \in 1..Len(s) : s[i] \in B <=> i <= c
      BY <1>6, SortedPrefix
    <2>3. \A i \in 1..m : half[i] \in B <=> i <= d
      BY <1>4, <1>5, <1>6, SortedPrefix
    <2> HIDE DEF c, d
    <2>4. \A i \in 1..m : i <= d <=> 2 * i - o <= c
      BY <1>2, <2>2, <2>3
    <2>5. d # 0 => 2 * d - o <= c
      BY <2>1, <2>4
    <2>6. d # m => 2 * (d + 1) - o > c
      <3>1. d # m => d + 1 \in 1..m /\ ~ (d + 1 <= d)
        BY <2>1
      <3>2. d # m => ~ (2 * (d + 1) - o <= c)
        BY <2>4, <3>1
      <3> QED BY <2>1, <3>2
    <2>7. 2 * d - c \in -1..1
      BY <2>1, <2>5, <2>6
    <2> QED BY <2>7 DEF c, d
  <1> QED BY <1>4, <1>5, <1>6

Stacks == Seq(Seq(Item))

\* A level halved into the next.  An item below a bound may gain or lose one
\* of the lower level.
LEMMA HalvedUpFacts ==
  ASSUME NEW levels \in Stacks, NEW h \in Nat, h + 2 <= Len(levels), NEW sorted,
         Sorted(levels[h + 2]), (h = 0 /\ ~sorted) \/ Sorted(levels[h + 1]),
         NEW L \in HalvedUp(levels, h, sorted)
  PROVE  /\ L \in Stacks /\ Len(L) = Len(levels)
         /\ \A j \in 1..Len(levels) : j # h + 1 /\ j # h + 2 => L[j] = levels[j]
         /\ Len(L[h + 1]) = Len(levels[h + 1]) % 2
         /\ Len(L[h + 2]) = Len(levels[h + 2]) + Len(levels[h + 1]) \div 2
         /\ Sorted(L[h + 1]) /\ Sorted(L[h + 2])
         /\ \A B : Down(B) =>
              CountIn(L[h + 1], B) - CountIn(levels[h + 1], B)
                + 2 * (CountIn(L[h + 2], B) - CountIn(levels[h + 2], B)) \in -1..1
  <1> DEFINE pop == Level(levels, h)
             above == levels[h + 2]
             odd == Len(pop) % 2
             left == SubSeq(pop, 1, odd)
             body == SubSeq(pop, Len(left) + 1, Len(pop))
             ordered == IF h = 0 /\ ~sorted THEN Sort(body) ELSE body
             m == Len(pop) \div 2
  <1>1. /\ Len(levels) \in Nat /\ h + 1 \in 1..Len(levels) /\ h + 2 \in 1..Len(levels)
        /\ pop = levels[h + 1] /\ pop \in Seq(Item) /\ above \in Seq(Item)
    <2>1. Len(levels) \in Nat
      BY LenProperties DEF Stacks
    <2>2. h + 1 \in 1..Len(levels) /\ h + 2 \in 1..Len(levels) /\ h < Len(levels)
      BY <2>1
    <2>3. levels[h + 1] \in Seq(Item) /\ levels[h + 2] \in Seq(Item)
      BY <2>2, ElementOfSeq DEF Stacks
    <2> QED BY <2>1, <2>2, <2>3 DEF Level
  <1>2. /\ Len(pop) \in Nat /\ odd \in {0, 1} /\ m \in Nat /\ Len(pop) = 2 * m + odd
        /\ Len(above) \in Nat
    <2>1. Len(pop) \in Nat /\ Len(above) \in Nat
      BY <1>1, LenProperties
    <2>2. \A n \in Nat : n % 2 \in {0, 1} /\ n \div 2 \in Nat /\ n = 2 * (n \div 2) + (n % 2)
      OBVIOUS
    <2> QED BY <2>1, <2>2
  <1> HIDE DEF pop, above, odd, m
  <1>3. left \in Seq(Item) /\ Len(left) = odd
    <2>1. \A i \in 1..odd : pop[i] \in Item
      <3>1. \A i \in 1..odd : i \in 1..Len(pop)
        BY <1>2
      <3> QED BY <1>1, <3>1, ElementOfSeq
    <2>2. 1 \in Int /\ odd \in Int
      BY <1>2
    <2>3. left \in Seq(Item) /\ Len(left) = IF 1 <= odd THEN odd - 1 + 1 ELSE 0
      BY <2>1, <2>2, SubSeqProperties
    <2> QED BY <1>2, <2>3
  <1>4. body = SubSeq(pop, odd + 1, Len(pop))
    BY <1>3
  <1> HIDE DEF left, body
  <1>5. /\ body \in Seq(Item) /\ Len(body) = 2 * m
        /\ \A i \in 1..(2 * m) : body[i] = pop[odd + i]
    <2> DEFINE p == odd + 1
               q == Len(pop)
    <2>1. \A i \in p..q : pop[i] \in Item
      <3>1. \A i \in p..q : i \in 1..Len(pop)
        BY <1>2
      <3> QED BY <1>1, <3>1, ElementOfSeq
    <2>2. p \in Int /\ q \in Int
      BY <1>2
    <2>3. body = SubSeq(pop, p, q)
      BY <1>4
    <2>4. (p <= q => q - p + 1 = 2 * m) /\ (~ (p <= q) => m = 0) /\ q - p + 1 = 2 * m
      BY <1>2
    <2>5. \A i \in 1..(2 * m) : p + i - 1 = odd + i
      BY <1>2
    <2> HIDE DEF p, q
    <2>6. /\ body \in Seq(Item) /\ Len(body) = IF p <= q THEN q - p + 1 ELSE 0
          /\ \A i \in 1..(q - p + 1) : body[i] = pop[p + i - 1]
      BY <2>1, <2>2, <2>3, SubSeqProperties
    <2>7. Len(body) = 2 * m
      BY <2>4, <2>6
    <2>8. \A i \in 1..(2 * m) : body[i] = pop[p + i - 1]
      BY <2>4, <2>6
    <2>9. \A i \in 1..(2 * m) : body[i] = pop[odd + i]
      BY <2>5, <2>8
    <2> QED BY <2>6, <2>7, <2>9
  <1>6. pop = left \o body
    <2>1. 1 \in 1..(Len(pop) + 1) /\ odd \in (1 - 1)..Len(pop) /\ Len(pop) \in odd..Len(pop)
      BY <1>2
    <2>2. \A a \in 1..(Len(pop) + 1) : \A c \in (a - 1)..Len(pop) : \A d \in c..Len(pop) :
            SubSeq(pop, a, c) \o SubSeq(pop, c + 1, d) = SubSeq(pop, a, d)
      BY <1>1, ConcatAdjacentSubSeq
    <2>3. SubSeq(pop, 1, odd) \o SubSeq(pop, odd + 1, Len(pop)) = SubSeq(pop, 1, Len(pop))
      BY <2>1, <2>2
    <2>4. SubSeq(pop, 1, Len(pop)) = pop
      BY <1>1, SubSeqFull
    <2> QED BY <1>4, <2>3, <2>4 DEF left
  <1>7. \A B : CountIn(pop, B) = CountIn(left, B) + CountIn(body, B)
    BY <1>3, <1>5, <1>6, CountConcat
  <1>8. /\ ordered \in Seq(Item) /\ Len(ordered) = 2 * m /\ Sorted(ordered)
        /\ \A B \in SUBSET Item : CountIn(ordered, B) = CountIn(body, B)
    <2>1. CASE h = 0 /\ ~sorted
      BY <1>5, <2>1, SortFacts
    <2>2. CASE ~ (h = 0 /\ ~sorted)
      <3>1. Sorted(pop)
        BY <1>1, <2>2
      <3>2. ASSUME NEW i \in 1..(Len(body) - 1) PROVE body[i] <= body[i + 1]
        <4>1. i \in 1..(2 * m) /\ i + 1 \in 1..(2 * m) /\ odd + i \in 1..(Len(pop) - 1)
          BY <1>2, <1>5
        <4>2. body[i] = pop[odd + i] /\ body[i + 1] = pop[(odd + i) + 1]
          <5>1. odd + (i + 1) = (odd + i) + 1
            BY <1>2
          <5> QED BY <1>5, <4>1, <5>1
        <4> QED BY <3>1, <4>1, <4>2 DEF Sorted
      <3> QED BY <1>5, <2>2, <3>2 DEF Sorted
    <2> QED BY <2>1, <2>2
  <1> DEFINE ok(half) == [levels EXCEPT ![h + 1] = left, ![h + 2] = MergeSorted(half, above)]
  <1>9. PICK half \in Halves(ordered) : L = ok(half)
    <2>1. L \in {[levels EXCEPT ![h + 1] = left, ![h + 2] = MergeSorted(half, @)] :
                   half \in Halves(ordered)}
      BY DEF HalvedUp, pop, left, body, odd
    <2>2. ASSUME NEW half
          PROVE  [levels EXCEPT ![h + 1] = left, ![h + 2] = MergeSorted(half, @)] = ok(half)
      <3>1. [levels EXCEPT ![h + 1] = left][h + 2] = levels[h + 2]
        <4>1. h + 2 \in DOMAIN levels /\ h + 1 # h + 2
          BY <1>1, LenProperties DEF Stacks
        <4> QED BY <4>1
      <3> QED BY <3>1 DEF above
    <2> HIDE DEF ordered, ok
    <2> QED BY <2>1, <2>2
  <1> HIDE DEF ordered
  <1>10. /\ half \in Seq(Item) /\ Len(half) = m /\ Sorted(half)
         /\ \A B : Down(B) => 2 * CountIn(half, B) - CountIn(ordered, B) \in -1..1
    BY <1>2, <1>8, HalvesFacts
  <1> DEFINE top == MergeSorted(half, above)
  <1>11. /\ top \in Seq(Item) /\ Len(top) = m + Len(above) /\ Sorted(top)
         /\ \A B : CountIn(top, B) = CountIn(half, B) + CountIn(above, B)
    <2>1. top \in Seq(Item) /\ Len(top) = m + Len(above)
      BY <1>1, <1>10, MergeDef
    <2>2. Sorted(top)
      BY <1>1, <1>10, MergeOrdered DEF above
    <2> QED BY <1>1, <1>10, <2>1, <2>2, MergeCounts
  <1> HIDE DEF top
  <1>12. L = [levels EXCEPT ![h + 1] = left, ![h + 2] = top]
    BY <1>9 DEF top
  <1>13. /\ L \in Stacks /\ Len(L) = Len(levels)
         /\ \A j \in 1..Len(levels) : j # h + 1 /\ j # h + 2 => L[j] = levels[j]
         /\ L[h + 1] = left /\ L[h + 2] = top
    <2> DEFINE lower == [levels EXCEPT ![h + 1] = left]
    <2>1. /\ lower \in Stacks /\ Len(lower) = Len(levels)
          /\ \A j \in 1..Len(levels) : lower[j] = IF j = h + 1 THEN left ELSE levels[j]
      BY <1>1, <1>3, ExceptSeq, SMTT(30) DEF Stacks
    <2>2. L = [lower EXCEPT ![h + 2] = top]
      BY <1>12
    <2> HIDE DEF lower
    <2>3. /\ L \in Stacks /\ Len(L) = Len(lower)
          /\ \A j \in 1..Len(lower) : L[j] = IF j = h + 2 THEN top ELSE lower[j]
      BY <1>1, <1>11, <2>1, <2>2, ExceptSeq, SMTT(30) DEF Stacks
    <2>4. h + 1 # h + 2
      OBVIOUS
    <2> QED BY <1>1, <2>1, <2>3, <2>4
  <1>14. Sorted(left)
    BY <1>2, <1>3 DEF Sorted
  <1>15. ASSUME NEW B, Down(B)
         PROVE  CountIn(left, B) - CountIn(pop, B)
                  + 2 * (CountIn(top, B) - CountIn(above, B)) \in -1..1
    <2>1. B \in SUBSET Item
      BY <1>15 DEF Down
    <2>2. /\ CountIn(left, B) \in Int /\ CountIn(body, B) \in Int /\ CountIn(half, B) \in Int
          /\ CountIn(above, B) \in Int
      <3>1. \A s \in Seq(Item) : Len(s) \in Nat
        BY LenProperties
      <3>2. Len(left) \in Nat /\ Len(body) \in Nat /\ Len(half) \in Nat /\ Len(above) \in Nat
        BY <1>1, <1>3, <1>5, <1>10, <3>1
      <3> QED BY <3>2, CountType DEF CountIn
    <2>3. 2 * CountIn(half, B) - CountIn(body, B) \in -1..1
      BY <1>8, <1>10, <1>15, <2>1
    <2> QED BY <1>7, <1>11, <2>2, <2>3, SMTT(30)
  <1>16. Len(L[h + 1]) = Len(levels[h + 1]) % 2 /\ Sorted(L[h + 1])
    BY <1>1, <1>3, <1>13, <1>14 DEF odd
  <1>17. Len(L[h + 2]) = Len(levels[h + 2]) + Len(levels[h + 1]) \div 2 /\ Sorted(L[h + 2])
    <2>1. Len(L[h + 2]) = Len(above) + m
      BY <1>2, <1>11, <1>13
    <2> QED BY <1>1, <1>11, <1>13, <2>1 DEF above, m
  <1>18. ASSUME NEW B, Down(B)
         PROVE  CountIn(L[h + 1], B) - CountIn(levels[h + 1], B)
                  + 2 * (CountIn(L[h + 2], B) - CountIn(levels[h + 2], B)) \in -1..1
    BY <1>1, <1>13, <1>15, <1>18 DEF above
  <1> QED BY <1>13, <1>16, <1>17, <1>18

----------------------------------------------------------------------------
(* Sums over the levels *)

SumTo(f, n) == SumOver(f, 0..(n - 1))

\* The empty sum.
LEMMA SumToZero == ASSUME NEW f PROVE SumTo(f, 0) = 0
  <1>1. 0..(0 - 1) = {}
    OBVIOUS
  <1> QED BY <1>1, SumEmpty DEF SumTo

\* A sum with one more term.
LEMMA SumToStep ==
  ASSUME NEW f, NEW n \in Nat, \A i \in 0..n : f[i] \in Int
  PROVE  SumTo(f, n) \in Int /\ SumTo(f, n + 1) = SumTo(f, n) + f[n]
  <1> DEFINE S == 0..(n - 1)
  <1>1. IsFiniteSet(S) /\ n \notin S /\ S \cup {n} = 0..n /\ (n + 1) - 1 = n
    <2>1. IsFiniteSet(S)
      BY FS_Interval
    <2>2. n \notin S /\ (n + 1) - 1 = n
      OBVIOUS
    <2>3. \A i : i \in S \cup {n} <=> i \in 0..n
      OBVIOUS
    <2> HIDE DEF S
    <2> QED BY <2>1, <2>2, <2>3
  <1>2. SumOver(f, S) \in Int /\ SumOver(f, S \cup {n}) = f[n] + SumOver(f, S)
    <2> HIDE DEF S
    <2> QED BY <1>1, SumInsert, SumType
  <1>3. SumTo(f, n + 1) = SumOver(f, S \cup {n}) /\ SumTo(f, n) = SumOver(f, S)
    BY <1>1 DEF SumTo
  <1>4. f[n] \in Int
    OBVIOUS
  <1> QED BY <1>2, <1>3, <1>4

\* SumFunction over an interval is the sum up to its end.
LEMMA SumFunctionTo ==
  ASSUME NEW n \in Nat, NEW f, DOMAIN f = 0..(n - 1), NEW g,
         \A i \in 0..(n - 1) : f[i] \in Int /\ g[i] = f[i]
  PROVE  SumFunction(f) = SumTo(g, n)
  <1> DEFINE S == 0..(n - 1)
  <1>1. IsFiniteSet(S)
    BY FS_Interval
  <1>2. SumOver(g, S) = SumOver(f, S)
    BY <1>1, SumEqual
  <1>3. SumFunction(f) = SumOver(f, S)
    BY DEF SumFunction, SumFunctionOnSet, SumOver
  <1> QED BY <1>2, <1>3 DEF SumTo

----------------------------------------------------------------------------
(* What a stack of levels weighs *)

\* Every item counts for one, or for what its height makes it stand for.
Units == [h \in Nat |-> 1]
Powers == [h \in Nat |-> Power(2, h)]

Gains == [Nat -> Nat]

\* The two ways to weigh a level: one per item, or 2^h.
LEMMA GainsType ==
  /\ Units \in Gains /\ Powers \in Gains
  /\ \A g \in Gains : \A h \in Nat : g[h] \in Nat
  BY PowerDef DEF Units, Powers, Gains

Masses(g, levels, B) == [h \in Nat |-> g[h] * CountIn(Level(levels, h), B)]

Mass(g, levels, B) == SumOver(Masses(g, levels, B), Heights(levels))

\* The levels of a stack, the empty ones above its top included.
LEMMA LevelType ==
  ASSUME NEW levels \in Stacks
  PROVE  /\ Len(levels) \in Nat
         /\ \A h \in Nat : Level(levels, h) \in Seq(Item) /\ Len(Level(levels, h)) \in Nat
         /\ \A h \in 0..(Len(levels) - 1) : Level(levels, h) = levels[h + 1]
         /\ \A h \in Nat : h >= Len(levels) => Level(levels, h) = <<>>
  <1>1. Len(levels) \in Nat
    BY LenProperties DEF Stacks
  <1>2. ASSUME NEW h \in Nat
        PROVE  Level(levels, h) \in Seq(Item) /\ Len(Level(levels, h)) \in Nat
    <2>1. CASE h < Len(levels)
      <3>1. h + 1 \in 1..Len(levels)
        BY <1>1, <2>1
      <3>2. levels[h + 1] \in Seq(Item)
        BY <3>1, ElementOfSeq DEF Stacks
      <3> QED BY <2>1, <3>2, LenProperties DEF Level
    <2>2. CASE ~ (h < Len(levels))
      BY <2>2, EmptyItems DEF Level
    <2> QED BY <2>1, <2>2
  <1>3. \A h \in 0..(Len(levels) - 1) : Level(levels, h) = levels[h + 1]
    BY <1>1 DEF Level
  <1>4. \A h \in Nat : h >= Len(levels) => Level(levels, h) = <<>>
    BY <1>1 DEF Level
  <1> QED BY <1>1, <1>2, <1>3, <1>4

\* The weight of each level.
LEMMA MassesType ==
  ASSUME NEW g \in Gains, NEW levels \in Stacks, NEW B
  PROVE  \A h \in Nat : /\ CountIn(Level(levels, h), B) \in Nat
                        /\ CountIn(Level(levels, h), B) <= Len(Level(levels, h))
                        /\ Masses(g, levels, B)[h] = g[h] * CountIn(Level(levels, h), B)
                        /\ Masses(g, levels, B)[h] \in Nat
                        /\ Masses(g, levels, B)[h] \in Int
  <1> TAKE h \in Nat
  <1>1. Len(Level(levels, h)) \in Nat
    BY LevelType
  <1>2. CountIn(Level(levels, h), B) \in 0..Len(Level(levels, h))
    BY <1>1, CountType DEF CountIn
  <1>3. \A x, y \in Nat : x * y \in Nat
    OBVIOUS
  <1>4. Masses(g, levels, B)[h] = g[h] * CountIn(Level(levels, h), B)
    BY DEF Masses
  <1>5. CountIn(Level(levels, h), B) \in Nat /\ g[h] \in Nat
    BY <1>1, <1>2, GainsType
  <1> DEFINE c == CountIn(Level(levels, h), B)
  <1>6. g[h] * c \in Nat
    <2> HIDE DEF c
    <2> QED BY <1>3, <1>5 DEF c
  <1> QED BY <1>1, <1>2, <1>4, <1>5, <1>6

\* The weight of the lowest levels.
LEMMA MassType ==
  ASSUME NEW g \in Gains, NEW levels \in Stacks, NEW B, NEW n \in Nat
  PROVE  SumTo(Masses(g, levels, B), n) \in Nat
  <1> DEFINE S == 0..(n - 1)
             f == Masses(g, levels, B)
  <1>1. IsFiniteSet(S) /\ S \subseteq Nat
    BY FS_Interval
  <1>2. \A h \in S : f[h] \in Nat
    BY <1>1, MassesType
  <1>3. SumOver(f, S) \in Nat
    <2> HIDE DEF S, f
    <2> QED BY <1>1, <1>2, SumNat
  <1> QED BY <1>3 DEF SumTo

\* Levels that are not there weigh nothing.
LEMMA MassBeyond ==
  ASSUME NEW g \in Gains, NEW levels \in Stacks, NEW B,
         NEW n \in Nat, n >= Len(levels)
  PROVE  SumTo(Masses(g, levels, B), n) = Mass(g, levels, B)
  <1> DEFINE f == Masses(g, levels, B)
             N == Len(levels)
             G == {d \in Nat : SumTo(f, N + d) = SumTo(f, N)}
  <1>0. N \in Nat
    BY LevelType
  <1>1. 0 \in G
    BY <1>0
  <1>2. ASSUME NEW d \in Nat, d \in G PROVE d + 1 \in G
    <2>1. PICK m \in Nat : m = N + d /\ m + 1 = N + (d + 1) /\ m >= N
      BY <1>0
    <2>2. \A i \in 0..m : f[i] \in Int
      BY MassesType
    <2>3. SumTo(f, m) \in Int /\ SumTo(f, m + 1) = SumTo(f, m) + f[m]
      <3> HIDE DEF f
      <3> QED BY <2>2, SumToStep
    <2>4. f[m] = 0
      <3>1. CountIn(Level(levels, m), B) = 0
        BY <2>1, LevelType, EmptyItems
      <3>2. f[m] = g[m] * 0
        BY <3>1, MassesType
      <3>3. \A x \in Nat : x * 0 = 0
        OBVIOUS
      <3>4. g[m] \in Nat
        BY GainsType
      <3> HIDE DEF f
      <3> QED BY <3>2, <3>3, <3>4
    <2> HIDE DEF f
    <2>5. SumTo(f, N + (d + 1)) = SumTo(f, N)
      BY <1>2, <2>1, <2>3, <2>4
    <2> QED BY <2>5
  <1>3. Nat \subseteq G
    <2> HIDE DEF G
    <2> QED BY <1>1, <1>2, NatInductionSet
  <1>4. PICK d \in Nat : d = n - N /\ n = N + d
    BY <1>0
  <1>5. Mass(g, levels, B) = SumTo(f, N)
    BY DEF Mass, SumTo, Heights
  <1> QED BY <1>3, <1>4, <1>5

\* The heights of a stack are finitely many.
LEMMA HeightsFacts ==
  ASSUME NEW levels \in Stacks
  PROVE  IsFiniteSet(Heights(levels)) /\ \A h \in Heights(levels) : h \in Nat
  <1>1. Len(levels) \in Nat
    BY LevelType
  <1> QED BY <1>1, FS_Interval DEF Heights

\* L is levels, but for the heights from h to i.
Apart(levels, L, h, i) ==
  /\ Len(L) = Len(levels)
  /\ \A j \in Heights(levels) : j < h \/ j > i => Level(L, j) = Level(levels, j)

\* One level changes.
LEMMA MassAt ==
  ASSUME NEW g \in Gains, NEW levels \in Stacks, NEW L \in Stacks, NEW B,
         NEW h \in Heights(levels), Apart(levels, L, h, h)
  PROVE  Mass(g, L, B) = Mass(g, levels, B)
           + g[h] * (CountIn(Level(L, h), B) - CountIn(Level(levels, h), B))
  <1> DEFINE S == Heights(levels)
             f == Masses(g, levels, B)
             e == Masses(g, L, B)
  <1>0. IsFiniteSet(S) /\ h \in S /\ \A j \in S : j \in Nat
    BY HeightsFacts
  <1>1. \A j \in Nat : /\ f[j] \in Int /\ f[j] = g[j] * CountIn(Level(levels, j), B)
                       /\ CountIn(Level(levels, j), B) \in Nat
    BY MassesType
  <1>2. \A j \in Nat : /\ e[j] \in Int /\ e[j] = g[j] * CountIn(Level(L, j), B)
                       /\ CountIn(Level(L, j), B) \in Nat
    BY MassesType
  <1> HIDE DEF e, f
  <1>3. \A j \in S : f[j] \in Int /\ e[j] \in Int /\ (j # h => e[j] = f[j])
    <2>1. \A j \in S : j # h => Level(L, j) = Level(levels, j)
      BY <1>0 DEF Apart
    <2> QED BY <1>0, <1>1, <1>2, <2>1
  <1>4. SumOver(e, S) = SumOver(f, S) + (e[h] - f[h])
    <2>1. OneChange(f, e, S, h)
      BY <1>0, <1>3 DEF OneChange
    <2> HIDE DEF S
    <2> QED BY <2>1, SumOneChange
  <1>5. e[h] - f[h] = g[h] * (CountIn(Level(L, h), B) - CountIn(Level(levels, h), B))
    <2>1. \A p, x, y \in Nat : p * x - p * y = p * (x - y)
      OBVIOUS
    <2>2. h \in Nat /\ g[h] \in Nat
      BY <1>0, GainsType
    <2> QED BY <1>1, <1>2, <2>1, <2>2
  <1>6. Mass(g, L, B) = SumOver(e, S) /\ Mass(g, levels, B) = SumOver(f, S)
    BY DEF Mass, Apart, Heights, e, f
  <1> QED BY <1>4, <1>5, <1>6

\* Stacks whose levels count the same weigh the same.
LEMMA MassSame ==
  ASSUME NEW g \in Gains, NEW levels \in Stacks, NEW L \in Stacks, NEW B, NEW C,
         \A h \in Nat : CountIn(Level(L, h), C) = CountIn(Level(levels, h), B)
  PROVE  Mass(g, L, C) = Mass(g, levels, B)
  <1>1. PICK n \in Nat : n >= Len(levels) /\ n >= Len(L)
    <2>1. Len(levels) \in Nat /\ Len(L) \in Nat
      BY LevelType
    <2> QED BY <2>1
  <1>2. SumTo(Masses(g, levels, B), n) = Mass(g, levels, B)
    BY <1>1, MassBeyond
  <1>3. SumTo(Masses(g, L, C), n) = Mass(g, L, C)
    BY <1>1, MassBeyond
  <1>4. Masses(g, L, C) = Masses(g, levels, B)
    BY DEF Masses
  <1> QED BY <1>2, <1>3, <1>4

Above(i, h) == i = h + 1

\* Two neighbouring levels change.
LEMMA MassPair ==
  ASSUME NEW g \in Gains, NEW levels \in Stacks, NEW L \in Stacks, NEW B,
         NEW h \in Heights(levels), NEW i \in Heights(levels), Above(i, h), Apart(levels, L, h, i)
  PROVE  Mass(g, L, B) = Mass(g, levels, B)
           + g[h] * (CountIn(Level(L, h), B) - CountIn(Level(levels, h), B))
           + g[i] * (CountIn(Level(L, i), B) - CountIn(Level(levels, i), B))
  <1> DEFINE S == Heights(levels)
             f == Masses(g, levels, B)
             e == Masses(g, L, B)
             mid == [j \in Nat |-> IF j = h THEN e[j] ELSE f[j]]
  <1>0. i # h /\ i \in Nat /\ \A j \in S : j \in Nat
    BY HeightsFacts DEF Above
  <1>a. IsFiniteSet(S) /\ h \in S /\ i \in S
    BY HeightsFacts
  <1>1. \A j \in Nat : /\ f[j] \in Int /\ f[j] = g[j] * CountIn(Level(levels, j), B)
                       /\ CountIn(Level(levels, j), B) \in Nat
    BY MassesType
  <1>2. \A j \in Nat : /\ e[j] \in Int /\ e[j] = g[j] * CountIn(Level(L, j), B)
                       /\ CountIn(Level(L, j), B) \in Nat
    BY MassesType
  <1> HIDE DEF e, f
  <1>3. \A j \in S : j # h /\ j # i => e[j] = f[j]
    <2>1. \A j \in S : j # h /\ j # i => Level(L, j) = Level(levels, j)
      BY <1>0 DEF Apart, Above
    <2> QED BY <1>0, <1>1, <1>2, <2>1
  <1>4. \A j \in S : /\ f[j] \in Int /\ mid[j] \in Int /\ e[j] \in Int
                     /\ j # h => mid[j] = f[j]
                     /\ j # i => e[j] = mid[j]
    BY <1>0, <1>1, <1>2, <1>3
  <1>5. mid[h] = e[h] /\ mid[i] = f[i]
    BY <1>0
  <1> HIDE DEF mid
  <1>6. SumOver(mid, S) = SumOver(f, S) + (mid[h] - f[h])
    <2>1. OneChange(f, mid, S, h)
      BY <1>a, <1>4 DEF OneChange
    <2> HIDE DEF S
    <2> QED BY <2>1, SumOneChange
  <1>7. SumOver(e, S) = SumOver(mid, S) + (e[i] - mid[i])
    <2>1. OneChange(mid, e, S, i)
      BY <1>a, <1>4 DEF OneChange
    <2> HIDE DEF S
    <2> QED BY <2>1, SumOneChange
  <1>8. /\ e[h] - f[h] = g[h] * (CountIn(Level(L, h), B) - CountIn(Level(levels, h), B))
        /\ e[i] - f[i] = g[i] * (CountIn(Level(L, i), B) - CountIn(Level(levels, i), B))
    <2>1. \A p, x, y \in Nat : p * x - p * y = p * (x - y)
      OBVIOUS
    <2>2. h \in Nat /\ g[h] \in Nat /\ g[i] \in Nat
      BY <1>0, GainsType
    <2> QED BY <1>0, <1>1, <1>2, <2>1, <2>2
  <1>9. Mass(g, L, B) = SumOver(e, S) /\ Mass(g, levels, B) = SumOver(f, S)
    BY DEF Mass, Apart, Heights, e, f
  <1> QED BY <1>5, <1>6, <1>7, <1>8, <1>9

\* The two sums of the model.
LEMMA CountItem ==
  ASSUME NEW s \in Seq(Item)
  PROVE  CountIn(s, Item) = Len(s)
  <1>1. Len(s) \in Nat /\ \A i \in 1..Len(s) : s[i] \in Item
    BY LenProperties, ElementOfSeq
  <1> QED BY <1>1, CountAll DEF CountIn

\* The retained items and the total weight as weights of the set of all items.
LEMMA ItemMass ==
  ASSUME NEW levels \in Stacks
  PROVE  /\ Retained(levels) = Mass(Units, levels, Item)
         /\ TotalWeight(levels) = Mass(Powers, levels, Item)
  <1> DEFINE N == Len(levels)
             len == [h \in Heights(levels) |-> Len(Level(levels, h))]
             weight == [h \in Heights(levels) |-> Power(2, h) * Len(Level(levels, h))]
             u == Masses(Units, levels, Item)
             p == Masses(Powers, levels, Item)
  <1>0. N \in Nat /\ Heights(levels) = 0..(N - 1)
    BY LevelType DEF Heights
  <1>1. \A h \in Nat : /\ CountIn(Level(levels, h), Item) = Len(Level(levels, h))
                       /\ Len(Level(levels, h)) \in Nat
    BY LevelType, CountItem
  <1>2. \A h \in Nat : u[h] = Len(Level(levels, h)) /\ u[h] \in Int
    <2>1. \A x \in Nat : 1 * x = x
      OBVIOUS
    <2>2. \A h \in Nat : u[h] = 1 * CountIn(Level(levels, h), Item)
      BY DEF Masses, Units
    <2> TAKE h \in Nat
    <2>3. u[h] = 1 * Len(Level(levels, h)) /\ Len(Level(levels, h)) \in Nat
      BY <1>1, <2>2
    <2> HIDE DEF u
    <2> QED BY <2>1, <2>3
  <1>3. \A h \in Nat : p[h] = Power(2, h) * Len(Level(levels, h))
    <2>1. \A h \in Nat : p[h] = Power(2, h) * CountIn(Level(levels, h), Item)
      BY DEF Masses, Powers
    <2> HIDE DEF p
    <2> QED BY <1>1, <2>1
  <1>4. \A h \in Nat : p[h] \in Int
    BY MassesType, GainsType
  <1> HIDE DEF u, p, N
  <1>5. SumFunction(len) = SumTo(u, N)
    <2>1. DOMAIN len = 0..(N - 1) /\ \A h \in 0..(N - 1) : len[h] \in Int /\ u[h] = len[h]
      BY <1>0, <1>1, <1>2
    <2> HIDE DEF len
    <2> QED BY <1>0, <2>1, SumFunctionTo
  <1>6. SumFunction(weight) = SumTo(p, N)
    <2>1. DOMAIN weight = 0..(N - 1) /\ \A h \in 0..(N - 1) : p[h] = weight[h]
      BY <1>0, <1>3
    <2>2. \A h \in 0..(N - 1) : weight[h] \in Int /\ p[h] = weight[h]
      BY <1>0, <1>4, <2>1
    <2> HIDE DEF weight
    <2> QED BY <1>0, <2>1, <2>2, SumFunctionTo
  <1>7. SumTo(u, N) = Mass(Units, levels, Item) /\ SumTo(p, N) = Mass(Powers, levels, Item)
    BY <1>0 DEF SumTo, Mass, u, p
  <1> QED BY <1>5, <1>6, <1>7 DEF Retained, TotalWeight

----------------------------------------------------------------------------
(* One halving *)

Weight(levels, B) == Mass(Powers, levels, B)

Proper(levels) ==
  /\ levels \in Stacks /\ Len(levels) >= 1
  /\ \A h \in Nat : h # 0 => Sorted(Level(levels, h))
  /\ Len(levels) > 1 => Len(Level(levels, Len(levels) - 1)) >= 1

\* A level is added above the highest one before that is halved.
Room(levels, h) == IF h = Len(levels) - 1 THEN Append(levels, <<>>) ELSE levels

\* An empty level on top changes no level.
LEMMA AppendLevel ==
  ASSUME NEW levels \in Stacks
  PROVE  /\ Append(levels, <<>>) \in Stacks /\ Len(Append(levels, <<>>)) = Len(levels) + 1
         /\ \A h \in Nat : Level(Append(levels, <<>>), h) = Level(levels, h)
  <1> DEFINE R == Append(levels, <<>>)
             N == Len(levels)
  <1>0. N \in Nat
    BY LevelType
  <1>1. /\ R \in Stacks /\ Len(R) = N + 1
        /\ \A i \in 1..N : R[i] = levels[i]
        /\ R[N + 1] = <<>>
    BY EmptyItems, AppendProperties DEF Stacks
  <1> HIDE DEF R, N
  <1>2. ASSUME NEW h \in Nat PROVE Level(R, h) = Level(levels, h)
    <2>1. CASE h < N
      <3>1. h + 1 \in 1..N /\ h < Len(R)
        BY <1>0, <1>1, <2>1
      <3> QED BY <1>1, <2>1, <3>1 DEF Level, N
    <2>2. CASE h = N
      BY <1>0, <1>1, <2>2 DEF Level, N
    <2>3. CASE h > N
      BY <1>0, <1>1, <2>3 DEF Level, N
    <2> QED BY <1>0, <2>1, <2>2, <2>3
  <1> QED BY <1>1, <1>2 DEF R, N

\* The room made above the level to halve changes no level.
LEMMA RoomFacts ==
  ASSUME NEW levels \in Stacks, NEW h \in Heights(levels)
  PROVE  /\ Room(levels, h) \in Stacks /\ h \in Nat /\ h + 2 <= Len(Room(levels, h))
         /\ Len(Room(levels, h)) >= Len(levels)
         /\ \A j \in Nat : Level(Room(levels, h), j) = Level(levels, j)
         /\ Len(Room(levels, h)) = IF h = Len(levels) - 1 THEN Len(levels) + 1 ELSE Len(levels)
  <1>1. Len(levels) \in Nat /\ h \in 0..(Len(levels) - 1)
    BY LevelType DEF Heights
  <1>2. CASE h = Len(levels) - 1
    <2>1. Room(levels, h) = Append(levels, <<>>)
      BY <1>2 DEF Room
    <2>2. /\ Append(levels, <<>>) \in Stacks /\ Len(Append(levels, <<>>)) = Len(levels) + 1
          /\ \A j \in Nat : Level(Append(levels, <<>>), j) = Level(levels, j)
      BY AppendLevel
    <2>3. /\ Room(levels, h) \in Stacks /\ Len(Room(levels, h)) = Len(levels) + 1
          /\ \A j \in Nat : Level(Room(levels, h), j) = Level(levels, j)
      BY <2>1, <2>2
    <2>4. h \in Nat /\ h + 2 <= Len(levels) + 1
      BY <1>1, <1>2
    <2> QED BY <1>1, <1>2, <2>3, <2>4
  <1>3. CASE h # Len(levels) - 1
    <2>1. Room(levels, h) = levels
      BY <1>3 DEF Room
    <2> QED BY <1>1, <1>3, <2>1
  <1> QED BY <1>2, <1>3

\* What halving does to a stack with room for it.
LEMMA HalvedLevels ==
  ASSUME NEW R \in Stacks, NEW h \in Nat, h + 2 <= Len(R), NEW sorted,
         Sorted(Level(R, h + 1)), (h = 0 /\ ~sorted) \/ Sorted(Level(R, h)),
         NEW L \in HalvedUp(R, h, sorted)
  PROVE  /\ L \in Stacks /\ Len(L) = Len(R)
         /\ \A j \in Nat : j # h /\ j # h + 1 => Level(L, j) = Level(R, j)
         /\ Len(Level(L, h)) = Len(Level(R, h)) % 2
         /\ Len(Level(L, h + 1)) = Len(Level(R, h + 1)) + Len(Level(R, h)) \div 2
         /\ Sorted(Level(L, h)) /\ Sorted(Level(L, h + 1))
         /\ \A B : Down(B) =>
              CountIn(Level(L, h), B) - CountIn(Level(R, h), B)
                + 2 * (CountIn(Level(L, h + 1), B) - CountIn(Level(R, h + 1), B)) \in -1..1
  <1>1. /\ Len(R) \in Nat /\ h \in 0..(Len(R) - 1) /\ h + 1 \in 0..(Len(R) - 1)
        /\ (h + 1) + 1 = h + 2
    BY LevelType
  <1>2. Level(R, h) = R[h + 1] /\ Level(R, h + 1) = R[h + 2]
    BY <1>1, LevelType
  <1>3. Sorted(R[h + 2]) /\ ((h = 0 /\ ~sorted) \/ Sorted(R[h + 1]))
    BY <1>2
  <1>4. /\ L \in Stacks /\ Len(L) = Len(R)
        /\ \A j \in 1..Len(R) : j # h + 1 /\ j # h + 2 => L[j] = R[j]
        /\ Len(L[h + 1]) = Len(R[h + 1]) % 2
        /\ Len(L[h + 2]) = Len(R[h + 2]) + Len(R[h + 1]) \div 2
        /\ Sorted(L[h + 1]) /\ Sorted(L[h + 2])
        /\ \A B : Down(B) =>
             CountIn(L[h + 1], B) - CountIn(R[h + 1], B)
               + 2 * (CountIn(L[h + 2], B) - CountIn(R[h + 2], B)) \in -1..1
    BY <1>3, HalvedUpFacts
  <1>5. Level(L, h) = L[h + 1] /\ Level(L, h + 1) = L[h + 2]
    BY <1>1, <1>4, LevelType
  <1>6. ASSUME NEW j \in Nat, j # h, j # h + 1 PROVE Level(L, j) = Level(R, j)
    <2>1. CASE j < Len(R)
      <3>1. j + 1 \in 1..Len(R) /\ j + 1 # h + 1 /\ j + 1 # h + 2
        BY <1>1, <1>6, <2>1
      <3> QED BY <1>4, <2>1, <3>1 DEF Level
    <2>2. CASE ~ (j < Len(R))
      BY <1>4, <2>2 DEF Level
    <2> QED BY <2>1, <2>2
  <1> QED BY <1>2, <1>4, <1>5, <1>6

\* A halving keeps the total weight, and moves the weight of an initial set of items
\* by at most 2^h.
LEMMA HalvedMass ==
  ASSUME NEW R \in Stacks, NEW h \in Nat, h + 2 <= Len(R), NEW sorted,
         Sorted(Level(R, h + 1)), (h = 0 /\ ~sorted) \/ Sorted(Level(R, h)),
         NEW L \in HalvedUp(R, h, sorted)
  PROVE  /\ Retained(L) = Retained(R) - Len(Level(R, h)) \div 2
         /\ TotalWeight(L) = TotalWeight(R)
         /\ \A B : Down(B) => Weight(L, B) - Weight(R, B) \in -Power(2, h)..Power(2, h)
  <1>1. /\ L \in Stacks /\ Len(L) = Len(R)
        /\ \A j \in Nat : j # h /\ j # h + 1 => Level(L, j) = Level(R, j)
    BY HalvedLevels
  <1>2. /\ Len(Level(L, h)) = Len(Level(R, h)) % 2
        /\ Len(Level(L, h + 1)) = Len(Level(R, h + 1)) + Len(Level(R, h)) \div 2
    BY HalvedLevels
  <1>3. \A B : Down(B) =>
          CountIn(Level(L, h), B) - CountIn(Level(R, h), B)
            + 2 * (CountIn(Level(L, h + 1), B) - CountIn(Level(R, h + 1), B)) \in -1..1
    BY HalvedLevels
  <1>4. PICK i \in Nat : i = h + 1
    OBVIOUS
  <1>5. Above(i, h) /\ Apart(R, L, h, i) /\ h \in Heights(R) /\ i \in Heights(R)
    <2>1. Above(i, h)
      BY <1>4 DEF Above
    <2>2. Len(R) \in Nat
      BY LevelType
    <2>3. h \in Heights(R) /\ i \in Heights(R) /\ \A j \in Heights(R) : j \in Nat
      BY <1>4, <2>2 DEF Heights
    <2>4. \A j \in Heights(R) : j < h \/ j > i => j # h /\ j # h + 1
      BY <1>4, <2>3
    <2>5. Apart(R, L, h, i)
      BY <1>1, <2>3, <2>4 DEF Apart
    <2> QED BY <2>1, <2>3, <2>5
  <1>6. /\ \A B : Mass(Units, L, B) = Mass(Units, R, B)
           + Units[h] * (CountIn(Level(L, h), B) - CountIn(Level(R, h), B))
           + Units[i] * (CountIn(Level(L, i), B) - CountIn(Level(R, i), B))
        /\ \A B : Mass(Powers, L, B) = Mass(Powers, R, B)
           + Powers[h] * (CountIn(Level(L, h), B) - CountIn(Level(R, h), B))
           + Powers[i] * (CountIn(Level(L, i), B) - CountIn(Level(R, i), B))
    BY <1>1, <1>5, MassPair, GainsType
  <1>7. PICK p \in Nat : p = Power(2, h) /\ Powers[h] = p /\ Powers[i] = 2 * p
    <2>1. Power(2, h) \in Nat /\ Power(2, h + 1) = 2 * Power(2, h)
      BY PowerDef
    <2>2. Powers[h] = Power(2, h) /\ Powers[i] = Power(2, h + 1)
      BY <1>4 DEF Powers
    <2> QED BY <2>1, <2>2
  <1>8. Units[h] = 1 /\ Units[i] = 1
    BY <1>4 DEF Units
  <1>9. \A B : /\ CountIn(Level(L, h), B) \in Nat /\ CountIn(Level(R, h), B) \in Nat
               /\ CountIn(Level(L, i), B) \in Nat /\ CountIn(Level(R, i), B) \in Nat
               /\ Mass(Powers, R, B) \in Nat /\ Mass(Units, R, B) \in Nat
    <2>1. \A B : CountIn(Level(L, h), B) \in Nat /\ CountIn(Level(L, i), B) \in Nat
      BY <1>1, MassesType, GainsType
    <2>2. \A B : CountIn(Level(R, h), B) \in Nat /\ CountIn(Level(R, i), B) \in Nat
      BY MassesType, GainsType
    <2>3. \A B : Mass(Powers, R, B) \in Nat /\ Mass(Units, R, B) \in Nat
      <3>1. Len(R) \in Nat
        BY LevelType
      <3>2. \A B, g : g \in Gains => SumTo(Masses(g, R, B), Len(R)) \in Nat
        BY <3>1, MassType
      <3> QED BY <3>2, GainsType DEF Mass, SumTo, Heights
    <2> QED BY <2>1, <2>2, <2>3
  <1>10. PICK n \in Nat, m \in Nat, o \in {0, 1}, a \in Nat :
           /\ Len(Level(R, h)) = n /\ n = 2 * m + o /\ n \div 2 = m /\ n % 2 = o
           /\ Len(Level(R, i)) = a /\ Len(Level(L, h)) = o /\ Len(Level(L, i)) = a + m
    <2>1. Len(Level(R, h)) \in Nat /\ Len(Level(R, i)) \in Nat
      BY LevelType
    <2>2. \A n \in Nat : \E m \in Nat, o \in {0, 1} :
            n = 2 * m + o /\ n \div 2 = m /\ n % 2 = o
      OBVIOUS
    <2>3. PICK m \in Nat, o \in {0, 1} :
            LET n == Len(Level(R, h)) IN n = 2 * m + o /\ n \div 2 = m /\ n % 2 = o
      BY <2>1, <2>2
    <2> QED BY <1>2, <1>4, <2>1, <2>3
  <1>11. /\ CountIn(Level(L, h), Item) = o /\ CountIn(Level(R, h), Item) = 2 * m + o
         /\ CountIn(Level(L, i), Item) = a + m /\ CountIn(Level(R, i), Item) = a
    <2>1. /\ Level(L, h) \in Seq(Item) /\ Level(L, i) \in Seq(Item)
          /\ Level(R, h) \in Seq(Item) /\ Level(R, i) \in Seq(Item)
      BY <1>1, LevelType
    <2> QED BY <1>10, <2>1, CountItem
  <1>12. Retained(L) = Retained(R) - m
    <2>1. Mass(Units, L, Item) = Mass(Units, R, Item) + 1 * (o - (2 * m + o)) + 1 * ((a + m) - a)
      BY <1>6, <1>8, <1>11
    <2>2. Mass(Units, R, Item) \in Nat
      BY <1>9
    <2>3. Mass(Units, L, Item) = Mass(Units, R, Item) - m
      BY <2>1, <2>2
    <2> QED BY <1>1, <2>3, ItemMass
  <1>13. TotalWeight(L) = TotalWeight(R)
    <2>1. Mass(Powers, L, Item)
            = Mass(Powers, R, Item) + p * (o - (2 * m + o)) + (2 * p) * ((a + m) - a)
      BY <1>6, <1>7, <1>11
    <2>2. p * (o - (2 * m + o)) + (2 * p) * ((a + m) - a) = 0
      OBVIOUS
    <2>3. Mass(Powers, R, Item) \in Nat
      BY <1>9
    <2>4. /\ p * (o - (2 * m + o)) \in Int /\ (2 * p) * ((a + m) - a) \in Int
      OBVIOUS
    <2>5. Mass(Powers, L, Item) = Mass(Powers, R, Item)
      BY <2>1, <2>2, <2>3, <2>4
    <2> QED BY <1>1, <2>5, ItemMass
  <1>14. ASSUME NEW B, Down(B)
         PROVE  Weight(L, B) - Weight(R, B) \in -p..p
    <2>1. PICK x \in Int, y \in Int :
            /\ x = CountIn(Level(L, h), B) - CountIn(Level(R, h), B)
            /\ y = CountIn(Level(L, i), B) - CountIn(Level(R, i), B)
      BY <1>9
    <2>2. x + 2 * y \in -1..1
      BY <1>3, <1>4, <1>14, <2>1
    <2>3. Mass(Powers, L, B) = Mass(Powers, R, B) + p * x + (2 * p) * y
      BY <1>6, <1>7, <2>1
    <2>4. p * x + (2 * p) * y = p * (x + 2 * y)
      OBVIOUS
    <2>5. \A z \in -1..1 : p * z \in -p..p
      OBVIOUS
    <2>6. p * (x + 2 * y) \in -p..p
      BY <2>2, <2>5
    <2>7. p * x \in Int /\ (2 * p) * y \in Int /\ Mass(Powers, R, B) \in Int
      BY <1>9
    <2>8. PICK z \in -p..p : z = p * x + (2 * p) * y
      BY <2>4, <2>6
    <2>9. Mass(Powers, L, B) = Mass(Powers, R, B) + z
      BY <2>3, <2>7, <2>8
    <2> QED BY <2>7, <2>9 DEF Weight
  <1> QED BY <1>7, <1>10, <1>12, <1>13, <1>14

\* Weights are natural numbers.
LEMMA MassNat ==
  ASSUME NEW levels \in Stacks
  PROVE  /\ \A B : Weight(levels, B) \in Nat
         /\ Retained(levels) \in Nat /\ TotalWeight(levels) \in Nat
  <1>1. Len(levels) \in Nat
    BY LevelType
  <1>2. \A B, g : g \in Gains => Mass(g, levels, B) \in Nat
    <2>1. \A B, g : g \in Gains => SumTo(Masses(g, levels, B), Len(levels)) \in Nat
      BY <1>1, MassType
    <2> QED BY <2>1 DEF Mass, SumTo, Heights
  <1> QED BY <1>2, ItemMass, GainsType DEF Weight

\* One level of a proper stack is halved, with a new one above it if it is the
\* highest.
LEMMA CompressedLevels ==
  ASSUME NEW levels, Proper(levels), NEW h \in Heights(levels), NEW sorted,
         sorted => Sorted(Level(levels, 0)), Len(Level(levels, h)) >= 2,
         NEW L \in HalvedUp(Room(levels, h), h, sorted)
  PROVE  /\ Proper(L) /\ Len(L) = Len(Room(levels, h))
         /\ sorted => Sorted(Level(L, 0))
         /\ Retained(L) < Retained(levels)
         /\ TotalWeight(L) = TotalWeight(levels)
         /\ \A B : Down(B) => Weight(L, B) - Weight(levels, B) \in -Power(2, h)..Power(2, h)
         /\ \A j \in Nat : j < h => Level(L, j) = Level(levels, j)
         /\ Len(Level(L, h)) <= 1
  <1> DEFINE R == Room(levels, h)
  <1>0. /\ levels \in Stacks /\ Len(levels) \in Nat /\ Len(levels) >= 1
        /\ h \in 0..(Len(levels) - 1)
        /\ \A j \in Nat : j # 0 => Sorted(Level(levels, j))
        /\ Len(levels) > 1 => Len(Level(levels, Len(levels) - 1)) >= 1
    BY LevelType DEF Proper, Heights
  <1>1. /\ R \in Stacks /\ h \in Nat /\ h + 2 <= Len(R) /\ Len(R) >= Len(levels)
        /\ \A j \in Nat : Level(R, j) = Level(levels, j)
        /\ Len(R) = IF h = Len(levels) - 1 THEN Len(levels) + 1 ELSE Len(levels)
    BY <1>0, RoomFacts
  <1> HIDE DEF R
  <1>2. Sorted(Level(R, h + 1)) /\ ((h = 0 /\ ~sorted) \/ Sorted(Level(R, h)))
    <2>1. h + 1 \in Nat /\ h + 1 # 0
      BY <1>1
    <2>2. Level(R, h + 1) = Level(levels, h + 1) /\ Level(R, h) = Level(levels, h)
      BY <1>1, <2>1
    <2>3. Sorted(Level(levels, h + 1))
      BY <1>0, <2>1
    <2>4. h # 0 => Sorted(Level(levels, h))
      BY <1>0, <1>1
    <2> QED BY <2>2, <2>3, <2>4
  <1>3. L \in HalvedUp(R, h, sorted)
    BY DEF R
  <1>4. /\ L \in Stacks /\ Len(L) = Len(R)
        /\ \A j \in Nat : j # h /\ j # h + 1 => Level(L, j) = Level(R, j)
        /\ Len(Level(L, h)) = Len(Level(R, h)) % 2
        /\ Len(Level(L, h + 1)) = Len(Level(R, h + 1)) + Len(Level(R, h)) \div 2
        /\ Sorted(Level(L, h)) /\ Sorted(Level(L, h + 1))
    BY <1>1, <1>2, <1>3, HalvedLevels
  <1>5. /\ Retained(L) = Retained(R) - Len(Level(R, h)) \div 2
        /\ TotalWeight(L) = TotalWeight(R)
        /\ \A B : Down(B) => Weight(L, B) - Weight(R, B) \in -Power(2, h)..Power(2, h)
    BY <1>1, <1>2, <1>3, HalvedMass
  <1>6. /\ Retained(R) = Retained(levels) /\ TotalWeight(R) = TotalWeight(levels)
        /\ \A B : Weight(R, B) = Weight(levels, B)
    <2>1. \A B, g : g \in Gains => Mass(g, R, B) = Mass(g, levels, B)
      <3> TAKE B, g
      <3>1. HAVE g \in Gains
      <3>2. \A j \in Nat : CountIn(Level(R, j), B) = CountIn(Level(levels, j), B)
        BY <1>1
      <3> QED BY <1>0, <1>1, <3>1, <3>2, MassSame
    <2> QED BY <1>0, <1>1, <2>1, ItemMass, GainsType DEF Weight
  <1>7. PICK n \in Nat : n = Len(Level(R, h)) /\ n >= 2 /\ n \div 2 >= 1 /\ n % 2 <= 1
    <2>1. \A n \in Nat : n >= 2 => n \div 2 >= 1 /\ n % 2 <= 1
      OBVIOUS
    <2>2. Level(R, h) = Level(levels, h) /\ Len(Level(R, h)) \in Nat
      BY <1>1, LevelType
    <2> QED BY <2>1, <2>2
  <1>8. Retained(L) < Retained(levels)
    <2>1. Retained(levels) \in Nat /\ n \div 2 \in Nat
      BY <1>0, MassNat
    <2> QED BY <1>5, <1>6, <1>7, <2>1
  <1>9. Len(Level(L, h + 1)) >= 1
    <2>1. Len(Level(R, h + 1)) \in Nat
      BY <1>1, LevelType
    <2> QED BY <1>4, <1>7, <2>1
  <1>10. \A j \in Nat : j # 0 => Sorted(Level(L, j))
    <2> TAKE j \in Nat
    <2>1. CASE j = h \/ j = h + 1
      BY <1>4, <2>1
    <2>2. CASE j # h /\ j # h + 1
      BY <1>0, <1>1, <1>4, <2>2
    <2> QED BY <2>1, <2>2
  <1>11. sorted => Sorted(Level(L, 0))
    <2>1. CASE h = 0
      BY <1>4, <2>1
    <2>2. CASE h # 0
      <3>1. 0 # h /\ 0 # h + 1
        BY <1>1, <2>2
      <3> QED BY <1>1, <1>4, <3>1
    <2> QED BY <2>1, <2>2
  <1>12. Len(Level(L, Len(L) - 1)) >= 1
    <2>0. PICK t \in Nat : t = Len(L) - 1 /\ t >= h + 1
      BY <1>0, <1>1, <1>4, SMTT(30)
    <2>1. CASE t = h + 1
      BY <1>9, <2>0, <2>1
    <2>2. CASE t # h + 1
      <3>1. t # h /\ t > h + 1
        BY <1>1, <2>0, <2>2
      <3>2. h # Len(levels) - 1
        BY <1>0, <1>1, <1>4, <2>0, <3>1
      <3>3. t = Len(levels) - 1 /\ Len(levels) > 1
        BY <1>0, <1>1, <1>4, <2>0, <3>1, <3>2
      <3>4. Level(L, t) = Level(levels, t)
        BY <1>1, <1>4, <2>2, <3>1
      <3> QED BY <1>0, <2>0, <3>3, <3>4
    <2> QED BY <2>1, <2>2
  <1>13. Proper(L)
    <2>1. Len(L) >= 1
      BY <1>0, <1>1, <1>4
    <2> QED BY <1>4, <1>10, <1>12, <2>1 DEF Proper
  <1>14. \A j \in Nat : j < h => Level(L, j) = Level(levels, j)
    <2> TAKE j \in Nat
    <2>1. j < h => j # h /\ j # h + 1
      BY <1>1
    <2> QED BY <1>1, <1>4, <2>1
  <1> QED BY <1>4, <1>5, <1>6, <1>7, <1>8, <1>11, <1>13, <1>14 DEF R

----------------------------------------------------------------------------
(* Capacities *)

\* The largest of a finite set.
LEMMA MaxFacts ==
  ASSUME NEW S, IsFiniteSet(S), S # {}, S \subseteq Int
  PROVE  Max(S) \in S /\ \A x \in S : x <= Max(S)
  <1> DEFINE G == {T \in SUBSET S : T # {} => \E x \in T : \A y \in T : x >= y}
  <1>1. ASSUME NEW T \in SUBSET S, \A x \in T : T \ {x} \in G PROVE T \in G
    <2> SUFFICES ASSUME T # {} PROVE \E x \in T : \A y \in T : x >= y
      OBVIOUS
    <2>1. PICK x \in T : TRUE
      OBVIOUS
    <2>2. CASE T \ {x} = {}
      <3>1. \A y \in T : y = x
        BY <2>2
      <3> QED BY <2>1, <3>1
    <2>3. CASE T \ {x} # {}
      <3>1. PICK z \in T \ {x} : \A y \in T \ {x} : z >= y
        BY <1>1, <2>1, <2>3
      <3>2. x \in Int /\ z \in Int /\ z \in T /\ \A y \in T : y = x \/ y \in T \ {x}
        BY <2>1
      <3>3. CASE z >= x
        BY <3>1, <3>2, <3>3
      <3>4. CASE ~ (z >= x)
        <4>1. \A y \in T : x >= y
          <5> TAKE y \in T
          <5>1. y \in Int
            OBVIOUS
          <5> QED BY <3>1, <3>2, <3>4, <5>1
        <4> QED BY <2>1, <4>1
      <3> QED BY <3>3, <3>4
    <2> QED BY <2>2, <2>3
  <1>2. S \in G
    <2> HIDE DEF G
    <2> QED BY <1>1, SetInduction
  <1>3. \E x \in S : \A y \in S : x >= y
    BY <1>2
  <1> QED BY <1>3 DEF Max

\* The smallest of a finite set.
LEMMA MinFacts ==
  ASSUME NEW S, IsFiniteSet(S), S # {}, S \subseteq Int
  PROVE  Min(S) \in S /\ \A x \in S : Min(S) <= x
  <1> DEFINE G == {T \in SUBSET S : T # {} => \E x \in T : \A y \in T : x <= y}
  <1>1. ASSUME NEW T \in SUBSET S, \A x \in T : T \ {x} \in G PROVE T \in G
    <2> SUFFICES ASSUME T # {} PROVE \E x \in T : \A y \in T : x <= y
      OBVIOUS
    <2>1. PICK x \in T : TRUE
      OBVIOUS
    <2>2. CASE T \ {x} = {}
      <3>1. \A y \in T : y = x
        BY <2>2
      <3> QED BY <2>1, <3>1
    <2>3. CASE T \ {x} # {}
      <3>1. PICK z \in T \ {x} : \A y \in T \ {x} : z <= y
        BY <1>1, <2>1, <2>3
      <3>2. x \in Int /\ z \in Int /\ z \in T /\ \A y \in T : y = x \/ y \in T \ {x}
        BY <2>1
      <3>3. CASE z <= x
        BY <3>1, <3>2, <3>3
      <3>4. CASE ~ (z <= x)
        <4>1. \A y \in T : x <= y
          <5> TAKE y \in T
          <5>1. y \in Int
            OBVIOUS
          <5> QED BY <3>1, <3>2, <3>4, <5>1
        <4> QED BY <2>1, <4>1
      <3> QED BY <3>3, <3>4
    <2> QED BY <2>2, <2>3
  <1>2. S \in G
    <2> HIDE DEF G
    <2> QED BY <1>1, SetInduction
  <1>3. \E x \in S : \A y \in S : x <= y
    BY <1>2
  <1> QED BY <1>3 DEF Min

\* The larger of two.
LEMMA MaxOfTwo ==
  ASSUME NEW x \in Int, NEW y \in Int
  PROVE  Max({x, y}) = IF x <= y THEN y ELSE x
  <1>1. \E z \in {x, y} : \A w \in {x, y} : z >= w
    OBVIOUS
  <1>2. Max({x, y}) \in {x, y} /\ \A w \in {x, y} : Max({x, y}) >= w
    BY <1>1 DEF Max
  <1> QED BY <1>2

\* The smaller of two.
LEMMA MinOfTwo ==
  ASSUME NEW x \in Int, NEW y \in Int
  PROVE  Min({x, y}) = IF x <= y THEN x ELSE y
  <1>1. \E z \in {x, y} : \A w \in {x, y} : z <= w
    OBVIOUS
  <1>2. Min({x, y}) \in {x, y} /\ \A w \in {x, y} : Min({x, y}) <= w
    BY <1>1 DEF Min
  <1> QED BY <1>2

\* int_cap_aux_aux() never throws: no level is wider than k.
LEMMA IntCapAuxFacts ==
  ASSUME NEW k \in Nat, NEW d \in Nat
  PROVE  IntCapAux(k, d) \in Nat /\ IntCapAux(k, d) <= k
  <1> DEFINE G == {e \in Nat : Power(2, e) <= Power(3, e)}
  <1>1. 0 \in G
    <2>1. Power(2, 0) = 1 /\ Power(3, 0) = 1
      BY PowerDef
    <2> QED BY <2>1
  <1>2. ASSUME NEW e \in G PROVE e + 1 \in G
    <2>1. /\ Power(2, e) \in Nat /\ Power(2, e + 1) = 2 * Power(2, e)
          /\ Power(3, e) \in Nat /\ Power(3, e + 1) = 3 * Power(3, e)
      BY PowerDef
    <2> QED BY <2>1
  <1>3. Nat \subseteq G
    <2> HIDE DEF G
    <2> QED BY <1>1, <1>2, NatInductionSet
  <1>4. PICK p \in Nat : p = Power(2, d)
    BY PowerDef
  <1>5. PICK b \in Nat \ {0} : b = Power(3, d)
    BY PowerPositive
  <1>6. p <= b
    BY <1>3, <1>4, <1>5
  <1>7. PICK c \in Nat : c = 2 * k
    OBVIOUS
  <1>8. c * p \in Nat /\ c * p <= c * b
    BY <1>6
  <1>9. PICK a \in Nat : a = 2 * k * Power(2, d) /\ a <= c * b
    BY <1>4, <1>7, <1>8
  <1>10. \A x, y \in Nat, z \in Nat \ {0} : x <= y * z => x \div z \in Nat /\ x \div z <= y
    OBVIOUS
  <1>11. PICK q \in Nat : q = a \div b /\ q <= c
    BY <1>9, <1>10
  <1>12. (q + 1) \div 2 \in Nat /\ (q + 1) \div 2 <= k
    BY <1>7, <1>11
  <1> QED BY <1>5, <1>9, <1>11, <1>12 DEF IntCapAux

\* A level is no wider than k, in however many steps its width is found.
LEMMA IntCapFacts ==
  ASSUME NEW k \in Nat, NEW d \in Nat
  PROVE  IntCap(k, d) \in Nat /\ IntCap(k, d) <= k
  <1>1. PICK half \in Nat : half = d \div 2 /\ d - half \in Nat
    OBVIOUS
  <1> DEFINE j == IntCapAux(k, half)
             i == IntCapAux(j, d - half)
  <1>2. j \in Nat /\ j <= k
    BY IntCapAuxFacts
  <1> HIDE DEF j
  <1>3. i \in Nat /\ i <= j
    BY <1>1, <1>2, IntCapAuxFacts
  <1>4. IntCapAux(k, d) \in Nat /\ IntCapAux(k, d) <= k
    BY IntCapAuxFacts
  <1>5. IntCap(k, d) = IF d <= 30 THEN IntCapAux(k, d) ELSE i
    BY <1>1 DEF IntCap, j
  <1> HIDE DEF i
  <1> QED BY <1>2, <1>3, <1>4, <1>5

\* A level has room for two items at least.
LEMMA CapacityFacts ==
  ASSUME NEW k \in Nat, NEW num \in Nat, NEW h \in 0..(num - 1)
  PROVE  /\ LevelCapacity(k, num, h) \in Nat /\ LevelCapacity(k, num, h) >= 2
         /\ LevelCapacity(k, num + 1, h + 1) = LevelCapacity(k, num, h)
  <1>1. PICK d \in Nat : d = num - h - 1 /\ (num + 1) - (h + 1) - 1 = d
    OBVIOUS
  <1>6. IntCap(k, d) \in Nat
    BY IntCapFacts
  <1>7. M \in Nat /\ M >= 2
    BY KLLAssumption
  <1>8. LevelCapacity(k, num, h) = Max({M, IntCap(k, d)})
    BY <1>1 DEF LevelCapacity
  <1>9. LevelCapacity(k, num + 1, h + 1) = Max({M, IntCap(k, d)})
    BY <1>1 DEF LevelCapacity
  <1> QED BY <1>6, <1>7, <1>8, <1>9, MaxOfTwo

Caps(k, num) == [h \in Nat |-> LevelCapacity(k, num, h)]

\* The capacity of the levels below h.
CapTo(k, num, h) == SumTo(Caps(k, num), h)

\* The capacities of the levels.
LEMMA CapsValue ==
  ASSUME NEW k \in Nat, NEW num \in Nat
  PROVE  \A h \in 0..(num - 1) : Caps(k, num)[h] = LevelCapacity(k, num, h)
                                 /\ Caps(k, num)[h] \in Int /\ Caps(k, num)[h] >= 2
  <1> TAKE h \in 0..(num - 1)
  <1>1. h \in Nat
    OBVIOUS
  <1> QED BY <1>1, CapacityFacts DEF Caps

\* The capacity of one more level.
LEMMA CapToStep ==
  ASSUME NEW k \in Nat, NEW num \in Nat, NEW h \in Nat, h < num
  PROVE  /\ CapTo(k, num, h) \in Int
         /\ CapTo(k, num, h + 1) = CapTo(k, num, h) + LevelCapacity(k, num, h)
  <1> DEFINE f == Caps(k, num)
  <1>1. \A i \in 0..h : f[i] \in Int
    <2>1. \A i \in 0..h : i \in 0..(num - 1)
      OBVIOUS
    <2> QED BY <2>1, CapsValue
  <1>2. f[h] = LevelCapacity(k, num, h)
    BY DEF Caps
  <1> HIDE DEF f
  <1>3. SumTo(f, h) \in Int /\ SumTo(f, h + 1) = SumTo(f, h) + f[h]
    BY <1>1, SumToStep
  <1> QED BY <1>2, <1>3 DEF CapTo, f

\* The capacity of the lowest levels.
LEMMA CapToType ==
  ASSUME NEW k \in Nat, NEW num \in Nat, NEW h \in 0..num
  PROVE  CapTo(k, num, h) \in Nat
  <1> DEFINE S == 0..(h - 1)
             f == Caps(k, num)
  <1>1. IsFiniteSet(S)
    BY FS_Interval
  <1>2. \A i \in S : f[i] \in Nat
    <2>1. \A i \in S : i \in 0..(num - 1)
      OBVIOUS
    <2>2. \A i \in 0..(num - 1) : f[i] \in Int /\ f[i] >= 2
      BY CapsValue
    <2> QED BY <2>1, <2>2
  <1>3. SumOver(f, S) \in Nat
    <2> HIDE DEF S, f
    <2> QED BY <1>1, <1>2, SumNat
  <1> QED BY <1>3 DEF CapTo, SumTo

\* The total capacity is that of all levels.
LEMMA TotalCapacityTo ==
  ASSUME NEW k \in Nat, NEW num \in Nat
  PROVE  TotalCapacity(k, num) = CapTo(k, num, num) /\ TotalCapacity(k, num) \in Nat
  <1> DEFINE f == [h \in 0..(num - 1) |-> LevelCapacity(k, num, h)]
             g == Caps(k, num)
  <1>1. DOMAIN f = 0..(num - 1) /\ \A i \in 0..(num - 1) : f[i] \in Int /\ g[i] = f[i]
    BY CapsValue
  <1>2. SumFunction(f) = SumTo(g, num)
    <2> HIDE DEF f, g
    <2> QED BY <1>1, SumFunctionTo
  <1>3. TotalCapacity(k, num) = CapTo(k, num, num)
    BY <1>2 DEF TotalCapacity, CapTo
  <1>4. num \in 0..num
    OBVIOUS
  <1>5. CapTo(k, num, num) \in Nat
    BY <1>4, CapToType
  <1> QED BY <1>3, <1>5

\* One more level: each one keeps its capacity and a new lowest one is added.
LEMMA CapToShift ==
  ASSUME NEW k \in Nat, NEW num \in Nat, NEW h \in 0..num
  PROVE  CapTo(k, num + 1, h + 1) = LevelCapacity(k, num + 1, 0) + CapTo(k, num, h)
  <1> DEFINE c == LevelCapacity(k, num + 1, 0)
             G == {i \in 0..num : CapTo(k, num + 1, i + 1) = c + CapTo(k, num, i)}
  <1>0. c \in Nat
    BY CapacityFacts
  <1>1. 0..num \subseteq G
    <2>1. 0 \in G
      <3>1. CapTo(k, num + 1, 0) = 0 /\ CapTo(k, num, 0) = 0
        BY SumToZero DEF CapTo
      <3>2. CapTo(k, num + 1, 0 + 1) = CapTo(k, num + 1, 0) + c
        <4>1. num + 1 \in Nat /\ 0 < num + 1
          OBVIOUS
        <4> QED BY <4>1, CapToStep
      <3> QED BY <1>0, <3>1, <3>2
    <2>2. ASSUME NEW i \in 1..num, i - 1 \in G PROVE i \in G
      <3>1. PICK d \in Nat : d = i - 1 /\ i = d + 1 /\ d < num /\ d + 1 < num + 1
        OBVIOUS
      <3>2. CapTo(k, num + 1, (d + 1) + 1)
              = CapTo(k, num + 1, d + 1) + LevelCapacity(k, num + 1, d + 1)
        <4>1. num + 1 \in Nat /\ d + 1 \in Nat
          OBVIOUS
        <4> QED BY <3>1, <4>1, CapToStep
      <3>3. CapTo(k, num, d) \in Int /\ CapTo(k, num, d + 1) = CapTo(k, num, d) + LevelCapacity(k, num, d)
        BY <3>1, CapToStep
      <3>4. LevelCapacity(k, num + 1, d + 1) = LevelCapacity(k, num, d)
            /\ LevelCapacity(k, num, d) \in Nat
        <4>1. d \in 0..(num - 1)
          BY <3>1
        <4> QED BY <4>1, CapacityFacts
      <3>5. CapTo(k, num + 1, d + 1) = c + CapTo(k, num, d)
        BY <2>2, <3>1
      <3> HIDE DEF c
      <3>6. CapTo(k, num + 1, (d + 1) + 1) = c + CapTo(k, num, d + 1)
        BY <1>0, <3>2, <3>3, <3>4, <3>5
      <3> QED BY <3>1, <3>6
    <2> HIDE DEF G
    <2> QED BY <2>1, <2>2, UptoInduction
  <1> QED BY <1>1

\* A level added on top adds the capacity of the lowest level of the taller stack.
LEMMA TotalCapacityStep ==
  ASSUME NEW k \in Nat, NEW num \in Nat
  PROVE  TotalCapacity(k, num + 1) = TotalCapacity(k, num) + LevelCapacity(k, num + 1, 0)
  <1>1. num \in 0..num /\ num + 1 \in Nat
    OBVIOUS
  <1>2. CapTo(k, num + 1, num + 1) = LevelCapacity(k, num + 1, 0) + CapTo(k, num, num)
    BY <1>1, CapToShift
  <1>3. /\ TotalCapacity(k, num + 1) = CapTo(k, num + 1, num + 1)
        /\ TotalCapacity(k, num) = CapTo(k, num, num) /\ TotalCapacity(k, num) \in Nat
    BY <1>1, TotalCapacityTo
  <1>4. LevelCapacity(k, num + 1, 0) \in Nat
    BY CapacityFacts
  <1> QED BY <1>2, <1>3, <1>4

----------------------------------------------------------------------------
(* The number of levels *)

\* 2^e is above e.
LEMMA PowerAbove ==
  \A e \in Nat : Power(2, e) > e
  <1> DEFINE G == {e \in Nat : Power(2, e) > e}
  <1>1. 0 \in G
    BY PowerDef
  <1>2. ASSUME NEW e \in Nat, e \in G PROVE e + 1 \in G
    <2>1. Power(2, e) \in Nat /\ Power(2, e + 1) = 2 * Power(2, e)
      BY PowerDef
    <2>2. Power(2, e + 1) > e + 1
      BY <1>2, <2>1
    <2> QED BY <2>2
  <1>3. Nat \subseteq G
    <2> HIDE DEF G
    <2> QED BY <1>1, <1>2, NatInductionSet
  <1> QED BY <1>3

\* ub_on_num_levels() is above every e for which n reaches 2^e.
LEMMA UbFacts ==
  ASSUME NEW n \in Nat
  PROVE  /\ UbOnNumLevels(n) \in Nat /\ UbOnNumLevels(n) >= 1
         /\ \A e \in Nat : Power(2, e) <= n => e + 1 <= UbOnNumLevels(n)
  <1> DEFINE S == {d \in 0..n : Power(2, d) <= n}
  <1>1. \A e \in Nat : Power(2, e) \in Nat /\ Power(2, e) > e
    BY PowerDef, PowerAbove
  <1>2. CASE n = 0
    BY <1>1, <1>2 DEF UbOnNumLevels
  <1>3. CASE n # 0
    <2>1. IsFiniteSet(S)
      <3>1. IsFiniteSet(0..n)
        BY FS_Interval
      <3> QED BY <3>1, FS_Subset
    <2>2. 0 \in S
      BY <1>3, PowerDef
    <2>3. S \subseteq Int
      OBVIOUS
    <2>4. Max(S) \in S /\ \A x \in S : x <= Max(S)
      <3> HIDE DEF S
      <3> QED BY <2>1, <2>2, <2>3, MaxFacts
    <2>5. UbOnNumLevels(n) = 1 + Max(S)
      BY <1>3 DEF UbOnNumLevels
    <2>6. Max(S) \in Nat
      BY <2>4
    <2>7. ASSUME NEW e \in Nat, Power(2, e) <= n PROVE e + 1 <= UbOnNumLevels(n)
      <3>1. e \in S
        BY <1>1, <2>7
      <3>2. e <= Max(S)
        BY <2>4, <3>1
      <3> HIDE DEF S
      <3> QED BY <2>5, <2>6, <3>2
    <2> HIDE DEF S
    <2> QED BY <2>5, <2>6, <2>7
  <1> QED BY <1>2, <1>3

----------------------------------------------------------------------------
(* Full levels and high levels *)

\* A full buffer has a full level.
LEMMA FullExists ==
  ASSUME NEW levels \in Stacks, Len(levels) >= 1, NEW k \in Nat,
         Retained(levels) >= TotalCapacity(k, Len(levels))
  PROVE  \E h \in Heights(levels) : Len(Level(levels, h)) >= LevelCapacity(k, Len(levels), h)
  <1> DEFINE num == Len(levels)
             S == 0..(num - 1)
             f == Caps(k, num)
             g == Masses(Units, levels, Item)
  <1>1. SUFFICES ASSUME \A h \in S : ~ (Len(Level(levels, h)) >= LevelCapacity(k, num, h))
                 PROVE  FALSE
    BY DEF Heights
  <1>2. num \in Nat /\ num >= 1
    BY LevelType
  <1>3. \A h \in S : f[h] = LevelCapacity(k, num, h) /\ f[h] \in Int
    BY <1>2, CapsValue
  <1>4. \A h \in S : g[h] = Len(Level(levels, h)) /\ g[h] \in Int
    <2> TAKE h \in S
    <2>1. h \in Nat
      BY <1>2
    <2>2. g[h] = Units[h] * CountIn(Level(levels, h), Item) /\ g[h] \in Int
      BY <2>1, MassesType, GainsType
    <2>3. CountIn(Level(levels, h), Item) = Len(Level(levels, h)) /\ Len(Level(levels, h)) \in Nat
      BY <2>1, LevelType, CountItem
    <2>4. Units[h] = 1
      BY <2>1 DEF Units
    <2> QED BY <2>2, <2>3, <2>4
  <1>5. \A h \in S : g[h] + 1 <= f[h]
    BY <1>1, <1>3, <1>4
  <1>6. IsFiniteSet(S) /\ Cardinality(S) = num
    <2>1. \A m \in Nat : m >= 1 => IsFiniteSet(0..(m - 1)) /\ Cardinality(0..(m - 1)) = m
      <3> TAKE m \in Nat
      <3>1. IsFiniteSet(0..(m - 1))
        BY FS_Interval
      <3>2. m >= 1 => Cardinality(0..(m - 1)) = (m - 1) - 0 + 1
        BY FS_Interval
      <3> QED BY <3>1, <3>2
    <2> QED BY <1>2, <2>1
  <1>7. SumOver(g, S) + 1 * Cardinality(S) <= SumOver(f, S)
    <2> HIDE DEF S, f, g
    <2>1. S \in SUBSET S /\ 1 \in Nat
      OBVIOUS
    <2>2. \A h \in S : /\ f[h] \in Int /\ g[h] \in Int /\ g[h] <= f[h]
                       /\ h \in S => g[h] + 1 <= f[h]
      BY <1>3, <1>4, <1>5
    <2> QED BY <1>6, <2>1, <2>2, SumLoses
  <1>8. SumOver(g, S) = Retained(levels)
    BY ItemMass DEF Mass, Heights
  <1>9. SumOver(f, S) = TotalCapacity(k, num)
    BY <1>2, TotalCapacityTo DEF CapTo, SumTo
  <1>10. Retained(levels) \in Int /\ TotalCapacity(k, num) \in Int
    BY <1>2, MassNat, TotalCapacityTo
  <1> QED BY <1>2, <1>6, <1>7, <1>8, <1>9, <1>10

\* A level weighs no more than the stack.
LEMMA LevelWeight ==
  ASSUME NEW levels \in Stacks, NEW h \in Heights(levels), NEW B
  PROVE  Power(2, h) * CountIn(Level(levels, h), B) <= Weight(levels, B)
  <1> DEFINE f == Masses(Powers, levels, B)
             S == Heights(levels)
  <1>1. IsFiniteSet(S) /\ \A j \in S : j \in Nat
    BY HeightsFacts
  <1>2. \A j \in S : f[j] \in Nat /\ f[j] \in Int
    BY <1>1, MassesType, GainsType
  <1>3. f[h] = Power(2, h) * CountIn(Level(levels, h), B)
    BY <1>1, MassesType, GainsType DEF Powers
  <1>4. SumOver(f, S) = f[h] + SumOver(f, S \ {h})
    <2> HIDE DEF f, S
    <2>1. h \in S
      BY DEF S
    <2> QED BY <1>1, <1>2, <2>1, SumRemove
  <1>5. SumOver(f, S \ {h}) \in Nat
    <2> DEFINE T == S \ {h}
    <2>1. IsFiniteSet(T) /\ T \subseteq S
      BY <1>1, FS_Subset
    <2>2. SumOver(f, T) \in Nat
      <3> HIDE DEF f, S, T
      <3> QED BY <1>2, <2>1, SumNat
    <2> QED BY <2>2
  <1>6. Weight(levels, B) = SumOver(f, S) /\ f[h] \in Nat
    BY <1>2 DEF Weight, Mass
  <1> HIDE DEF f, S
  <1> QED BY <1>3, <1>4, <1>5, <1>6

\* The number of levels is bounded by the weight they carry.
LEMMA TopBound ==
  ASSUME NEW levels, Proper(levels)
  PROVE  /\ Len(levels) > 1 => TotalWeight(levels) >= 2
         /\ Len(levels) <= UbOnNumLevels(TotalWeight(levels))
  <1>1. levels \in Stacks /\ Len(levels) \in Nat /\ Len(levels) >= 1
    BY LevelType DEF Proper
  <1>2. TotalWeight(levels) \in Nat
    BY <1>1, MassNat
  <1>3. CASE Len(levels) = 1
    <2>1. UbOnNumLevels(TotalWeight(levels)) >= 1
      BY <1>2, UbFacts
    <2> QED BY <1>3, <2>1
  <1>4. CASE Len(levels) > 1
    <2> DEFINE e == Len(levels) - 1
               c == Len(Level(levels, e))
    <2>1. e \in Nat /\ e >= 1 /\ e \in Heights(levels) /\ e + 1 = Len(levels)
      BY <1>1, <1>4 DEF Heights
    <2>2. c \in Nat /\ c >= 1 /\ CountIn(Level(levels, e), Item) = c
      BY <1>1, <1>4, <2>1, LevelType, CountItem DEF Proper
    <2>3. Power(2, e) * c <= Weight(levels, Item)
      <3>1. Power(2, e) * CountIn(Level(levels, e), Item) <= Weight(levels, Item)
        BY <1>1, <2>1, LevelWeight
      <3> QED BY <2>2, <3>1
    <2>4. Power(2, e) \in Nat /\ Power(2, e) > e
      BY <2>1, PowerDef, PowerAbove
    <2>5. \A x, y \in Nat : y >= 1 => x * y >= x /\ x * y \in Nat
      OBVIOUS
    <2>6. Weight(levels, Item) = TotalWeight(levels)
      BY <1>1, ItemMass DEF Weight
    <2> HIDE DEF e, c
    <2>7. Power(2, e) * c >= Power(2, e) /\ Power(2, e) * c \in Nat
      BY <2>2, <2>4, <2>5
    <2>8. Power(2, e) <= TotalWeight(levels)
      BY <1>2, <2>3, <2>4, <2>6, <2>7
    <2>9. e + 1 <= UbOnNumLevels(TotalWeight(levels))
      BY <1>2, <2>1, <2>8, UbFacts
    <2>10. TotalWeight(levels) >= 2
      BY <1>2, <2>1, <2>4, <2>8
    <2> QED BY <2>1, <2>9, <2>10
  <1>5. Len(levels) = 1 \/ Len(levels) > 1
    BY <1>1
  <1> QED BY <1>3, <1>4, <1>5

----------------------------------------------------------------------------
(* The lowest level *)

WithBottom(levels, items) == [levels EXCEPT ![1] = items]

\* Only the lowest level changes.
LEMMA BottomChanged ==
  ASSUME NEW levels, Proper(levels), NEW items \in Seq(Item), NEW L,
         L = WithBottom(levels, items)
  PROVE  /\ Proper(L) /\ Len(L) = Len(levels)
         /\ Level(L, 0) = items
         /\ \A j \in Nat : j # 0 => Level(L, j) = Level(levels, j)
         /\ \A B : Weight(L, B) = Weight(levels, B)
                                    + (CountIn(items, B) - CountIn(Level(levels, 0), B))
         /\ Retained(L) = Retained(levels) + (Len(items) - Len(Level(levels, 0)))
         /\ TotalWeight(L) = TotalWeight(levels) + (Len(items) - Len(Level(levels, 0)))
  <1>1. /\ levels \in Stacks /\ Len(levels) \in Nat /\ Len(levels) >= 1
        /\ \A h \in Nat : h # 0 => Sorted(Level(levels, h))
        /\ Len(levels) > 1 => Len(Level(levels, Len(levels) - 1)) >= 1
    BY LevelType DEF Proper
  <1>2. L \in Stacks /\ Len(L) = Len(levels) /\ L[1] = items
        /\ \A j \in 1..Len(levels) : j # 1 => L[j] = levels[j]
    <2>1. 1 \in 1..Len(levels)
      BY <1>1
    <2>2. levels \in Seq(Seq(Item))
      BY <1>1 DEF Stacks
    <2>3. L \in Seq(Seq(Item)) /\ Len(L) = Len(levels)
          /\ L[1] = items /\ \A j \in 1..Len(levels) : j # 1 => L[j] = levels[j]
      BY <2>1, <2>2, ExceptSeq DEF WithBottom
    <2> QED BY <2>3 DEF Stacks
  <1>3. Level(L, 0) = items
    BY <1>1, <1>2 DEF Level
  <1>4. \A j \in Nat : j # 0 => Level(L, j) = Level(levels, j)
    <2> TAKE j \in Nat
    <2>1. HAVE j # 0
    <2>2. CASE j < Len(levels)
      <3>1. j + 1 \in 1..Len(levels) /\ j + 1 # 1
        BY <1>1, <2>1, <2>2
      <3> QED BY <1>1, <1>2, <2>2, <3>1 DEF Level
    <2>3. CASE ~ (j < Len(levels))
      BY <1>2, <2>3 DEF Level
    <2> QED BY <2>2, <2>3
  <1>5. Proper(L)
    <2>1. \A h \in Nat : h # 0 => Sorted(Level(L, h))
      BY <1>1, <1>4
    <2>2. ASSUME Len(L) > 1 PROVE Len(Level(L, Len(L) - 1)) >= 1
      <3>1. Len(levels) - 1 \in Nat /\ Len(levels) - 1 # 0
        BY <1>1, <1>2, <2>2
      <3>2. Level(L, Len(levels) - 1) = Level(levels, Len(levels) - 1)
        BY <1>4, <3>1
      <3> QED BY <1>1, <1>2, <2>2, <3>2
    <2> QED BY <1>1, <1>2, <2>1, <2>2 DEF Proper
  <1>6. 0 \in Heights(levels) /\ Apart(levels, L, 0, 0)
    <2>1. 0 \in Heights(levels)
      BY <1>1 DEF Heights
    <2>2. \A j \in Heights(levels) : j < 0 \/ j > 0 => Level(L, j) = Level(levels, j)
      <3>1. \A n \in Nat : \A j \in 0..(n - 1) : j \in Nat /\ (j < 0 \/ j > 0 => j # 0)
        OBVIOUS
      <3>2. \A j \in Heights(levels) : j \in Nat /\ (j < 0 \/ j > 0 => j # 0)
        BY <1>1, <3>1 DEF Heights
      <3> QED BY <1>4, <3>2
    <2> QED BY <1>2, <2>1, <2>2 DEF Apart
  <1>7. \A g, B : g \in Gains => Mass(g, L, B) = Mass(g, levels, B)
                    + g[0] * (CountIn(items, B) - CountIn(Level(levels, 0), B))
    <2>1. \A g, B : g \in Gains => Mass(g, L, B) = Mass(g, levels, B)
                    + g[0] * (CountIn(Level(L, 0), B) - CountIn(Level(levels, 0), B))
      BY <1>1, <1>2, <1>6, MassAt
    <2> QED BY <1>3, <2>1
  <1>8. Powers[0] = 1 /\ Units[0] = 1 /\ Powers \in Gains /\ Units \in Gains
    BY PowerDef, GainsType DEF Powers, Units
  <1>9. \A B : CountIn(items, B) \in Int /\ CountIn(Level(levels, 0), B) \in Int
    <2> TAKE B
    <2>1. Len(items) \in Nat /\ CountIn(items, B) \in 0..Len(items)
      BY LenProperties, CountType DEF CountIn
    <2>2. CountIn(Level(levels, 0), B) \in Nat
      BY <1>1, <1>8, MassesType
    <2> QED BY <2>1, <2>2
  <1>10. \A d \in Int : 1 * d = d
    OBVIOUS
  <1>11. \A B : /\ Mass(Powers, L, B) = Mass(Powers, levels, B)
                                    + (CountIn(items, B) - CountIn(Level(levels, 0), B))
                /\ Mass(Units, L, B) = Mass(Units, levels, B)
                                    + (CountIn(items, B) - CountIn(Level(levels, 0), B))
    <2> TAKE B
    <2> DEFINE d == CountIn(items, B) - CountIn(Level(levels, 0), B)
    <2>1. d \in Int
      BY <1>9
    <2>2. /\ Mass(Powers, L, B) = Mass(Powers, levels, B) + Powers[0] * d
          /\ Mass(Units, L, B) = Mass(Units, levels, B) + Units[0] * d
      BY <1>7, <1>8
    <2> HIDE DEF d
    <2>3. Powers[0] * d = d /\ Units[0] * d = d
      BY <1>8, <1>10, <2>1
    <2>4. /\ Mass(Powers, L, B) = Mass(Powers, levels, B) + d
          /\ Mass(Units, L, B) = Mass(Units, levels, B) + d
      BY <2>2, <2>3
    <2> QED BY <2>4 DEF d
  <1>12. CountIn(items, Item) = Len(items)
         /\ CountIn(Level(levels, 0), Item) = Len(Level(levels, 0))
    BY <1>1, LevelType, CountItem
  <1>13. /\ Retained(L) = Retained(levels) + (Len(items) - Len(Level(levels, 0)))
         /\ TotalWeight(L) = TotalWeight(levels) + (Len(items) - Len(Level(levels, 0)))
    BY <1>1, <1>2, <1>11, <1>12, ItemMass
  <1>14. \A B : Weight(L, B) = Weight(levels, B)
                                    + (CountIn(items, B) - CountIn(Level(levels, 0), B))
    BY <1>11 DEF Weight
  <1> QED BY <1>2, <1>3, <1>4, <1>5, <1>13, <1>14

\* A new item is added at the bottom.
LEMMA PushedLevels ==
  ASSUME NEW levels, Proper(levels), NEW x \in Item, NEW L,
         L = WithBottom(levels, << x >> \o levels[1])
  PROVE  /\ Proper(L) /\ Len(L) = Len(levels)
         /\ \A B : Weight(L, B) = Weight(levels, B) + (IF x \in B THEN 1 ELSE 0)
         /\ Retained(L) = Retained(levels) + 1
         /\ TotalWeight(L) = TotalWeight(levels) + 1
  <1>1. levels \in Stacks /\ Len(levels) \in Nat /\ Len(levels) >= 1
    BY LevelType DEF Proper
  <1>2. Level(levels, 0) = levels[1] /\ levels[1] \in Seq(Item)
    <2>1. 0 \in 0..(Len(levels) - 1) /\ 0 + 1 = 1
      BY <1>1
    <2> QED BY <1>1, <2>1, LevelType
  <1> DEFINE bottom == levels[1]
             items == << x >> \o bottom
  <1> HIDE DEF bottom
  <1>3. << x >> \in Seq(Item) /\ Len(<< x >>) = 1 /\ bottom \in Seq(Item)
        /\ bottom = Level(levels, 0)
    BY <1>2, SingleItem DEF bottom
  <1>4. items \in Seq(Item) /\ Len(items) = Len(bottom) + 1 /\ Len(bottom) \in Nat
    BY <1>3, ConcatProperties, LenProperties
  <1>5. \A B : CountIn(items, B) = (IF x \in B THEN 1 ELSE 0) + CountIn(bottom, B)
               /\ CountIn(bottom, B) \in Int
    <2> TAKE B
    <2>1. CountIn(items, B) = CountIn(<< x >>, B) + CountIn(bottom, B)
      BY <1>3, CountConcat
    <2>2. CountIn(<< x >>, B) = IF x \in B THEN 1 ELSE 0
      BY SingleItem
    <2>3. CountIn(bottom, B) \in 0..Len(bottom)
      BY <1>4, CountType DEF CountIn
    <2> QED BY <1>4, <2>1, <2>2, <2>3
  <1>6. L = WithBottom(levels, items)
    BY DEF bottom
  <1> HIDE DEF items
  <1>7. /\ Proper(L) /\ Len(L) = Len(levels)
        /\ \A B : Weight(L, B) = Weight(levels, B)
                                    + (CountIn(items, B) - CountIn(bottom, B))
        /\ Retained(L) = Retained(levels) + (Len(items) - Len(bottom))
        /\ TotalWeight(L) = TotalWeight(levels) + (Len(items) - Len(bottom))
    <2>1. /\ Proper(L) /\ Len(L) = Len(levels)
          /\ \A B : Weight(L, B) = Weight(levels, B)
                                    + (CountIn(items, B) - CountIn(Level(levels, 0), B))
          /\ Retained(L) = Retained(levels) + (Len(items) - Len(Level(levels, 0)))
          /\ TotalWeight(L) = TotalWeight(levels) + (Len(items) - Len(Level(levels, 0)))
      BY <1>4, <1>6, BottomChanged
    <2> QED BY <1>3, <2>1
  <1>8. Len(items) - Len(bottom) = 1
    BY <1>4
  <1>9. \A B : CountIn(items, B) - CountIn(bottom, B) = IF x \in B THEN 1 ELSE 0
    BY <1>5
  <1> QED BY <1>7, <1>8, <1>9

\* The stack of a new sketch.
LEMMA FreshLevels ==
  ASSUME NEW L, L = << <<>> >>
  PROVE  /\ Proper(L) /\ Len(L) = 1
         /\ \A B : Weight(L, B) = 0
         /\ Retained(L) = 0 /\ TotalWeight(L) = 0
  <1>1. L \in Stacks /\ Len(L) = 1 /\ L[1] = <<>>
    <2>1. <<>> \in Seq(Item)
      BY EmptyItems
    <2> DEFINE e == <<>>
    <2> HIDE DEF e
    <2>2. e \in Seq(Item) /\ L = << e >>
      BY <2>1 DEF e
    <2>3. L \in Seq(Seq(Item)) /\ Len(L) = 1 /\ L[1] = e
      BY <2>2
    <2> QED BY <2>3 DEF Stacks, e
  <1>2. \A j \in Nat : Level(L, j) = <<>>
    <2> TAKE j \in Nat
    <2>1. j < 1 => j + 1 = 1
      OBVIOUS
    <2> QED BY <1>1, <2>1 DEF Level
  <1>3. Heights(L) = 0..0
    BY <1>1 DEF Heights
  <1>4. \A g, B : g \in Gains => Mass(g, L, B) = 0
    <2> TAKE g, B
    <2>1. HAVE g \in Gains
    <2>2. \A j \in Heights(L) : Masses(g, L, B)[j] = 0
      <3> TAKE j \in Heights(L)
      <3>1. j \in Nat
        BY <1>3
      <3>2. CountIn(Level(L, j), B) = 0
        BY <1>2, <3>1, EmptyItems
      <3>3. Masses(g, L, B)[j] = g[j] * CountIn(Level(L, j), B) /\ g[j] \in Nat
        BY <1>1, <2>1, <3>1, MassesType, GainsType
      <3>4. \A v \in Nat : v * 0 = 0
        OBVIOUS
      <3> QED BY <3>2, <3>3, <3>4
    <2>3. IsFiniteSet(Heights(L))
      BY <1>1, HeightsFacts
    <2>4. SumOver(Masses(g, L, B), Heights(L)) = 0
      BY <2>2, <2>3, SumZero
    <2> QED BY <2>4 DEF Mass
  <1>5. Proper(L)
    <2>1. \A j \in Nat : Sorted(Level(L, j))
      BY <1>2, EmptyItems
    <2> QED BY <1>1, <2>1 DEF Proper
  <1> QED BY <1>1, <1>4, <1>5, ItemMass, GainsType DEF Weight


----------------------------------------------------------------------------
(* Sketches *)

Flags == BOOLEAN
Bounds == Item \cup {NoItem}
Counters == [Item -> Nat]
Views == {NoView} \cup Counters

Sketches ==
  [k : K, minK : K, n : Nat, levels : Stacks, sorted : Flags, capacity : Nat,
   min : Bounds, max : Bounds, view : Views, seen : Counters, slack : Nat, ks : SUBSET K]

\* The levels of a sketch, its buffer and its count agree.
Stacked(s) ==
  /\ s \in Sketches
  /\ Proper(s.levels)
  /\ s.sorted => Sorted(Level(s.levels, 0))
  /\ s.capacity = TotalCapacity(s.k, Len(s.levels))
  /\ Retained(s.levels) <= s.capacity
  /\ TotalWeight(s.levels) = s.n

\* What the weights of the sets of items should be.
Truths == [SUBSET Item -> Int]

Within(d, slack) == -slack <= d /\ d <= slack

Near(levels, slack, truth) ==
  \A B : Down(B) => Within(Weight(levels, B) - truth[B], slack)

Same(s, t) ==
  /\ t.k = s.k /\ t.minK = s.minK /\ t.min = s.min /\ t.max = s.max
  /\ t.view = s.view /\ t.seen = s.seen

Depth(s) == Len(s.levels)

\* t is s with more items: what is halved is counted.
Grown(s, t) ==
  /\ Same(s, t)
  /\ Depth(s) <= Depth(t)
  /\ t.ks \subseteq s.ks \cup {s.k}
  /\ Depth(t) = 1 => t.slack = s.slack /\ t.ks = s.ks

\* Widths are positive.
LEMMA KFacts == \A k \in K : k \in Nat /\ k \in Int /\ k >= 1
  BY KLLAssumption

\* The fields of a sketch.
LEMMA SketchTypes ==
  ASSUME NEW s \in Sketches
  PROVE  /\ s.k \in K /\ s.minK \in K /\ s.n \in Nat /\ s.levels \in Stacks
         /\ s.capacity \in Nat /\ s.min \in Bounds /\ s.max \in Bounds /\ s.view \in Views
         /\ s.seen \in Counters /\ s.slack \in Nat /\ s.ks \in SUBSET K
         /\ s.sorted \in Flags
  BY DEF Sketches

\* A sketch has a level at least.
LEMMA DepthType ==
  ASSUME NEW s, Stacked(s)
  PROVE  Depth(s) \in Nat /\ Depth(s) >= 1
  BY LevelType DEF Stacked, Proper, Depth

\* Growing twice is growing.
LEMMA GrownStep ==
  ASSUME NEW s, NEW t, NEW u, Stacked(s), Stacked(t), Stacked(u), Grown(s, t), Grown(t, u)
  PROVE  Grown(s, u)
  <1>1. /\ Depth(s) \in Nat /\ Depth(t) \in Nat /\ Depth(u) \in Nat
        /\ Depth(s) >= 1 /\ Depth(t) >= 1
    BY DepthType
  <1>2. Same(s, u)
    BY DEF Grown, Same
  <1>3. Depth(s) <= Depth(t) /\ Depth(t) <= Depth(u)
    BY DEF Grown
  <1>4. u.ks \subseteq s.ks \cup {s.k}
    BY DEF Grown, Same
  <1>5. ASSUME Depth(u) = 1 PROVE u.slack = s.slack /\ u.ks = s.ks
    <2>1. Depth(t) = 1
      BY <1>1, <1>3, <1>5
    <2> QED BY <1>5, <2>1 DEF Grown
  <1>6. Depth(s) <= Depth(u)
    BY <1>1, <1>3
  <1> QED BY <1>2, <1>4, <1>5, <1>6 DEF Grown

\* A sketch has grown from itself.
LEMMA GrownRefl ==
  ASSUME NEW s, Stacked(s)
  PROVE  Grown(s, s)
  <1>1. Depth(s) <= Depth(s) /\ s.ks \subseteq s.ks \cup {s.k}
    BY DepthType
  <1> QED BY <1>1 DEF Grown, Same

----------------------------------------------------------------------------
(* Records *)

SetLevels(s, L, c) == [s EXCEPT !.levels = L, !.capacity = c]
SetHalved(s, L, d, e) == [s EXCEPT !.levels = L, !.slack = d, !.ks = e]
SetPushed(s, L, m, b) == [s EXCEPT !.levels = L, !.n = m, !.sorted = b]

\* A sketch with other levels.
LEMMA WithLevels ==
  ASSUME NEW s \in Sketches, NEW L \in Stacks, NEW c \in Nat, NEW t,
         t = SetLevels(s, L, c)
  PROVE  /\ t \in Sketches /\ t.levels = L /\ t.capacity = c
         /\ Same(s, t) /\ t.n = s.n /\ t.sorted = s.sorted /\ t.slack = s.slack /\ t.ks = s.ks
  BY DEF Sketches, Same, SetLevels

\* A sketch with a halved level.
LEMMA WithHalved ==
  ASSUME NEW s \in Sketches, NEW L \in Stacks, NEW d \in Nat, NEW e \in SUBSET K, NEW t,
         t = SetHalved(s, L, d, e)
  PROVE  /\ t \in Sketches /\ t.levels = L /\ t.slack = d /\ t.ks = e
         /\ Same(s, t) /\ t.n = s.n /\ t.sorted = s.sorted /\ t.capacity = s.capacity
  BY DEF Sketches, Same, SetHalved

\* A sketch with an item pushed.
LEMMA WithPushed ==
  ASSUME NEW s \in Sketches, NEW L \in Stacks, NEW m \in Nat, NEW b \in Flags, NEW t,
         t = SetPushed(s, L, m, b)
  PROVE  /\ t \in Sketches /\ t.levels = L /\ t.n = m /\ t.sorted = b
         /\ Same(s, t) /\ t.capacity = s.capacity /\ t.slack = s.slack /\ t.ks = s.ks
  BY DEF Sketches, Same, SetPushed

----------------------------------------------------------------------------
(* One more item *)

\* A level is added when the highest one is halved.
Roomy(s, h) == IF h = Len(s.levels) - 1 THEN WithTopLevel(s) ELSE s

\* The room that compress_while_updating() makes above the highest level.
LEMMA RoomyFacts ==
  ASSUME NEW s, Stacked(s), NEW h \in Heights(s.levels), NEW t, t = Roomy(s, h)
  PROVE  /\ t \in Sketches /\ t.levels = Room(s.levels, h)
         /\ t.capacity = TotalCapacity(t.k, Len(t.levels)) /\ t.capacity >= s.capacity
         /\ Same(s, t) /\ t.n = s.n /\ t.sorted = s.sorted /\ t.slack = s.slack /\ t.ks = s.ks
  <1> DEFINE num == Len(s.levels)
  <1>1. s \in Sketches /\ s.levels \in Stacks /\ num \in Nat /\ s.k \in Nat
        /\ s.capacity = TotalCapacity(s.k, num)
    BY SketchTypes, LevelType, KFacts DEF Stacked
  <1>2. CASE h = num - 1
    <2> DEFINE L == Append(s.levels, <<>>)
               c == s.capacity + LevelCapacity(s.k, num + 1, 0)
    <2>1. L \in Stacks /\ Len(L) = num + 1
      BY <1>1, AppendLevel
    <2>2. /\ c = TotalCapacity(s.k, num + 1)
          /\ LevelCapacity(s.k, num + 1, 0) \in Nat /\ s.capacity \in Nat
      <3>1. c = TotalCapacity(s.k, num + 1)
        BY <1>1, TotalCapacityStep
      <3>2. num + 1 \in Nat /\ 0 \in 0..((num + 1) - 1)
        BY <1>1
      <3>3. LevelCapacity(s.k, num + 1, 0) \in Nat
        BY <1>1, <3>2, CapacityFacts
      <3> QED BY <1>1, <3>1, <3>3, SketchTypes
    <2>3. c \in Nat /\ c >= s.capacity
      BY <2>2
    <2>4. t = SetLevels(s, L, c)
      BY <1>2 DEF Roomy, WithTopLevel, SetLevels
    <2>5. L = Room(s.levels, h)
      BY <1>2 DEF Room
    <2> HIDE DEF L, c
    <2>6. /\ t \in Sketches /\ t.levels = L /\ t.capacity = c
          /\ Same(s, t) /\ t.n = s.n /\ t.sorted = s.sorted /\ t.slack = s.slack /\ t.ks = s.ks
      <3>1. s \in Sketches /\ L \in Stacks /\ c \in Nat
        BY <1>1, <2>1, <2>3
      <3> QED BY <2>4, <3>1, WithLevels
    <2>7. t.k = s.k
      BY <2>6 DEF Same
    <2> QED BY <2>1, <2>2, <2>3, <2>5, <2>6, <2>7
  <1>3. CASE h # num - 1
    <2>1. t = s
      BY <1>3 DEF Roomy
    <2>2. s.levels = Room(s.levels, h)
      BY <1>3 DEF Room
    <2>3. s.capacity \in Nat
      BY <1>1, SketchTypes
    <2> QED BY <1>1, <2>1, <2>2, <2>3 DEF Same
  <1> QED BY <1>2, <1>3

\* compress_while_updating() on a full sketch: it stays well stacked, makes room,
\* and counts what it moved.
LEMMA CompressedFacts ==
  ASSUME NEW s, Stacked(s), Free(s) = 0, NEW truth \in Truths,
         Near(s.levels, s.slack, truth), NEW t \in Compressed(s)
  PROVE  /\ Stacked(t) /\ Grown(s, t) /\ Near(t.levels, t.slack, truth)
         /\ Retained(t.levels) < t.capacity /\ t.n = s.n
  <1> DEFINE num == Len(s.levels)
             full == FullLevels(s)
             h == Min(full)
             r == Roomy(s, h)
  <1>1. /\ s \in Sketches /\ s.levels \in Stacks /\ num \in Nat /\ num >= 1 /\ s.k \in Nat
        /\ s.k \in K /\ Proper(s.levels)
        /\ s.capacity = TotalCapacity(s.k, num) /\ s.capacity \in Nat
        /\ Retained(s.levels) \in Nat /\ s.slack \in Nat /\ s.ks \in SUBSET K
    BY SketchTypes, LevelType, KFacts, MassNat DEF Stacked, Proper
  <1>2. Retained(s.levels) = s.capacity
    BY <1>1 DEF Free
  <1>3. full # {} /\ full \subseteq Heights(s.levels)
    <2>1. \E i \in Heights(s.levels) : Len(Level(s.levels, i)) >= LevelCapacity(s.k, num, i)
      BY <1>1, <1>2, FullExists
    <2> QED BY <2>1 DEF FullLevels
  <1>4. h \in full
    <2>1. Heights(s.levels) \subseteq Int /\ IsFiniteSet(Heights(s.levels))
      <3>1. \A i \in Heights(s.levels) : i \in Nat
        BY <1>1, HeightsFacts
      <3> QED BY <1>1, <3>1, HeightsFacts
    <2>2. IsFiniteSet(full)
      BY <1>3, <2>1, FS_Subset
    <2> HIDE DEF full
    <2> QED BY <1>3, <2>1, <2>2, MinFacts
  <1>5. h \in Heights(s.levels) /\ Len(Level(s.levels, h)) >= LevelCapacity(s.k, num, h)
    BY <1>4 DEF FullLevels
  <1>6. h \in Nat /\ h \in 0..(num - 1) /\ Len(Level(s.levels, h)) \in Nat
    <2>1. h \in Nat /\ h \in 0..(num - 1)
      BY <1>1, <1>5, HeightsFacts DEF Heights
    <2> QED BY <1>1, <2>1, LevelType
  <1>7. PICK L \in HalvedUp(r.levels, h, s.sorted) :
          t = SetHalved(r, L, r.slack + Power(2, h), r.ks \cup {s.k})
    BY Zenon DEF Compressed, Roomy, SetHalved
  <1> HIDE DEF full, h, r
  <1>8. Len(Level(s.levels, h)) >= 2
    <2>1. LevelCapacity(s.k, num, h) \in Nat /\ LevelCapacity(s.k, num, h) >= 2
      BY <1>1, <1>6, CapacityFacts
    <2> QED BY <1>5, <1>6, <2>1
  <1>9. /\ r \in Sketches /\ r.levels = Room(s.levels, h)
        /\ r.capacity = TotalCapacity(r.k, Len(r.levels)) /\ r.capacity >= s.capacity
        /\ Same(s, r) /\ r.n = s.n /\ r.sorted = s.sorted /\ r.slack = s.slack /\ r.ks = s.ks
    BY <1>5, RoomyFacts DEF r
  <1>10. s.sorted => Sorted(Level(s.levels, 0))
    BY DEF Stacked
  <1>11. /\ Proper(L) /\ Len(L) = Len(Room(s.levels, h))
         /\ s.sorted => Sorted(Level(L, 0))
         /\ Retained(L) < Retained(s.levels)
         /\ TotalWeight(L) = TotalWeight(s.levels)
         /\ \A B : Down(B) => Weight(L, B) - Weight(s.levels, B) \in -Power(2, h)..Power(2, h)
    BY <1>1, <1>5, <1>7, <1>8, <1>9, <1>10, CompressedLevels
  <1> DEFINE d == s.slack + Power(2, h)
             e == s.ks \cup {s.k}
  <1>12. Power(2, h) \in Nat /\ d \in Nat /\ e \in SUBSET K /\ L \in Stacks
    <2>1. Power(2, h) \in Nat
      BY <1>6, PowerDef
    <2> QED BY <1>1, <1>11, <2>1 DEF Proper
  <1>13. t = SetHalved(r, L, d, e)
    BY <1>7, <1>9
  <1> HIDE DEF d, e
  <1>14. /\ t \in Sketches /\ t.levels = L /\ t.slack = d /\ t.ks = e
         /\ Same(r, t) /\ t.n = r.n /\ t.sorted = r.sorted /\ t.capacity = r.capacity
    BY <1>9, <1>12, <1>13, WithHalved
  <1>15. Same(s, t)
    BY <1>9, <1>14 DEF Same
  <1>16. Depth(s) <= Depth(t) /\ Depth(t) # 1
    <2>1. Len(Room(s.levels, h)) >= num /\ h + 2 <= Len(Room(s.levels, h))
      BY <1>1, <1>5, RoomFacts
    <2>2. Depth(t) = Len(Room(s.levels, h)) /\ Depth(s) = num
      BY <1>11, <1>14 DEF Depth
    <2>3. Len(L) \in Nat
      BY <1>12, LevelType
    <2>4. Len(Room(s.levels, h)) \in Nat
      BY <1>11, <2>3
    <2> DEFINE a == Len(Room(s.levels, h))
    <2> HIDE DEF a, num
    <2>5. a \in Nat /\ num \in Nat /\ a >= num /\ h + 2 <= a /\ Depth(t) = a /\ Depth(s) = num
      BY <1>1, <2>1, <2>2, <2>4 DEF a
    <2> QED BY <1>6, <2>5
  <1>17. Grown(s, t)
    <2>1. t.ks \subseteq s.ks \cup {s.k}
      BY <1>14 DEF e
    <2> QED BY <1>15, <1>16, <2>1 DEF Grown
  <1>18. t.capacity = TotalCapacity(t.k, Len(t.levels))
    BY <1>9, <1>11, <1>14 DEF Same
  <1>19. Retained(t.levels) < t.capacity /\ Retained(t.levels) \in Nat /\ t.capacity \in Nat
    <2>1. Retained(L) \in Nat /\ r.capacity \in Nat
      BY <1>9, <1>12, MassNat, SketchTypes
    <2> QED BY <1>1, <1>2, <1>9, <1>11, <1>14, <2>1
  <1>20. Stacked(t)
    <2>1. t.sorted => Sorted(Level(t.levels, 0))
      BY <1>9, <1>11, <1>14
    <2>2. TotalWeight(t.levels) = t.n
      BY <1>9, <1>11, <1>14 DEF Stacked
    <2>3. Retained(t.levels) <= t.capacity
      BY <1>19
    <2> QED BY <1>11, <1>14, <1>18, <2>1, <2>2, <2>3 DEF Stacked
  <1>21. Near(t.levels, t.slack, truth)
    <2> SUFFICES ASSUME NEW B, Down(B)
                 PROVE  Within(Weight(L, B) - truth[B], d)
      BY <1>14 DEF Near
    <2>1. Within(Weight(s.levels, B) - truth[B], s.slack)
      BY DEF Near
    <2>2. Weight(L, B) - Weight(s.levels, B) \in -Power(2, h)..Power(2, h)
      BY <1>11
    <2>3. Weight(L, B) \in Nat /\ Weight(s.levels, B) \in Nat
      BY <1>1, <1>12, MassNat
    <2>4. truth[B] \in Int
      BY DEF Truths, Down
    <2>5. \A u, v, w \in Int : \A x, y \in Nat :
            (-x <= v - w /\ v - w <= x) /\ u - v \in (-y)..y
              => -(x + y) <= u - w /\ u - w <= x + y
      OBVIOUS
    <2> DEFINE u == Weight(L, B)
               v == Weight(s.levels, B)
               w == truth[B]
               y == Power(2, h)
    <2>6. u \in Int /\ v \in Int /\ w \in Int /\ s.slack \in Nat /\ y \in Nat
          /\ -s.slack <= v - w /\ v - w <= s.slack /\ u - v \in (-y)..y
      BY <1>1, <1>12, <2>1, <2>2, <2>3, <2>4 DEF Within
    <2> HIDE DEF u, v, w, y
    <2>7. -(s.slack + y) <= u - w /\ u - w <= s.slack + y
      BY <2>5, <2>6
    <2> QED BY <2>7 DEF Within, d, u, w, y
  <1> QED BY <1>9, <1>14, <1>17, <1>19, <1>20, <1>21

Plus(truth, x) == [B \in SUBSET Item |-> truth[B] + (IF x \in B THEN 1 ELSE 0)]

\* The truth with one more item.
LEMMA PlusFacts ==
  ASSUME NEW truth \in Truths, NEW x
  PROVE  /\ Plus(truth, x) \in Truths
         /\ \A B : Down(B) => /\ truth[B] \in Int
                              /\ Plus(truth, x)[B] = truth[B] + (IF x \in B THEN 1 ELSE 0)
  <1>1. \A B \in SUBSET Item : truth[B] \in Int
    BY DEF Truths
  <1>2. \A B \in SUBSET Item : /\ (IF x \in B THEN 1 ELSE 0) \in Int
                               /\ truth[B] + (IF x \in B THEN 1 ELSE 0) \in Int
    BY <1>1
  <1>3. Plus(truth, x) \in Truths
    BY <1>2 DEF Plus, Truths
  <1>4. \A B \in SUBSET Item : Plus(truth, x)[B] = truth[B] + (IF x \in B THEN 1 ELSE 0)
    BY DEF Plus
  <1> QED BY <1>1, <1>3, <1>4 DEF Down

\* internal_update() absorbs its item, in every outcome.
LEMMA InsertedFacts ==
  ASSUME NEW s, Stacked(s), NEW x \in Item, NEW truth \in Truths,
         Near(s.levels, s.slack, truth), NEW t \in Inserted(s, x)
  PROVE  /\ Stacked(t) /\ Grown(s, t) /\ Near(t.levels, t.slack, Plus(truth, x))
         /\ t.n = s.n + 1 /\ t.sorted = FALSE
  <1>1. PICK u \in IF Free(s) = 0 THEN Compressed(s) ELSE {s} :
          t = SetPushed(u, WithBottom(u.levels, << x >> \o u.levels[1]), u.n + 1, FALSE)
    BY Zenon DEF Inserted, SetPushed, WithBottom
  <1>2. /\ Stacked(u) /\ Grown(s, u) /\ Near(u.levels, u.slack, truth)
        /\ Retained(u.levels) < u.capacity /\ u.n = s.n
    <2>1. CASE Free(s) = 0
      BY <1>1, <2>1, CompressedFacts
    <2>2. CASE Free(s) # 0
      <3>1. u = s
        BY <1>1, <2>2
      <3>2. Retained(s.levels) \in Nat /\ s.capacity \in Nat /\ Retained(s.levels) <= s.capacity
        BY SketchTypes, MassNat DEF Stacked
      <3>3. Retained(s.levels) < s.capacity
        BY <2>2, <3>2 DEF Free
      <3> QED BY <3>1, <3>3, GrownRefl
    <2> QED BY <2>1, <2>2
  <1> DEFINE L == WithBottom(u.levels, << x >> \o u.levels[1])
             m == u.n + 1
             off == FALSE
  <1>3. /\ Proper(L) /\ Len(L) = Len(u.levels)
        /\ \A B : Weight(L, B) = Weight(u.levels, B) + (IF x \in B THEN 1 ELSE 0)
        /\ Retained(L) = Retained(u.levels) + 1
        /\ TotalWeight(L) = TotalWeight(u.levels) + 1
    BY <1>2, PushedLevels DEF Stacked
  <1>4. u \in Sketches /\ L \in Stacks /\ u.n \in Nat /\ m \in Nat /\ off \in Flags
    <2>1. u \in Sketches /\ u.n \in Nat
      BY <1>2, SketchTypes DEF Stacked
    <2> QED BY <1>3, <2>1 DEF Proper, Flags
  <1>5. t = SetPushed(u, L, m, off)
    BY <1>1
  <1> HIDE DEF L, m, off
  <1>6. /\ t \in Sketches /\ t.levels = L /\ t.n = m /\ t.sorted = off
        /\ Same(u, t) /\ t.capacity = u.capacity /\ t.slack = u.slack /\ t.ks = u.ks
    BY <1>4, <1>5, WithPushed
  <1>7. Stacked(t)
    <2>1. t.capacity = TotalCapacity(t.k, Len(t.levels))
      BY <1>2, <1>3, <1>6 DEF Stacked, Same
    <2>2. Retained(L) <= t.capacity
      <3>1. Retained(u.levels) \in Nat /\ u.capacity \in Nat
        BY <1>4, MassNat, SketchTypes
      <3> QED BY <1>2, <1>3, <1>6, <3>1
    <2>3. TotalWeight(u.levels) = u.n
      BY <1>2 DEF Stacked
    <2>4. TotalWeight(L) = t.n
      BY <1>3, <1>6, <2>3 DEF m
    <2> QED BY <1>3, <1>6, <2>1, <2>2, <2>4 DEF Stacked, off
  <1>8. Grown(u, t)
    <2>1. Depth(t) = Depth(u)
      BY <1>3, <1>6 DEF Depth
    <2>2. Depth(u) <= Depth(t)
      BY <1>2, <2>1, DepthType
    <2> QED BY <1>6, <2>2 DEF Grown
  <1>9. Grown(s, t)
    BY <1>2, <1>7, <1>8, GrownStep
  <1>10. Near(t.levels, t.slack, Plus(truth, x))
    <2> SUFFICES ASSUME NEW B, Down(B)
                 PROVE  Within(Weight(L, B) - Plus(truth, x)[B], u.slack)
      BY <1>6 DEF Near
    <2> DEFINE v == Weight(u.levels, B)
               d == IF x \in B THEN 1 ELSE 0
    <2>1. Within(v - truth[B], u.slack)
      BY <1>2 DEF Near
    <2>2. Weight(L, B) = v + d /\ v \in Nat
      BY <1>3, <1>4, MassNat, SketchTypes
    <2>3. Plus(truth, x)[B] = truth[B] + d /\ truth[B] \in Int
      BY PlusFacts
    <2>4. d \in Int
      OBVIOUS
    <2> HIDE DEF v, d
    <2>5. Weight(L, B) - Plus(truth, x)[B] = v - truth[B]
      BY <2>2, <2>3, <2>4
    <2> QED BY <2>1, <2>5
  <1>11. t.n = s.n + 1 /\ t.sorted = FALSE
    BY <1>2, <1>6 DEF m, off
  <1> QED BY <1>7, <1>9, <1>10, <1>11

----------------------------------------------------------------------------
(* The items of the lowest level of another sketch *)

Feeding(f, s, items, n) ==
  f = [i \in 0..n |-> IF i = 0 THEN {s} ELSE UNION {Inserted(u, items[i]) : u \in f[i - 1]}]

\* The outcomes of feeding items one by one are defined.
LEMMA FeedingExists ==
  ASSUME NEW s, NEW items
  PROVE  \A n \in Nat : \E f : Feeding(f, s, items, n)
  <1> DEFINE G == {n \in Nat : \E f : Feeding(f, s, items, n)}
  <1>1. 0 \in G
    <2> DEFINE f == [i \in 0..0 |-> {s}]
    <2>1. Feeding(f, s, items, 0)
      <3>1. \A i \in 0..0 : i = 0
        OBVIOUS
      <3> QED BY <3>1 DEF Feeding
    <2> HIDE DEF f
    <2> QED BY <2>1
  <1>2. ASSUME NEW n \in Nat, n \in G PROVE n + 1 \in G
    <2>1. PICK f : Feeding(f, s, items, n)
      BY <1>2
    <2> DEFINE next(i) == UNION {Inserted(u, items[i]) : u \in f[i - 1]}
               g == [i \in 0..(n + 1) |-> IF i = 0 THEN {s} ELSE next(i)]
    <2>2. \A i \in 0..n : f[i] = IF i = 0 THEN {s} ELSE next(i)
      BY <2>1 DEF Feeding
    <2>3. \A i \in 0..n : g[i] = f[i]
      <3> TAKE i \in 0..n
      <3>1. i \in 0..(n + 1)
        OBVIOUS
      <3>2. g[i] = IF i = 0 THEN {s} ELSE next(i)
        BY <3>1
      <3> HIDE DEF g, next
      <3> QED BY <2>2, <3>2
    <2>4. \A i \in 0..(n + 1) : i # 0 => i - 1 \in 0..n
      OBVIOUS
    <2>5. \A i \in 0..(n + 1) : i # 0 => g[i - 1] = f[i - 1]
      <3> HIDE DEF g
      <3> QED BY <2>3, <2>4
    <2>6. \A i \in 0..(n + 1) :
            (IF i = 0 THEN {s} ELSE next(i))
              = IF i = 0 THEN {s} ELSE UNION {Inserted(u, items[i]) : u \in g[i - 1]}
      <3> HIDE DEF g
      <3> QED BY <2>5
    <2>7. Feeding(g, s, items, n + 1)
      <3>1. g = [i \in 0..(n + 1) |-> IF i = 0 THEN {s} ELSE next(i)]
        OBVIOUS
      <3> HIDE DEF g, next
      <3>2. [i \in 0..(n + 1) |-> IF i = 0 THEN {s} ELSE next(i)]
              = [i \in 0..(n + 1) |->
                   IF i = 0 THEN {s} ELSE UNION {Inserted(u, items[i]) : u \in g[i - 1]}]
        BY <2>6
      <3> QED BY <3>1, <3>2 DEF Feeding
    <2> HIDE DEF g
    <2> QED BY <2>7
  <1>3. Nat \subseteq G
    <2> HIDE DEF G
    <2> QED BY <1>1, <1>2, NatInductionSet
  <1> QED BY <1>3

\* What WithItems unfolds to.
LEMMA WithItemsDef ==
  ASSUME NEW s, NEW items \in Seq(Item)
  PROVE  \E f : Feeding(f, s, items, Len(items)) /\ WithItems(s, items) = f[Len(items)]
  <1> DEFINE F == CHOOSE f : Feeding(f, s, items, Len(items))
  <1>1. Len(items) \in Nat
    BY LenProperties
  <1>2. \E f : Feeding(f, s, items, Len(items))
    BY <1>1, FeedingExists
  <1>3. Feeding(F, s, items, Len(items))
    BY <1>2
  <1>4. WithItems(s, items) = F[Len(items)]
    BY DEF WithItems, Feeding
  <1> HIDE DEF F
  <1> QED BY <1>3, <1>4

\* The truth once the first i items are in.
FedTruth(truth, items, i) == [B \in SUBSET Item |-> truth[B] + CountTo(items, i, B)]

\* The truth while the items are fed.
LEMMA FedTruthFacts ==
  ASSUME NEW truth \in Truths, NEW items \in Seq(Item)
  PROVE  /\ FedTruth(truth, items, 0) = truth
         /\ \A i \in Nat : /\ FedTruth(truth, items, i) \in Truths
                           /\ FedTruth(truth, items, i + 1)
                                = Plus(FedTruth(truth, items, i), items[i + 1])
  <1>1. \A B \in SUBSET Item : truth[B] \in Int
    BY DEF Truths
  <1>2. \A B \in SUBSET Item : \A i \in Nat : CountTo(items, i, B) \in Int
    BY CountType
  <1>3. FedTruth(truth, items, 0) = truth
    <2>1. \A B \in SUBSET Item : truth[B] + CountTo(items, 0, B) = truth[B]
      BY <1>1, CountZero
    <2>2. truth = [B \in SUBSET Item |-> truth[B]]
      BY DEF Truths
    <2> QED BY <2>1, <2>2 DEF FedTruth
  <1>4. ASSUME NEW i \in Nat
        PROVE  /\ FedTruth(truth, items, i) \in Truths
               /\ FedTruth(truth, items, i + 1) = Plus(FedTruth(truth, items, i), items[i + 1])
    <2>1. FedTruth(truth, items, i) \in Truths
      <3>1. \A B \in SUBSET Item : truth[B] + CountTo(items, i, B) \in Int
        BY <1>1, <1>2
      <3> QED BY <3>1 DEF FedTruth, Truths
    <2>2. \A B \in SUBSET Item : FedTruth(truth, items, i)[B] = truth[B] + CountTo(items, i, B)
      BY DEF FedTruth
    <2>3. \A B \in SUBSET Item :
            truth[B] + CountTo(items, i + 1, B)
              = FedTruth(truth, items, i)[B] + (IF items[i + 1] \in B THEN 1 ELSE 0)
      <3> TAKE B \in SUBSET Item
      <3> DEFINE d == IF items[i + 1] \in B THEN 1 ELSE 0
      <3>1. CountTo(items, i + 1, B) = CountTo(items, i, B) + d
        BY CountStep
      <3>2. d \in Int
        OBVIOUS
      <3> HIDE DEF d
      <3>3. truth[B] + CountTo(items, i + 1, B) = FedTruth(truth, items, i)[B] + d
        BY <1>1, <1>2, <2>2, <3>1, <3>2
      <3> QED BY <3>3 DEF d
    <2>4. FedTruth(truth, items, i + 1)
            = [B \in SUBSET Item |->
                 FedTruth(truth, items, i)[B] + (IF items[i + 1] \in B THEN 1 ELSE 0)]
      BY <2>3 DEF FedTruth
    <2> QED BY <2>1, <2>4 DEF Plus
  <1> QED BY <1>3, <1>4

Fed(u, s, truth, items, i) ==
  /\ Stacked(u) /\ Grown(s, u)
  /\ Near(u.levels, u.slack, FedTruth(truth, items, i))
  /\ u.n = s.n + i

\* Level zero of another sketch is absorbed item by item.
LEMMA WithItemsFacts ==
  ASSUME NEW s, Stacked(s), NEW items \in Seq(Item), NEW truth \in Truths,
         Near(s.levels, s.slack, truth), NEW t \in WithItems(s, items)
  PROVE  Fed(t, s, truth, items, Len(items))
  <1>1. PICK f : Feeding(f, s, items, Len(items)) /\ WithItems(s, items) = f[Len(items)]
    BY WithItemsDef
  <1> DEFINE N == Len(items)
             G == {i \in 0..N : \A u \in f[i] : Fed(u, s, truth, items, i)}
  <1>2. N \in Nat
    BY LenProperties
  <1>3. \A i \in 0..N :
          f[i] = IF i = 0 THEN {s} ELSE UNION {Inserted(u, items[i]) : u \in f[i - 1]}
    BY <1>1 DEF Feeding
  <1>4. 0 \in G
    <2>1. 0 \in 0..N
      BY <1>2
    <2>2. f[0] = {s}
      BY <1>3, <2>1
    <2>3. s.n = s.n + 0
      BY SketchTypes DEF Stacked
    <2>4. Fed(s, s, truth, items, 0)
      BY <2>3, FedTruthFacts, GrownRefl DEF Fed
    <2> QED BY <2>1, <2>2, <2>4
  <1>5. ASSUME NEW i \in 1..N, i - 1 \in G PROVE i \in G
    <2>1. i \in 0..N /\ i # 0 /\ i - 1 \in Nat /\ (i - 1) + 1 = i
      BY <1>2
    <2>2. f[i] = UNION {Inserted(u, items[i]) : u \in f[i - 1]}
      BY <1>3, <2>1
    <2>3. items[i] \in Item
      BY ElementOfSeq
    <2>4. FedTruth(truth, items, i) = Plus(FedTruth(truth, items, i - 1), items[i])
          /\ FedTruth(truth, items, i - 1) \in Truths
      <3> DEFINE j == i - 1
      <3>1. j \in Nat /\ j + 1 = i
        BY <2>1
      <3> HIDE DEF j
      <3>2. FedTruth(truth, items, j + 1) = Plus(FedTruth(truth, items, j), items[j + 1])
            /\ FedTruth(truth, items, j) \in Truths
        BY <3>1, FedTruthFacts
      <3>3. FedTruth(truth, items, i) = Plus(FedTruth(truth, items, j), items[i])
            /\ FedTruth(truth, items, j) \in Truths
        BY <3>1, <3>2
      <3> QED BY <3>3 DEF j
    <2>5. ASSUME NEW v \in f[i] PROVE Fed(v, s, truth, items, i)
      <3>1. PICK u \in f[i - 1] : v \in Inserted(u, items[i])
        BY <2>2
      <3>2. Fed(u, s, truth, items, i - 1)
        BY <1>5
      <3>3. /\ Stacked(u) /\ Grown(s, u)
            /\ Near(u.levels, u.slack, FedTruth(truth, items, i - 1))
            /\ u.n = s.n + (i - 1)
        BY <3>2 DEF Fed
      <3> DEFINE w == FedTruth(truth, items, i - 1)
                 x == items[i]
      <3> HIDE DEF w, x
      <3>4. /\ x \in Item /\ w \in Truths /\ Near(u.levels, u.slack, w) /\ Stacked(u)
            /\ v \in Inserted(u, x)
        BY <2>3, <2>4, <3>1, <3>3 DEF w, x
      <3>5. /\ Stacked(v) /\ Grown(u, v) /\ Near(v.levels, v.slack, Plus(w, x))
            /\ v.n = u.n + 1
        BY <3>4, InsertedFacts
      <3>6. Near(v.levels, v.slack, FedTruth(truth, items, i))
        BY <2>4, <3>5 DEF w, x
      <3>7. Grown(s, v)
        BY <3>3, <3>5, GrownStep
      <3>8. v.n = s.n + i
        <4>1. s.n \in Int /\ i \in Int
          BY <2>1, SketchTypes DEF Stacked
        <4> QED BY <3>3, <3>5, <4>1
      <3> QED BY <3>5, <3>6, <3>7, <3>8 DEF Fed
    <2> QED BY <2>1, <2>5
  <1>6. 0..N \subseteq G
    <2> HIDE DEF G, N
    <2> QED BY <1>2, <1>4, <1>5, UptoInduction
  <1>7. N \in G
    <2>1. N \in 0..N
      BY <1>2
    <2> HIDE DEF G, N
    <2> QED BY <1>6, <2>1
  <1> QED BY <1>1, <1>7

----------------------------------------------------------------------------
(* The sweep of a merge *)

\* The items of the levels below h.
RetTo(levels, h) == SumTo(Masses(Units, levels, Item), h)

\* The items below a height, one level more.
LEMMA RetStep ==
  ASSUME NEW levels \in Stacks, NEW h \in Nat
  PROVE  /\ RetTo(levels, 0) = 0 /\ RetTo(levels, h) \in Nat
         /\ RetTo(levels, h + 1) = RetTo(levels, h) + Len(Level(levels, h))
         /\ h >= Len(levels) => RetTo(levels, h) = Retained(levels)
  <1> DEFINE f == Masses(Units, levels, Item)
  <1>1. \A i \in 0..h : f[i] \in Int
    <2>1. \A i \in 0..h : i \in Nat
      OBVIOUS
    <2> QED BY <2>1, MassesType, GainsType
  <1>2. f[h] = Len(Level(levels, h))
    <2>1. f[h] = Units[h] * CountIn(Level(levels, h), Item)
      BY MassesType, GainsType
    <2>2. CountIn(Level(levels, h), Item) = Len(Level(levels, h)) /\ Len(Level(levels, h)) \in Nat
      BY LevelType, CountItem
    <2>3. Units[h] = 1
      BY DEF Units
    <2> QED BY <2>1, <2>2, <2>3
  <1>3. RetTo(levels, h) \in Nat
    BY MassType, GainsType DEF RetTo
  <1>4. RetTo(levels, h + 1) = RetTo(levels, h) + f[h]
    <2> HIDE DEF f
    <2>1. SumTo(f, h + 1) = SumTo(f, h) + f[h]
      BY <1>1, SumToStep
    <2> QED BY <2>1 DEF RetTo, f
  <1>5. RetTo(levels, 0) = 0
    BY SumToZero DEF RetTo
  <1>6. ASSUME h >= Len(levels) PROVE RetTo(levels, h) = Retained(levels)
    BY <1>6, MassBeyond, GainsType, ItemMass DEF RetTo
  <1> QED BY <1>2, <1>3, <1>4, <1>5, <1>6

\* Equal levels below a height hold equally many items.
LEMMA RetSame ==
  ASSUME NEW levels \in Stacks, NEW L \in Stacks, NEW h \in Nat,
         \A j \in Nat : j < h => Level(L, j) = Level(levels, j)
  PROVE  RetTo(L, h) = RetTo(levels, h)
  <1> DEFINE S == 0..(h - 1)
             f == Masses(Units, levels, Item)
             g == Masses(Units, L, Item)
  <1>1. IsFiniteSet(S) /\ \A j \in S : j \in Nat /\ j < h
    BY FS_Interval
  <1>2. \A j \in S : f[j] \in Int /\ g[j] = f[j]
    <2> TAKE j \in S
    <2>1. f[j] = Units[j] * CountIn(Level(levels, j), Item) /\ f[j] \in Int
      BY <1>1, MassesType, GainsType
    <2>2. g[j] = Units[j] * CountIn(Level(L, j), Item)
      BY <1>1, MassesType, GainsType
    <2>3. Level(L, j) = Level(levels, j)
      BY <1>1
    <2> QED BY <2>1, <2>2, <2>3
  <1>3. SumOver(g, S) = SumOver(f, S)
    <2> HIDE DEF S, f, g
    <2> QED BY <1>1, <1>2, SumEqual
  <1> QED BY <1>3 DEF RetTo, SumTo

\* The stack of a turn, against the one the sweep starts from.
Swept(w, k, levels, sorted) ==
  /\ Proper(w.levels) /\ Len(levels) <= Len(w.levels)
  /\ w.target = TotalCapacity(k, Len(w.levels))
  /\ TotalWeight(w.levels) = TotalWeight(levels)
  /\ sorted => Sorted(Level(w.levels, 0))
  /\ w.slack \in Nat /\ w.ks \subseteq {k}
  /\ \A B : Down(B) => Within(Weight(w.levels, B) - Weight(levels, B), w.slack)

\* Until the items fit, the levels below h do.
Pressed(w, k, h) ==
  \/ Retained(w.levels) < w.target
  \/ h < Len(w.levels) /\ RetTo(w.levels, h) <= CapTo(k, Len(w.levels), h)
  \/ h >= Len(w.levels) /\ Retained(w.levels) <= w.target

\* A level within its capacity leaves the levels up to it within theirs.
LEMMA PressedOn ==
  ASSUME NEW levels \in Stacks, NEW k \in Nat, NEW h \in Nat, NEW w, w.levels = levels,
         w.target = TotalCapacity(k, Len(levels)), h < Len(levels),
         RetTo(levels, h + 1) <= CapTo(k, Len(levels), h + 1)
  PROVE  Pressed(w, k, h + 1)
  <1> DEFINE num == Len(levels)
  <1>1. num \in Nat
    BY LevelType
  <1>2. CASE h + 1 < num
    BY <1>2 DEF Pressed
  <1>3. CASE ~ (h + 1 < num)
    <2>1. h + 1 = num
      BY <1>1, <1>3
    <2>2. RetTo(levels, num) = Retained(levels)
      BY <1>1, RetStep
    <2>3. CapTo(k, num, num) = TotalCapacity(k, num)
      BY <1>1, TotalCapacityTo
    <2>4. Retained(levels) <= w.target
      BY <2>1, <2>2, <2>3
    <2>5. h + 1 >= num
      BY <1>1, <2>1
    <2> QED BY <2>4, <2>5 DEF Pressed
  <1> QED BY <1>2, <1>3

\* Errors add up.
LEMMA WithinAdd ==
  ASSUME NEW u \in Int, NEW v \in Int, NEW w \in Int, NEW x \in Nat, NEW y \in Nat,
         Within(v - w, x), u - v \in (-y)..y
  PROVE  Within(u - w, x + y)
  BY DEF Within

Swap(levels, target, slack, ks) ==
  [levels |-> levels, target |-> target, slack |-> slack, ks |-> ks]

\* One level of the sweep is halved.
LEMMA SweptStep ==
  ASSUME NEW levels, Proper(levels), NEW k \in Nat, NEW sorted, NEW w, Swept(w, k, levels, sorted),
         NEW h \in Nat, h < Len(w.levels), Pressed(w, k, h), ~ (Retained(w.levels) < w.target),
         Len(Level(w.levels, h)) >= LevelCapacity(k, Len(w.levels), h),
         NEW L \in HalvedUp(Room(w.levels, h), h, sorted),
         NEW target,
         target = IF h = Len(w.levels) - 1
                  THEN w.target + LevelCapacity(k, Len(w.levels) + 1, 0) ELSE w.target,
         NEW v, v = Swap(L, target, w.slack + Power(2, h), {k})
  PROVE  Swept(v, k, levels, sorted) /\ Pressed(v, k, h + 1)
  <1> DEFINE W == w.levels
             num == Len(W)
             R == Room(W, h)
             cap == LevelCapacity(k, num, h)
  <1>1. /\ Proper(W) /\ W \in Stacks /\ num \in Nat /\ num >= 1
        /\ w.target = TotalCapacity(k, num) /\ w.slack \in Nat
        /\ TotalWeight(W) = TotalWeight(levels) /\ levels \in Stacks
        /\ sorted => Sorted(Level(W, 0))
    BY LevelType DEF Swept, Proper
  <1>2. h \in Heights(W) /\ h \in 0..(num - 1)
    BY <1>1 DEF Heights
  <1>3. cap \in Nat /\ cap >= 2 /\ Len(Level(W, h)) \in Nat /\ Len(Level(W, h)) >= 2
    <2>1. cap \in Nat /\ cap >= 2
      BY <1>1, <1>2, CapacityFacts
    <2>2. Len(Level(W, h)) \in Nat
      BY <1>1, LevelType
    <2> QED BY <2>1, <2>2
  <1>4. /\ Proper(L) /\ Len(L) = Len(R)
        /\ sorted => Sorted(Level(L, 0))
        /\ Retained(L) < Retained(W)
        /\ TotalWeight(L) = TotalWeight(W)
        /\ \A B : Down(B) => Weight(L, B) - Weight(W, B) \in -Power(2, h)..Power(2, h)
        /\ \A j \in Nat : j < h => Level(L, j) = Level(W, j)
        /\ Len(Level(L, h)) <= 1
    BY <1>1, <1>2, <1>3, CompressedLevels
  <1>5. Len(R) = IF h = num - 1 THEN num + 1 ELSE num
    BY <1>1, <1>2, RoomFacts
  <1>6. v.levels = L /\ v.target = target /\ v.slack = w.slack + Power(2, h) /\ v.ks = {k}
    BY DEF Swap
  <1>7. L \in Stacks /\ Power(2, h) \in Nat /\ Len(Level(L, h)) \in Nat
    BY <1>4, PowerDef, LevelType DEF Proper
  <1>8. target = TotalCapacity(k, Len(L))
    <2>1. CASE h = num - 1
      <3>1. target = w.target + LevelCapacity(k, num + 1, 0) /\ Len(L) = num + 1
        BY <1>4, <1>5, <2>1
      <3>2. TotalCapacity(k, num + 1) = TotalCapacity(k, num) + LevelCapacity(k, num + 1, 0)
        BY <1>1, TotalCapacityStep
      <3> QED BY <1>1, <3>1, <3>2
    <2>2. CASE h # num - 1
      BY <1>1, <1>4, <1>5, <2>2
    <2> QED BY <2>1, <2>2
  <1>9. \A B : Down(B) => Within(Weight(L, B) - Weight(levels, B), w.slack + Power(2, h))
    <2> SUFFICES ASSUME NEW B, Down(B)
                 PROVE  Within(Weight(L, B) - Weight(levels, B), w.slack + Power(2, h))
      OBVIOUS
    <2>1. Within(Weight(W, B) - Weight(levels, B), w.slack)
      BY DEF Swept
    <2>2. Weight(L, B) - Weight(W, B) \in -Power(2, h)..Power(2, h)
      BY <1>4
    <2>3. Weight(L, B) \in Int /\ Weight(W, B) \in Int /\ Weight(levels, B) \in Int
      <3>1. Weight(L, B) \in Nat /\ Weight(W, B) \in Nat /\ Weight(levels, B) \in Nat
        BY <1>1, <1>7, MassNat
      <3> QED BY <3>1
    <2> QED BY <1>1, <1>7, <2>1, <2>2, <2>3, WithinAdd
  <1>10. Swept(v, k, levels, sorted)
    <2>1. Len(levels) <= Len(L)
      <3>1. Len(levels) <= num /\ Len(levels) \in Nat
        BY <1>1, LevelType DEF Swept
      <3>2. Len(R) >= num /\ Len(R) \in Nat
        BY <1>1, <1>5
      <3> QED BY <1>1, <1>4, <3>1, <3>2
    <2>2. w.slack + Power(2, h) \in Nat
      BY <1>1, <1>7
    <2>3. TotalWeight(L) = TotalWeight(levels)
      BY <1>1, <1>4
    <2> QED BY <1>4, <1>6, <1>8, <1>9, <2>1, <2>2, <2>3 DEF Swept
  <1>11. RetTo(W, h) <= CapTo(k, num, h)
    <2>1. Retained(W) \in Nat /\ w.target \in Nat
      BY <1>1, MassNat, TotalCapacityTo
    <2>2. ~ (h >= num)
      BY <1>1
    <2> QED BY <2>1, <2>2 DEF Pressed
  <1>12. RetTo(L, h) = RetTo(W, h) /\ RetTo(W, h) \in Nat
         /\ RetTo(L, h + 1) = RetTo(L, h) + Len(Level(L, h))
    <2>1. RetTo(L, h) = RetTo(W, h)
      BY <1>1, <1>4, <1>7, RetSame
    <2> QED BY <1>1, <1>7, <2>1, RetStep
  <1>13. RetTo(L, h + 1) <= CapTo(k, Len(L), h + 1)
    <2>1. CASE h = num - 1
      <3>1. Len(L) = num + 1
        BY <1>4, <1>5, <2>1
      <3>2. CapTo(k, num + 1, h + 1) = LevelCapacity(k, num + 1, 0) + CapTo(k, num, h)
        <4>1. h \in 0..num
          BY <1>2
        <4> QED BY <1>1, <4>1, CapToShift
      <3>3. LevelCapacity(k, num + 1, 0) \in Nat /\ LevelCapacity(k, num + 1, 0) >= 2
        <4>1. num + 1 \in Nat /\ 0 \in 0..((num + 1) - 1)
          BY <1>1
        <4> QED BY <4>1, CapacityFacts
      <3>4. CapTo(k, num, h) \in Int
        BY <1>1, <1>2, CapToStep
      <3>5. RetTo(L, h + 1) <= CapTo(k, num + 1, h + 1)
        <4> DEFINE a == RetTo(L, h + 1)
                   b == RetTo(L, h)
                   c == Len(Level(L, h))
                   d == CapTo(k, num, h)
                   e == CapTo(k, num + 1, h + 1)
                   m == LevelCapacity(k, num + 1, 0)
        <4>1. /\ b \in Nat /\ c \in Nat /\ d \in Int /\ m \in Nat
              /\ a = b + c /\ b <= d /\ c <= 1 /\ e = m + d /\ m >= 2
          BY <1>4, <1>7, <1>11, <1>12, <3>2, <3>3, <3>4
        <4> HIDE DEF a, b, c, d, e, m
        <4>2. a <= e
          BY <4>1
        <4> QED BY <4>2 DEF a, e
      <3> QED BY <3>1, <3>5
    <2>2. CASE h # num - 1
      <3>1. Len(L) = num
        BY <1>4, <1>5, <2>2
      <3>2. CapTo(k, num, h) \in Int /\ CapTo(k, num, h + 1) = CapTo(k, num, h) + cap
        BY <1>1, CapToStep
      <3>3. RetTo(L, h + 1) <= CapTo(k, num, h + 1)
        <4> DEFINE a == RetTo(L, h + 1)
                   b == RetTo(L, h)
                   c == Len(Level(L, h))
                   d == CapTo(k, num, h)
                   e == CapTo(k, num, h + 1)
        <4>1. /\ b \in Nat /\ c \in Nat /\ d \in Int /\ cap \in Nat
              /\ a = b + c /\ b <= d /\ c <= 1 /\ e = d + cap /\ cap >= 2
          BY <1>3, <1>4, <1>7, <1>11, <1>12, <3>2
        <4> HIDE DEF a, b, c, d, e, cap
        <4>2. a <= e
          BY <4>1
        <4> QED BY <4>2 DEF a, e
      <3> QED BY <3>1, <3>3
    <2> QED BY <2>1, <2>2
  <1>14. Pressed(v, k, h + 1)
    <2>1. h < Len(L)
      <3>1. Len(R) >= num /\ Len(R) \in Nat
        BY <1>1, <1>5
      <3> QED BY <1>1, <1>4, <3>1
    <2>2. v.target = TotalCapacity(k, Len(L))
      BY <1>6, <1>8
    <2> QED BY <1>6, <1>7, <1>13, <2>1, <2>2, PressedOn
  <1> QED BY <1>10, <1>14

\* One turn of the sweep.
LEMMA CompressedAtFacts ==
  ASSUME NEW levels, Proper(levels), NEW k \in Nat, NEW sorted, NEW w, Swept(w, k, levels, sorted),
         NEW h \in Nat, Pressed(w, k, h), NEW v \in CompressedAt(w, k, sorted, h)
  PROVE  Swept(v, k, levels, sorted) /\ Pressed(v, k, h + 1)
  <1> DEFINE num == Len(w.levels)
             fits == \/ Retained(w.levels) < w.target
                     \/ Len(Level(w.levels, h)) < LevelCapacity(k, num, h)
  <1>1. /\ w.levels \in Stacks /\ num \in Nat /\ w.target = TotalCapacity(k, num)
        /\ Len(Level(w.levels, h)) \in Nat
    BY LevelType DEF Swept, Proper
  <1>2. CASE h >= num
    <2>1. v = w
      BY <1>2 DEF CompressedAt
    <2>2. Retained(w.levels) < w.target \/ Retained(w.levels) <= w.target
      BY <1>1, <1>2 DEF Pressed
    <2>3. h + 1 >= num
      BY <1>1, <1>2
    <2> QED BY <2>1, <2>2, <2>3 DEF Pressed
  <1>3. CASE h < num /\ fits
    <2>1. v = w
      BY <1>3 DEF CompressedAt
    <2>2. CASE Retained(w.levels) < w.target
      BY <2>1, <2>2 DEF Pressed
    <2>3. CASE ~ (Retained(w.levels) < w.target)
      <3>1. Len(Level(w.levels, h)) < LevelCapacity(k, num, h)
        BY <1>3, <2>3
      <3>2. RetTo(w.levels, h) <= CapTo(k, num, h)
        <4>1. ~ (h >= num)
          BY <1>1, <1>3
        <4> QED BY <2>3, <4>1 DEF Pressed
      <3>3. /\ RetTo(w.levels, h) \in Nat
            /\ RetTo(w.levels, h + 1) = RetTo(w.levels, h) + Len(Level(w.levels, h))
        BY <1>1, RetStep
      <3>4. /\ CapTo(k, num, h) \in Int
            /\ CapTo(k, num, h + 1) = CapTo(k, num, h) + LevelCapacity(k, num, h)
        BY <1>1, <1>3, CapToStep
      <3>5. LevelCapacity(k, num, h) \in Nat
        <4>1. h \in 0..(num - 1)
          BY <1>1, <1>3
        <4> QED BY <1>1, <4>1, CapacityFacts
      <3>6. RetTo(w.levels, h + 1) <= CapTo(k, num, h + 1)
        BY <1>1, <3>1, <3>2, <3>3, <3>4, <3>5
      <3>7. Pressed(w, k, h + 1)
        BY <1>1, <1>3, <3>6, PressedOn
      <3> QED BY <2>1, <3>7
    <2> QED BY <2>2, <2>3
  <1>4. CASE h < num /\ ~fits
    <2> DEFINE target == IF h = num - 1 THEN w.target + LevelCapacity(k, num + 1, 0) ELSE w.target
    <2>1. ~ (h >= num)
      BY <1>1, <1>4
    <2>2. PICK L \in HalvedUp(Room(w.levels, h), h, sorted) :
            v = Swap(L, target, w.slack + Power(2, h), {k})
      BY <1>4, <2>1, Zenon DEF CompressedAt, Room, Swap
    <2>3. Len(Level(w.levels, h)) >= LevelCapacity(k, num, h)
      <3>1. h \in 0..(num - 1)
        BY <1>1, <1>4
      <3>2. LevelCapacity(k, num, h) \in Nat
        BY <1>1, <3>1, CapacityFacts
      <3> QED BY <1>1, <1>4, <3>2
    <2> QED BY <1>4, <2>2, <2>3, SweptStep
  <1>5. h >= num \/ h < num
    BY <1>1
  <1> QED BY <1>2, <1>3, <1>4, <1>5

Sweeping(f, start, k, sorted, n) ==
  f = [h \in 0..n |->
         IF h = 0 THEN {start} ELSE UNION {CompressedAt(w, k, sorted, h - 1) : w \in f[h - 1]}]

\* The outcomes of a sweep are defined.
LEMMA SweepingExists ==
  ASSUME NEW start, NEW k, NEW sorted
  PROVE  \A n \in Nat : \E f : Sweeping(f, start, k, sorted, n)
  <1> DEFINE G == {n \in Nat : \E f : Sweeping(f, start, k, sorted, n)}
  <1>1. 0 \in G
    <2> DEFINE f == [h \in 0..0 |-> {start}]
    <2>1. Sweeping(f, start, k, sorted, 0)
      <3>1. \A h \in 0..0 : h = 0
        OBVIOUS
      <3> QED BY <3>1 DEF Sweeping
    <2> HIDE DEF f
    <2> QED BY <2>1
  <1>2. ASSUME NEW n \in Nat, n \in G PROVE n + 1 \in G
    <2>1. PICK f : Sweeping(f, start, k, sorted, n)
      BY <1>2
    <2> DEFINE next(h) == UNION {CompressedAt(w, k, sorted, h - 1) : w \in f[h - 1]}
               g == [h \in 0..(n + 1) |-> IF h = 0 THEN {start} ELSE next(h)]
    <2>2. \A h \in 0..n : f[h] = IF h = 0 THEN {start} ELSE next(h)
      BY <2>1 DEF Sweeping
    <2>3. \A h \in 0..n : g[h] = f[h]
      <3> TAKE h \in 0..n
      <3>1. h \in 0..(n + 1)
        OBVIOUS
      <3>2. g[h] = IF h = 0 THEN {start} ELSE next(h)
        BY <3>1
      <3> HIDE DEF g, next
      <3> QED BY <2>2, <3>2
    <2>4. \A h \in 0..(n + 1) : h # 0 => h - 1 \in 0..n
      OBVIOUS
    <2>5. \A h \in 0..(n + 1) : h # 0 => g[h - 1] = f[h - 1]
      <3> HIDE DEF g
      <3> QED BY <2>3, <2>4
    <2>6. \A h \in 0..(n + 1) :
            (IF h = 0 THEN {start} ELSE next(h))
              = IF h = 0 THEN {start}
                ELSE UNION {CompressedAt(w, k, sorted, h - 1) : w \in g[h - 1]}
      <3> HIDE DEF g
      <3> QED BY <2>5
    <2>7. Sweeping(g, start, k, sorted, n + 1)
      <3>1. g = [h \in 0..(n + 1) |-> IF h = 0 THEN {start} ELSE next(h)]
        OBVIOUS
      <3> HIDE DEF g, next
      <3>2. [h \in 0..(n + 1) |-> IF h = 0 THEN {start} ELSE next(h)]
              = [h \in 0..(n + 1) |->
                   IF h = 0 THEN {start}
                   ELSE UNION {CompressedAt(w, k, sorted, h - 1) : w \in g[h - 1]}]
        BY <2>6
      <3> QED BY <3>1, <3>2 DEF Sweeping
    <2> HIDE DEF g
    <2> QED BY <2>7
  <1>3. Nat \subseteq G
    <2> HIDE DEF G
    <2> QED BY <1>1, <1>2, NatInductionSet
  <1> QED BY <1>3

\* What GeneralCompressed unfolds to.
LEMMA GeneralCompressedDef ==
  ASSUME NEW k, NEW levels, NEW sorted, NEW n \in Nat
  PROVE  LET start == Swap(levels, TotalCapacity(k, Len(levels)), 0, {})
             turns == UbOnNumLevels(n) + 1
         IN \E f : /\ Sweeping(f, start, k, sorted, turns)
                   /\ GeneralCompressed(k, levels, sorted, n) = f[turns]
  <1> DEFINE start == Swap(levels, TotalCapacity(k, Len(levels)), 0, {})
             turns == UbOnNumLevels(n) + 1
             F == CHOOSE f : Sweeping(f, start, k, sorted, turns)
  <1>1. turns \in Nat
    BY UbFacts
  <1>2. \E f : Sweeping(f, start, k, sorted, turns)
    <2> HIDE DEF start, turns
    <2> QED BY <1>1, SweepingExists
  <1>3. Sweeping(F, start, k, sorted, turns)
    BY <1>2
  <1>4. GeneralCompressed(k, levels, sorted, n) = F[turns]
    BY DEF GeneralCompressed, Sweeping, Swap
  <1> HIDE DEF F
  <1> QED BY <1>3, <1>4

\* The sweep keeps the stack proper, its weight and, but for its slack, its
\* ranks, and ends with items that fit.
LEMMA GeneralCompressedFacts ==
  ASSUME NEW levels, Proper(levels), NEW k \in Nat, NEW sorted,
         sorted => Sorted(Level(levels, 0)), NEW n, n = TotalWeight(levels),
         NEW w \in GeneralCompressed(k, levels, sorted, n)
  PROVE  Swept(w, k, levels, sorted) /\ Retained(w.levels) <= w.target
  <1> DEFINE start == Swap(levels, TotalCapacity(k, Len(levels)), 0, {})
             turns == UbOnNumLevels(n) + 1
  <1>1. /\ n \in Nat /\ levels \in Stacks /\ Len(levels) \in Nat /\ Len(levels) >= 1
        /\ turns \in Nat
    <2>1. levels \in Stacks /\ n \in Nat
      BY MassNat DEF Proper
    <2>2. turns \in Nat
      BY <2>1, UbFacts
    <2> QED BY <2>1, <2>2, LevelType DEF Proper
  <1>2. PICK f : /\ Sweeping(f, start, k, sorted, turns)
                 /\ GeneralCompressed(k, levels, sorted, n) = f[turns]
    BY <1>1, GeneralCompressedDef
  <1> DEFINE G == {h \in 0..turns : \A v \in f[h] : Swept(v, k, levels, sorted) /\ Pressed(v, k, h)}
  <1>3. \A h \in 0..turns :
          f[h] = IF h = 0 THEN {start}
                 ELSE UNION {CompressedAt(v, k, sorted, h - 1) : v \in f[h - 1]}
    BY <1>2 DEF Sweeping
  <1>4. Swept(start, k, levels, sorted) /\ Pressed(start, k, 0)
    <2>1. /\ start.levels = levels /\ start.target = TotalCapacity(k, Len(levels))
          /\ start.slack = 0 /\ start.ks = {}
      BY DEF Swap
    <2> HIDE DEF start
    <2>2. \A B : Down(B) => Within(Weight(levels, B) - Weight(levels, B), 0)
      <3> TAKE B
      <3>1. Weight(levels, B) \in Nat
        BY <1>1, MassNat
      <3> QED BY <3>1 DEF Within
    <2>3. Swept(start, k, levels, sorted)
      <3>1. Len(levels) <= Len(levels)
        BY <1>1
      <3> QED BY <2>1, <2>2, <3>1 DEF Swept
    <2>4. RetTo(levels, 0) = 0
      BY <1>1, RetStep
    <2>5. CapTo(k, Len(levels), 0) = 0
      BY SumToZero DEF CapTo
    <2>6. 0 < Len(levels)
      BY <1>1
    <2>7. Pressed(start, k, 0)
      BY <2>1, <2>4, <2>5, <2>6 DEF Pressed
    <2> QED BY <2>3, <2>7
  <1>5. 0 \in G
    <2>1. 0 \in 0..turns
      BY <1>1
    <2>2. f[0] = {start}
      BY <1>3, <2>1
    <2> HIDE DEF start
    <2> QED BY <1>4, <2>1, <2>2
  <1>6. ASSUME NEW h \in 1..turns, h - 1 \in G PROVE h \in G
    <2>1. h \in 0..turns /\ h # 0 /\ h - 1 \in Nat /\ (h - 1) + 1 = h
      BY <1>1
    <2>2. f[h] = UNION {CompressedAt(v, k, sorted, h - 1) : v \in f[h - 1]}
      BY <1>3, <2>1
    <2>3. ASSUME NEW u \in f[h] PROVE Swept(u, k, levels, sorted) /\ Pressed(u, k, h)
      <3>1. PICK v \in f[h - 1] : u \in CompressedAt(v, k, sorted, h - 1)
        BY <2>2
      <3>2. Swept(v, k, levels, sorted) /\ Pressed(v, k, h - 1)
        BY <1>6
      <3> DEFINE j == h - 1
      <3>3. j \in Nat /\ Pressed(v, k, j) /\ u \in CompressedAt(v, k, sorted, j) /\ j + 1 = h
        BY <2>1, <3>1, <3>2
      <3> HIDE DEF j
      <3>4. Swept(u, k, levels, sorted) /\ Pressed(u, k, j + 1)
        BY <3>2, <3>3, CompressedAtFacts
      <3> QED BY <3>3, <3>4
    <2> QED BY <2>1, <2>3
  <1>7. 0..turns \subseteq G
    <2> HIDE DEF G, turns
    <2> QED BY <1>1, <1>5, <1>6, UptoInduction
  <1>8. Swept(w, k, levels, sorted) /\ Pressed(w, k, turns)
    <2>1. turns \in 0..turns
      BY <1>1
    <2>2. turns \in G
      <3> HIDE DEF G, turns
      <3> QED BY <1>7, <2>1
    <2> QED BY <1>2, <2>2
  <1>9. Len(w.levels) <= UbOnNumLevels(n) /\ Len(w.levels) \in Nat /\ w.levels \in Stacks
    <2>1. Proper(w.levels) /\ TotalWeight(w.levels) = n
      BY <1>8 DEF Swept
    <2>2. Len(w.levels) <= UbOnNumLevels(n)
      BY <2>1, TopBound
    <2> QED BY <2>1, <2>2, LevelType DEF Proper
  <1>10. Retained(w.levels) <= w.target
    <2>1. ~ (turns < Len(w.levels))
      <3>1. UbOnNumLevels(n) \in Nat
        BY <1>1, UbFacts
      <3>2. \A a, b \in Nat : a <= b => ~ (b + 1 < a)
        OBVIOUS
      <3> QED BY <1>9, <3>1, <3>2
    <2>2. Retained(w.levels) \in Nat /\ w.target \in Nat
      <3>1. w.target = TotalCapacity(k, Len(w.levels))
        BY <1>8 DEF Swept
      <3> QED BY <1>9, <3>1, MassNat, TotalCapacityTo
    <2>3. Retained(w.levels) < w.target \/ Retained(w.levels) <= w.target
      BY <1>8, <2>1 DEF Pressed
    <2> QED BY <2>2, <2>3
  <1> QED BY <1>8, <1>10

----------------------------------------------------------------------------
(* The levels of two sketches together *)

\* At every height W has the items of A and of C.
Adds(A, C, W, B) ==
  \A h \in Nat : CountIn(Level(W, h), B) = CountIn(Level(A, h), B) + CountIn(Level(C, h), B)

\* A stack whose levels hold the items of two weighs as much as both.
LEMMA WeightAdd ==
  ASSUME NEW A \in Stacks, NEW C \in Stacks, NEW W \in Stacks, NEW B, Adds(A, C, W, B)
  PROVE  Weight(W, B) = Weight(A, B) + Weight(C, B)
  <1> DEFINE a == Masses(Powers, A, B)
             c == Masses(Powers, C, B)
             w == Masses(Powers, W, B)
             N == Len(A) + Len(C) + Len(W)
             S == 0..(N - 1)
  <1>1. Len(A) \in Nat /\ Len(C) \in Nat /\ Len(W) \in Nat
    BY LevelType
  <1>2. N \in Nat /\ N >= Len(A) /\ N >= Len(C) /\ N >= Len(W)
    BY <1>1
  <1>3. \A h \in Nat : a[h] \in Int /\ c[h] \in Int /\ w[h] = a[h] + c[h]
    <2> TAKE h \in Nat
    <2> DEFINE p == Powers[h]
               x == CountIn(Level(A, h), B)
               y == CountIn(Level(C, h), B)
               z == CountIn(Level(W, h), B)
    <2>0. Powers \in Gains /\ p \in Nat
      BY GainsType
    <2>1. /\ a[h] = p * x /\ a[h] \in Int /\ x \in Nat
          /\ c[h] = p * y /\ c[h] \in Int /\ y \in Nat
          /\ w[h] = p * z /\ p \in Nat
      <3>1. a[h] = p * x /\ a[h] \in Int /\ x \in Nat
        BY <2>0, MassesType
      <3>2. c[h] = p * y /\ c[h] \in Int /\ y \in Nat
        BY <2>0, MassesType
      <3>3. w[h] = p * z
        BY <2>0, MassesType
      <3> QED BY <2>0, <3>1, <3>2, <3>3
    <2>2. z = x + y
      BY DEF Adds
    <2>3. \A i, j, l \in Nat : i * (j + l) = i * j + i * l
      OBVIOUS
    <2> HIDE DEF p, x, y, z, a, c, w
    <2>4. p * z = p * x + p * y
      BY <2>1, <2>2, <2>3
    <2> QED BY <2>1, <2>4
  <1>4. SumTo(a, N) = Weight(A, B) /\ SumTo(c, N) = Weight(C, B) /\ SumTo(w, N) = Weight(W, B)
    <2> HIDE DEF N
    <2>1. SumTo(a, N) = Mass(Powers, A, B)
      BY <1>2, MassBeyond, GainsType
    <2>2. SumTo(c, N) = Mass(Powers, C, B)
      BY <1>2, MassBeyond, GainsType
    <2>3. SumTo(w, N) = Mass(Powers, W, B)
      BY <1>2, MassBeyond, GainsType
    <2> QED BY <2>1, <2>2, <2>3 DEF Weight
  <1>5. SumOver(w, S) = SumOver(a, S) + SumOver(c, S)
    <2>1. IsFiniteSet(S) /\ S \subseteq Nat
      <3> HIDE DEF N
      <3> QED BY <1>2, FS_Interval
    <2> HIDE DEF a, c, w, S
    <2>2. \A h \in S : a[h] \in Int /\ c[h] \in Int /\ w[h] = a[h] + c[h]
      BY <1>3, <2>1
    <2> QED BY <2>1, <2>2, SumAdd
  <1> QED BY <1>4, <1>5 DEF SumTo

\* populate_work_arrays(): the levels of both sketches, but for level zero of the
\* other.
LEMMA WorkLevelsFacts ==
  ASSUME NEW s, NEW t, Proper(s.levels), Proper(t.levels), NEW W, W = WorkLevels(s, t)
  PROVE  /\ Proper(W) /\ Len(s.levels) <= Len(W) /\ Len(t.levels) <= Len(W)
         /\ Level(W, 0) = Level(s.levels, 0)
         /\ \A B : Weight(W, B) = Weight(s.levels, B) + Weight(t.levels, B)
                                    - CountIn(t.levels[1], B)
         /\ TotalWeight(W) = TotalWeight(s.levels) + TotalWeight(t.levels) - Len(t.levels[1])
  <1> DEFINE A == s.levels
             C == t.levels
             N == Max({Len(A), Len(C)})
  <1> HIDE DEF A, C
  <1>0. Proper(A) /\ Proper(C)
    BY DEF A, C
  <1>1. /\ A \in Stacks /\ C \in Stacks /\ Len(A) \in Nat /\ Len(C) \in Nat
        /\ Len(A) >= 1 /\ Len(C) >= 1
        /\ \A h \in Nat : h # 0 => Sorted(Level(A, h)) /\ Sorted(Level(C, h))
        /\ Len(A) > 1 => Len(Level(A, Len(A) - 1)) >= 1
        /\ Len(C) > 1 => Len(Level(C, Len(C) - 1)) >= 1
    BY <1>0, LevelType DEF Proper
  <1>2. N \in Nat /\ Len(A) <= N /\ Len(C) <= N /\ N >= 1 /\ (N = Len(A) \/ N = Len(C))
    <2>1. Len(A) \in Int /\ Len(C) \in Int
      BY <1>1
    <2>2. N = IF Len(A) <= Len(C) THEN Len(C) ELSE Len(A)
      BY <2>1, MaxOfTwo
    <2> QED BY <1>1, <2>2
  <1>3. \A h \in Nat : Level(A, h) \in Seq(Item) /\ Level(C, h) \in Seq(Item)
                       /\ Len(Level(A, h)) \in Nat /\ Len(Level(C, h)) \in Nat
    BY <1>1, LevelType
  <1>4. A[1] = Level(A, 0) /\ C[1] = Level(C, 0)
    <2>1. 0 \in 0..(Len(A) - 1) /\ 0 \in 0..(Len(C) - 1) /\ 0 + 1 = 1
      BY <1>1
    <2> QED BY <1>1, <2>1, LevelType
  <1> DEFINE e(i) == IF i = 1 THEN A[1] ELSE MergeSorted(Level(A, i - 1), Level(C, i - 1))
  <1>5. W = [i \in 1..N |-> e(i)]
    BY DEF WorkLevels, A, C
  <1> HIDE DEF N
  <1>6. \A i \in 1..N : e(i) \in Seq(Item)
    <2> TAKE i \in 1..N
    <2>1. CASE i = 1
      BY <1>3, <1>4, <2>1
    <2>2. CASE i # 1
      <3>1. i - 1 \in Nat
        BY <1>2
      <3>2. MergeSorted(Level(A, i - 1), Level(C, i - 1)) \in Seq(Item)
        BY <1>3, <3>1, MergeDef
      <3> QED BY <2>2, <3>2
    <2> QED BY <2>1, <2>2
  <1> HIDE DEF e
  <1>7. W \in Stacks /\ Len(W) = N /\ \A i \in 1..N : W[i] = e(i)
    <2>1. W \in [1..N -> Seq(Item)]
      BY <1>5, <1>6
    <2>2. W \in Seq(Seq(Item)) /\ Len(W) = N
      BY <1>2, <2>1, IsASeq, LenProperties
    <2> QED BY <1>5, <2>2 DEF Stacks
  <1>8. Level(W, 0) = Level(A, 0)
    <2>1. 0 < N /\ 0 + 1 = 1 /\ 1 \in 1..N
      BY <1>2
    <2> QED BY <1>4, <1>7, <2>1 DEF Level, e
  <1>9. \A h \in Nat : h # 0 /\ h < N => Level(W, h) = MergeSorted(Level(A, h), Level(C, h))
    <2> TAKE h \in Nat
    <2>1. HAVE h # 0 /\ h < N
    <2>2. h + 1 \in 1..N /\ h + 1 # 1 /\ (h + 1) - 1 = h
      BY <1>2, <2>1
    <2>3. Level(W, h) = W[h + 1]
      BY <1>7, <2>1 DEF Level
    <2>4. e(h + 1) = MergeSorted(Level(A, h), Level(C, h))
      BY <2>2 DEF e
    <2> QED BY <1>7, <2>2, <2>3, <2>4
  <1>10. \A h \in Nat : h >= N => Level(W, h) = <<>> /\ Level(A, h) = <<>> /\ Level(C, h) = <<>>
    <2> TAKE h \in Nat
    <2>1. HAVE h >= N
    <2>2. h >= Len(A) /\ h >= Len(C)
      BY <1>1, <1>2, <2>1
    <2>3. Level(A, h) = <<>> /\ Level(C, h) = <<>>
      BY <1>1, <2>2, LevelType
    <2>4. Level(W, h) = <<>>
      BY <1>7, <2>1, LevelType
    <2> QED BY <2>3, <2>4
  <1>11. \A h \in Nat : h # 0 => Sorted(Level(W, h))
    <2> TAKE h \in Nat
    <2>1. HAVE h # 0
    <2>2. CASE h < N
      <3>1. Sorted(Level(A, h)) /\ Sorted(Level(C, h))
        BY <1>1, <2>1
      <3>2. Sorted(MergeSorted(Level(A, h), Level(C, h)))
        BY <1>3, <3>1, MergeOrdered
      <3> QED BY <1>9, <2>1, <2>2, <3>2
    <2>3. CASE h >= N
      BY <1>10, <2>3, EmptyItems
    <2> QED BY <1>2, <2>2, <2>3
  <1>12. \A h \in Nat : \A B :
           h # 0 => CountIn(Level(W, h), B) = CountIn(Level(A, h), B) + CountIn(Level(C, h), B)
    <2> TAKE h \in Nat
    <2> TAKE B
    <2>1. HAVE h # 0
    <2>2. CASE h < N
      <3> DEFINE x == Level(A, h)
                 y == Level(C, h)
      <3>1. x \in Seq(Item) /\ y \in Seq(Item) /\ Level(W, h) = MergeSorted(x, y)
        BY <1>3, <1>9, <2>1, <2>2
      <3> HIDE DEF x, y
      <3>2. CountIn(MergeSorted(x, y), B) = CountIn(x, B) + CountIn(y, B)
        BY <3>1, MergeCounts
      <3> QED BY <3>1, <3>2 DEF x, y
    <2>3. CASE h >= N
      <3>1. CountIn(<<>>, B) = 0
        BY EmptyItems
      <3> QED BY <1>10, <2>3, <3>1
    <2> QED BY <1>2, <2>2, <2>3
  <1>13. ASSUME N > 1 PROVE Len(Level(W, N - 1)) >= 1
    <2>1. N - 1 \in Nat /\ N - 1 # 0 /\ N - 1 < N
      BY <1>2, <1>13
    <2>2. Level(W, N - 1) = MergeSorted(Level(A, N - 1), Level(C, N - 1))
      BY <1>9, <2>1
    <2>3. Len(MergeSorted(Level(A, N - 1), Level(C, N - 1)))
            = Len(Level(A, N - 1)) + Len(Level(C, N - 1))
      BY <1>3, <2>1, MergeDef
    <2>4. Len(Level(A, N - 1)) \in Nat /\ Len(Level(C, N - 1)) \in Nat
      BY <1>3, <2>1
    <2>5. Len(Level(A, N - 1)) >= 1 \/ Len(Level(C, N - 1)) >= 1
      BY <1>1, <1>2, <1>13
    <2> QED BY <2>2, <2>3, <2>4, <2>5
  <1>14. Proper(W)
    <2>1. Len(W) >= 1
      BY <1>2, <1>7
    <2>2. Len(W) > 1 => Len(Level(W, Len(W) - 1)) >= 1
      BY <1>7, <1>13
    <2> QED BY <1>7, <1>11, <2>1, <2>2 DEF Proper
  <1> DEFINE none == <<>>
             P == WithBottom(C, none)
  <1>19. none \in Seq(Item) /\ \A B : CountIn(none, B) = 0
    BY EmptyItems
  <1> HIDE DEF none
  <1>15. /\ Proper(P) /\ Level(P, 0) = none
         /\ \A j \in Nat : j # 0 => Level(P, j) = Level(C, j)
         /\ \A B : Weight(P, B) = Weight(C, B) + (CountIn(none, B) - CountIn(Level(C, 0), B))
    BY <1>0, <1>19, BottomChanged
  <1> HIDE DEF P
  <1>16. \A B : Weight(W, B) = Weight(A, B) + Weight(C, B) - CountIn(Level(C, 0), B)
    <2> TAKE B
    <2>1. CountIn(none, B) = 0
      BY <1>19
    <2>2. \A h \in Nat : CountIn(Level(A, h), B) \in Nat /\ CountIn(Level(C, h), B) \in Nat
      BY <1>1, MassesType, GainsType
    <2>3. \A h \in Nat : CountIn(Level(W, h), B)
                           = CountIn(Level(A, h), B) + CountIn(Level(P, h), B)
      <3> TAKE h \in Nat
      <3>1. CASE h = 0
        <4>1. CountIn(Level(W, 0), B) = CountIn(Level(A, 0), B) /\ CountIn(Level(P, 0), B) = 0
          BY <1>8, <1>15, <2>1
        <4> QED BY <2>2, <3>1, <4>1
      <3>2. CASE h # 0
        BY <1>12, <1>15, <3>2
      <3> QED BY <3>1, <3>2
    <2>4. P \in Stacks
      BY <1>15 DEF Proper
    <2>5. Weight(W, B) = Weight(A, B) + Weight(P, B)
      BY <1>1, <1>7, <2>3, <2>4, WeightAdd DEF Adds
    <2>6. Weight(P, B) = Weight(C, B) + (CountIn(none, B) - CountIn(Level(C, 0), B))
      BY <1>15
    <2>7. Weight(A, B) \in Nat /\ Weight(C, B) \in Nat /\ CountIn(Level(C, 0), B) \in Nat
      BY <1>1, <2>2, MassNat
    <2> QED BY <2>1, <2>5, <2>6, <2>7
  <1>17. TotalWeight(W) = TotalWeight(A) + TotalWeight(C) - Len(C[1])
    <2>1. CountIn(Level(C, 0), Item) = Len(C[1])
      BY <1>3, <1>4, CountItem
    <2>2. /\ TotalWeight(W) = Weight(W, Item) /\ TotalWeight(A) = Weight(A, Item)
          /\ TotalWeight(C) = Weight(C, Item)
      BY <1>1, <1>7, ItemMass DEF Weight
    <2>3. Weight(W, Item) = Weight(A, Item) + Weight(C, Item) - CountIn(Level(C, 0), Item)
      BY <1>16
    <2> QED BY <2>1, <2>2, <2>3
  <1>18. Len(A) <= Len(W) /\ Len(C) <= Len(W)
    BY <1>2, <1>7
  <1> QED BY <1>4, <1>8, <1>14, <1>16, <1>17, <1>18 DEF A, C

----------------------------------------------------------------------------
(* What a sketch has seen *)

SeenTruth(seen) == [B \in SUBSET Item |-> SumOver(seen, B)]

Bounded(seen, low, high) ==
  /\ low \in Item /\ high \in Item /\ seen[low] > 0 /\ seen[high] > 0
  /\ \A x \in Item : seen[x] > 0 => low <= x /\ x <= high

\* The count, the ranks and the extremes are those of the items seen.
Recorded(s) ==
  /\ s.n = SumOver(s.seen, Item)
  /\ Near(s.levels, s.slack, SeenTruth(s.seen))
  /\ s.n = 0 => s.min = NoItem /\ s.max = NoItem /\ s.sorted = FALSE
  /\ s.n > 0 => Bounded(s.seen, s.min, s.max)

\* No absorbed item was halved away by a smaller width than minK.
Widths(s) ==
  /\ s.minK <= s.k /\ \A k \in s.ks : s.minK <= k
  /\ Depth(s) = 1 => s.minK = s.k /\ s.slack = 0 /\ s.ks = {}

\* The cached view weighs every set of items as the levels do.
Viewed(s) ==
  s.view # NoView =>
    /\ s.n > 0 /\ s.view \in Counters
    /\ \A B \in SUBSET Item : SumOver(s.view, B) = Weight(s.levels, B)

Sound(s) == Stacked(s) /\ Recorded(s) /\ Widths(s) /\ Viewed(s)

\* Sums of counters.
LEMMA CounterSums ==
  ASSUME NEW c \in Counters
  PROVE  /\ \A x \in Item : c[x] \in Nat /\ c[x] \in Int
         /\ \A B \in SUBSET Item : IsFiniteSet(B) /\ SumOver(c, B) \in Nat
         /\ SeenTruth(c) \in Truths
         /\ \A B : Down(B) => SeenTruth(c)[B] = SumOver(c, B)
  <1>1. \A x \in Item : c[x] \in Nat
    BY DEF Counters
  <1>2. \A B \in SUBSET Item : IsFiniteSet(B) /\ SumOver(c, B) \in Nat
    BY <1>1, ItemFacts, SumNat
  <1>3. SeenTruth(c) \in Truths
    BY <1>2 DEF SeenTruth, Truths
  <1>4. \A B : Down(B) => SeenTruth(c)[B] = SumOver(c, B)
    BY DEF SeenTruth, Down
  <1> QED BY <1>1, <1>2, <1>3, <1>4

\* A counter is at most the total.
LEMMA CounterPart ==
  ASSUME NEW c \in Counters, NEW B \in SUBSET Item, NEW x \in B
  PROVE  c[x] <= SumOver(c, B)
  <1> DEFINE T == B \ {x}
  <1>1. SumOver(c, B) = c[x] + SumOver(c, T)
    BY CounterSums, SumRemove
  <1>2. T \in SUBSET Item
    OBVIOUS
  <1>3. SumOver(c, T) \in Nat /\ c[x] \in Nat
    <2> HIDE DEF T
    <2> QED BY <1>2, CounterSums
  <1> HIDE DEF T
  <1> QED BY <1>1, <1>3

\* Streams put together.
Together(c, d, e) == \A x \in Item : e[x] = c[x] + d[x]

\* Streams put together sum up together.
LEMMA TogetherSums ==
  ASSUME NEW c \in Counters, NEW d \in Counters, NEW e \in Counters, Together(c, d, e)
  PROVE  \A B \in SUBSET Item : SumOver(e, B) = SumOver(c, B) + SumOver(d, B)
  <1> TAKE B \in SUBSET Item
  <1>1. \A x \in B : c[x] \in Int /\ d[x] \in Int /\ e[x] = c[x] + d[x]
    BY CounterSums DEF Together
  <1>2. IsFiniteSet(B)
    BY CounterSums
  <1> QED BY <1>1, <1>2, SumAdd

\* The extremes of two streams together are the smaller and the larger of theirs.
LEMMA BoundedJoin ==
  ASSUME NEW c \in Counters, NEW d \in Counters, NEW e \in Counters, Together(c, d, e),
         NEW low, NEW high, Bounded(d, low, high),
         NEW n, n = SumOver(c, Item), NEW min, NEW max, n > 0 => Bounded(c, min, max),
         NEW newMin, newMin = IF n = 0 \/ low < min THEN low ELSE min,
         NEW newMax, newMax = IF n = 0 \/ max < high THEN high ELSE max
  PROVE  Bounded(e, newMin, newMax)
  <1>1. \A x \in Item : c[x] \in Nat /\ d[x] \in Nat /\ e[x] = c[x] + d[x] /\ x \in Int
    BY CounterSums, ItemFacts DEF Together
  <1>2. n \in Nat
    BY CounterSums
  <1>3. CASE n = 0
    <2>1. \A x \in Item : c[x] <= 0
      BY <1>3, CounterPart
    <2>2. \A x \in Item : e[x] = d[x]
      BY <1>1, <2>1
    <2>3. newMin = low /\ newMax = high
      BY <1>3
    <2> QED BY <2>2, <2>3 DEF Bounded
  <1>4. CASE n # 0
    <2>1. /\ min \in Item /\ max \in Item /\ c[min] > 0 /\ c[max] > 0
          /\ \A x \in Item : c[x] > 0 => min <= x /\ x <= max
      BY <1>2, <1>4 DEF Bounded
    <2>2. /\ low \in Item /\ high \in Item /\ d[low] > 0 /\ d[high] > 0
          /\ \A x \in Item : d[x] > 0 => low <= x /\ x <= high
      BY DEF Bounded
    <2>3. newMin = (IF low < min THEN low ELSE min) /\ newMax = (IF max < high THEN high ELSE max)
      BY <1>4
    <2>4. min \in Int /\ max \in Int /\ low \in Int /\ high \in Int
      BY <1>1, <2>1, <2>2
    <2>5. e[newMin] > 0 /\ newMin \in Item
      <3>1. CASE low < min
        BY <1>1, <2>1, <2>2, <2>3, <3>1
      <3>2. CASE ~ (low < min)
        BY <1>1, <2>1, <2>2, <2>3, <3>2
      <3> QED BY <3>1, <3>2
    <2>6. e[newMax] > 0 /\ newMax \in Item
      <3>1. CASE max < high
        BY <1>1, <2>1, <2>2, <2>3, <3>1
      <3>2. CASE ~ (max < high)
        BY <1>1, <2>1, <2>2, <2>3, <3>2
      <3> QED BY <3>1, <3>2
    <2>7. newMin <= min /\ newMin <= low /\ max <= newMax /\ high <= newMax
          /\ newMin \in Int /\ newMax \in Int
      BY <2>3, <2>4
    <2>8. ASSUME NEW x \in Item, e[x] > 0 PROVE newMin <= x /\ x <= newMax
      <3>1. c[x] > 0 \/ d[x] > 0
        BY <1>1, <2>8
      <3>2. (min <= x /\ x <= max) \/ (low <= x /\ x <= high)
        BY <2>1, <2>2, <3>1
      <3>3. x \in Int
        BY <1>1
      <3> QED BY <2>4, <2>7, <3>2, <3>3
    <2> QED BY <2>5, <2>6, <2>8 DEF Bounded
  <1> QED BY <1>3, <1>4

\* One item is one more seen.
Once(x) == [y \in Item |-> IF y = x THEN 1 ELSE 0]

\* A stream of one item.
LEMMA OnceFacts ==
  ASSUME NEW x \in Item
  PROVE  /\ Once(x) \in Counters /\ Bounded(Once(x), x, x)
         /\ \A B \in SUBSET Item : SumOver(Once(x), B) = IF x \in B THEN 1 ELSE 0
  <1>1. Once(x) \in Counters
    BY DEF Once, Counters
  <1>2. \A y \in Item : Once(x)[y] = IF y = x THEN 1 ELSE 0
    BY DEF Once
  <1>3. Bounded(Once(x), x, x)
    <2>1. x \in Int
      BY ItemFacts
    <2> QED BY <1>2, <2>1 DEF Bounded
  <1>4. ASSUME NEW B \in SUBSET Item PROVE SumOver(Once(x), B) = IF x \in B THEN 1 ELSE 0
    <2>1. CASE x \in B
      <3> DEFINE T == B \ {x}
      <3>1. SumOver(Once(x), B) = Once(x)[x] + SumOver(Once(x), T)
        BY <1>1, <2>1, CounterSums, SumRemove
      <3>2. IsFiniteSet(T) /\ \A y \in T : Once(x)[y] = 0
        <4>1. T \in SUBSET Item /\ \A y \in T : y # x
          OBVIOUS
        <4> HIDE DEF T
        <4> QED BY <1>1, <1>2, <4>1, CounterSums
      <3>3. SumOver(Once(x), T) = 0
        <4> HIDE DEF T
        <4> QED BY <3>2, SumZero
      <3> QED BY <1>2, <2>1, <3>1, <3>3
    <2>2. CASE x \notin B
      <3>1. IsFiniteSet(B) /\ \A y \in B : Once(x)[y] = 0
        BY <1>1, <1>2, <2>2, CounterSums
      <3>2. SumOver(Once(x), B) = 0
        BY <3>1, SumZero
      <3> QED BY <2>2, <3>2
    <2> QED BY <2>1, <2>2
  <1> QED BY <1>1, <1>3, <1>4

SetBounds(s, a, b) == [s EXCEPT !.min = a, !.max = b]
SetSeen(s, c) == [s EXCEPT !.seen = c]

\* A sketch with other extremes.
LEMMA WithBounds ==
  ASSUME NEW s \in Sketches, NEW a \in Bounds, NEW b \in Bounds, NEW t, t = SetBounds(s, a, b)
  PROVE  /\ t \in Sketches /\ t.min = a /\ t.max = b
         /\ t.k = s.k /\ t.minK = s.minK /\ t.n = s.n /\ t.levels = s.levels
         /\ t.sorted = s.sorted /\ t.capacity = s.capacity /\ t.view = s.view
         /\ t.seen = s.seen /\ t.slack = s.slack /\ t.ks = s.ks
  BY DEF Sketches, SetBounds

\* A sketch that has seen something else.
LEMMA WithSeen ==
  ASSUME NEW s \in Sketches, NEW c \in Counters, NEW t, t = SetSeen(s, c)
  PROVE  /\ t \in Sketches /\ t.seen = c
         /\ t.k = s.k /\ t.minK = s.minK /\ t.n = s.n /\ t.levels = s.levels
         /\ t.sorted = s.sorted /\ t.capacity = s.capacity /\ t.view = s.view
         /\ t.min = s.min /\ t.max = s.max /\ t.slack = s.slack /\ t.ks = s.ks
  BY DEF Sketches, SetSeen

\* A sketch without its cached view.
LEMMA WithNoView ==
  ASSUME NEW s \in Sketches, NEW t, t = NoCachedView(s)
  PROVE  /\ t \in Sketches /\ t.view = NoView
         /\ t.k = s.k /\ t.minK = s.minK /\ t.n = s.n /\ t.levels = s.levels
         /\ t.sorted = s.sorted /\ t.capacity = s.capacity
         /\ t.min = s.min /\ t.max = s.max /\ t.slack = s.slack /\ t.ks = s.ks
         /\ t.seen = s.seen
  <1>1. NoView \in Views
    BY DEF Views
  <1> QED BY <1>1 DEF Sketches, NoCachedView

\* Without a cached view, what is left to show of a sketch is its levels and its
\* records.
LEMMA SoundNoView ==
  ASSUME NEW s, Stacked(s), Recorded(s), Widths(s)
  PROVE  Sound(NoCachedView(s))
  <1> DEFINE t == NoCachedView(s)
  <1>1. s \in Sketches
    BY DEF Stacked
  <1> HIDE DEF t
  <1>2. /\ t \in Sketches /\ t.view = NoView
        /\ t.k = s.k /\ t.minK = s.minK /\ t.n = s.n /\ t.levels = s.levels
        /\ t.sorted = s.sorted /\ t.capacity = s.capacity
        /\ t.min = s.min /\ t.max = s.max /\ t.slack = s.slack /\ t.ks = s.ks
        /\ t.seen = s.seen
    BY <1>1, WithNoView DEF t
  <1>3. Stacked(t)
    BY <1>2 DEF Stacked
  <1>4. Recorded(t)
    BY <1>2 DEF Recorded
  <1>5. Widths(t)
    BY <1>2 DEF Widths, Depth
  <1>6. Viewed(t)
    BY <1>2 DEF Viewed
  <1> QED BY <1>3, <1>4, <1>5, <1>6 DEF Sound, t

\* The extremes once low to high are absorbed.
NewMin(s, low) == IF s.n = 0 \/ low < s.min THEN low ELSE s.min
NewMax(s, high) == IF s.n = 0 \/ s.max < high THEN high ELSE s.max

\* The extremes after a value is absorbed; all else is as before.
LEMMA MinMaxFacts ==
  ASSUME NEW s, Stacked(s), NEW low \in Item, NEW high \in Item, NEW t, t = MinMax(s, low, high)
  PROVE  /\ Stacked(t) /\ t.min = NewMin(s, low) /\ t.max = NewMax(s, high)
         /\ t.k = s.k /\ t.minK = s.minK /\ t.n = s.n /\ t.levels = s.levels
         /\ t.view = s.view /\ t.seen = s.seen /\ t.slack = s.slack /\ t.ks = s.ks
         /\ t.sorted = s.sorted
  <1> DEFINE a == NewMin(s, low)
             b == NewMax(s, high)
  <1>1. s \in Sketches /\ s.min \in Bounds /\ s.max \in Bounds /\ low \in Bounds /\ high \in Bounds
    BY SketchTypes DEF Stacked, Bounds
  <1>2. a \in Bounds /\ b \in Bounds
    BY <1>1 DEF NewMin, NewMax
  <1>3. t = SetBounds(s, a, b)
    BY Zenon DEF MinMax, SetBounds, NewMin, NewMax
  <1> HIDE DEF a, b
  <1>4. /\ t \in Sketches /\ t.min = a /\ t.max = b
        /\ t.k = s.k /\ t.minK = s.minK /\ t.n = s.n /\ t.levels = s.levels
        /\ t.sorted = s.sorted /\ t.capacity = s.capacity /\ t.view = s.view
        /\ t.seen = s.seen /\ t.slack = s.slack /\ t.ks = s.ks
    <2>1. s \in Sketches
      BY <1>1
    <2>2. a \in Bounds
      BY <1>2
    <2>3. b \in Bounds
      BY <1>2
    <2> QED BY <1>3, <2>1, <2>2, <2>3, WithBounds
  <1>5. Stacked(t)
    BY <1>4 DEF Stacked
  <1> QED BY <1>4, <1>5 DEF a, b

\* A new sketch is sound.
LEMMA FreshSound ==
  ASSUME NEW k \in K
  PROVE  /\ Sound(Fresh(k))
         /\ Fresh(k).min = NoItem /\ Fresh(k).max = NoItem /\ Fresh(k).view = NoView
  <1> DEFINE s == Fresh(k)
             L == << <<>> >>
             c == TotalCapacity(k, 1)
             z == [x \in Item |-> 0]
             off == FALSE
  <1>1. /\ Proper(L) /\ Len(L) = 1
        /\ \A B : Weight(L, B) = 0
        /\ Retained(L) = 0 /\ TotalWeight(L) = 0
    BY FreshLevels
  <1>2. L \in Stacks /\ c \in Nat /\ z \in Counters /\ off \in Flags /\ k \in Nat /\ k \in Int
    <2>1. L \in Stacks
      BY <1>1 DEF Proper
    <2>2. k \in Nat
      BY KFacts
    <2>3. c \in Nat
      BY <2>2, TotalCapacityTo
    <2> QED BY <2>1, <2>2, <2>3 DEF Counters, Flags
  <1>3. NoItem \in Bounds /\ NoView \in Views
    BY DEF Bounds, Views
  <1>4. s = [k |-> k, minK |-> k, n |-> 0, levels |-> L, sorted |-> off,
             capacity |-> c, min |-> NoItem, max |-> NoItem, view |-> NoView,
             seen |-> z, slack |-> 0, ks |-> {}]
    BY Zenon DEF Fresh
  <1>5. \A x \in Item : z[x] = 0
    OBVIOUS
  <1> HIDE DEF s, L, c, z, off
  <1>6. s \in Sketches
    BY <1>2, <1>3, <1>4 DEF Sketches
  <1>7. /\ s.k = k /\ s.minK = k /\ s.n = 0 /\ s.levels = L /\ s.sorted = off
        /\ s.capacity = c /\ s.min = NoItem /\ s.max = NoItem /\ s.view = NoView
        /\ s.seen = z /\ s.slack = 0 /\ s.ks = {}
    BY <1>4
  <1>8. Stacked(s)
    <2>1. ~ off
      BY DEF off
    <2>2. s.capacity = TotalCapacity(s.k, Len(s.levels))
      BY <1>1, <1>7 DEF c
    <2>3. Retained(s.levels) <= s.capacity
      BY <1>1, <1>2, <1>7
    <2>4. ~ s.sorted
      BY <1>7, <2>1
    <2> QED BY <1>1, <1>6, <1>7, <2>2, <2>3, <2>4 DEF Stacked
  <1>9. Recorded(s)
    <2>1. \A B \in SUBSET Item : SumOver(z, B) = 0
      <3> TAKE B \in SUBSET Item
      <3>1. IsFiniteSet(B) /\ \A x \in B : z[x] = 0
        BY <1>2, <1>5, CounterSums
      <3> QED BY <3>1, SumZero
    <2>2. Near(L, 0, SeenTruth(z))
      <3>1. ASSUME NEW B, Down(B) PROVE Within(Weight(L, B) - SeenTruth(z)[B], 0)
        <4>1. Weight(L, B) = 0
          BY <1>1
        <4>2. SeenTruth(z)[B] = 0
          BY <1>2, <2>1, <3>1, CounterSums DEF Down
        <4> QED BY <4>1, <4>2 DEF Within
      <3> QED BY <3>1 DEF Near
    <2>3. SumOver(z, Item) = 0
      BY <2>1
    <2>4. s.sorted = FALSE
      BY <1>7 DEF off
    <2> QED BY <1>7, <2>2, <2>3, <2>4 DEF Recorded
  <1>10. Widths(s)
    <2>1. k <= k
      BY <1>2
    <2> QED BY <1>7, <2>1 DEF Widths
  <1>11. Viewed(s)
    BY <1>7 DEF Viewed
  <1> QED BY <1>7, <1>8, <1>9, <1>10, <1>11 DEF Sound, s

----------------------------------------------------------------------------
(* An update *)

\* Ranks near one truth are near an equal one.
LEMMA NearSame ==
  ASSUME NEW levels, NEW slack, NEW f, NEW g, Near(levels, slack, f),
         \A B : Down(B) => g[B] = f[B]
  PROVE  Near(levels, slack, g)
  BY DEF Near

\* Growing keeps minK below every width used.
LEMMA WidthsGrown ==
  ASSUME NEW s, NEW t, Stacked(s), Stacked(t), Grown(s, t), Widths(s)
  PROVE  Widths(t)
  <1>1. /\ Depth(s) \in Nat /\ Depth(t) \in Nat /\ Depth(s) >= 1
        /\ Depth(s) <= Depth(t)
    BY DepthType DEF Grown
  <1>2. t.k = s.k /\ t.minK = s.minK
    BY DEF Grown, Same
  <1>3. s.minK <= s.k /\ \A k \in s.ks : s.minK <= k
    BY DEF Widths
  <1>4. \A k \in t.ks : k \in s.ks \/ k = s.k
    BY DEF Grown
  <1>5. ASSUME Depth(t) = 1 PROVE t.minK = t.k /\ t.slack = 0 /\ t.ks = {}
    <2>1. Depth(s) = 1
      BY <1>1, <1>5
    <2>2. s.minK = s.k /\ s.slack = 0 /\ s.ks = {}
      BY <2>1 DEF Widths
    <2>3. t.slack = s.slack /\ t.ks = s.ks
      BY <1>5 DEF Grown
    <2> QED BY <1>2, <2>2, <2>3
  <1>6. t.minK <= t.k /\ \A k \in t.ks : t.minK <= k
    BY <1>2, <1>3, <1>4
  <1> QED BY <1>5, <1>6 DEF Widths

Updated(s, x) == [MinMax(s, x, x) EXCEPT !.seen[x] = @ + 1]

\* An update leaves the sketch sound, whatever the coin tosses.
LEMMA UpdatedSound ==
  ASSUME NEW s, Sound(s), NEW x \in Item, NEW t \in Inserted(Updated(s, x), x)
  PROVE  Sound(NoCachedView(t))
  <1> DEFINE m == MinMax(s, x, x)
             c == [s.seen EXCEPT ![x] = s.seen[x] + 1]
             u == Updated(s, x)
  <1>1. Stacked(s) /\ Recorded(s) /\ Widths(s) /\ s \in Sketches
    BY DEF Sound, Stacked
  <1>2. s.seen \in Counters /\ s.n \in Nat /\ s.slack \in Nat
    BY <1>1, SketchTypes
  <1>3. /\ Stacked(m) /\ m.min = NewMin(s, x) /\ m.max = NewMax(s, x)
        /\ m.k = s.k /\ m.minK = s.minK /\ m.n = s.n /\ m.levels = s.levels
        /\ m.view = s.view /\ m.seen = s.seen /\ m.slack = s.slack /\ m.ks = s.ks
        /\ m.sorted = s.sorted
    BY <1>1, MinMaxFacts
  <1>4. c \in Counters /\ Together(s.seen, Once(x), c)
    <2>1. \A y \in Item : s.seen[y] \in Nat
      BY <1>2, CounterSums
    <2>2. c \in Counters
      BY <1>2, <2>1 DEF Counters
    <2>3. \A y \in Item : c[y] = s.seen[y] + (IF y = x THEN 1 ELSE 0)
      BY <1>2, <2>1 DEF Counters
    <2> QED BY <2>2, <2>3 DEF Together, Once
  <1>5. u = SetSeen(m, c)
    <2>1. u = SetSeen(m, [m.seen EXCEPT ![x] = m.seen[x] + 1])
      BY Zenon DEF Updated, SetSeen
    <2>2. m.seen = s.seen
      BY <1>3
    <2> HIDE DEF m, u
    <2> QED BY <2>1, <2>2
  <1> HIDE DEF m, c, u
  <1>6. m \in Sketches
    BY <1>3 DEF Stacked
  <1>7. /\ u \in Sketches /\ u.seen = c
        /\ u.k = m.k /\ u.minK = m.minK /\ u.n = m.n /\ u.levels = m.levels
        /\ u.sorted = m.sorted /\ u.capacity = m.capacity /\ u.view = m.view
        /\ u.min = m.min /\ u.max = m.max /\ u.slack = m.slack /\ u.ks = m.ks
    BY <1>4, <1>5, <1>6, WithSeen
  <1>8. Stacked(u)
    BY <1>3, <1>7 DEF Stacked
  <1> DEFINE truth == SeenTruth(s.seen)
  <1>9. truth \in Truths
    BY <1>2, CounterSums
  <1>10. Near(u.levels, u.slack, truth)
    BY <1>1, <1>3, <1>7 DEF Recorded
  <1> HIDE DEF truth
  <1>11. t \in Inserted(u, x)
    BY DEF u
  <1>12. /\ Stacked(t) /\ Grown(u, t) /\ Near(t.levels, t.slack, Plus(truth, x))
         /\ t.n = u.n + 1 /\ t.sorted = FALSE
    BY <1>8, <1>9, <1>10, <1>11, InsertedFacts
  <1>13. \A B \in SUBSET Item : SumOver(c, B) = SumOver(s.seen, B) + (IF x \in B THEN 1 ELSE 0)
    <2>1. \A B \in SUBSET Item : SumOver(c, B) = SumOver(s.seen, B) + SumOver(Once(x), B)
      BY <1>2, <1>4, OnceFacts, TogetherSums
    <2> QED BY <2>1, OnceFacts
  <1>14. Near(t.levels, t.slack, SeenTruth(c))
    <2>1. \A B : Down(B) => SeenTruth(c)[B] = Plus(truth, x)[B]
      <3> TAKE B
      <3>1. HAVE Down(B)
      <3>2. SeenTruth(c)[B] = SumOver(c, B) /\ truth[B] = SumOver(s.seen, B)
        BY <1>2, <1>4, <3>1, CounterSums DEF truth
      <3>3. Plus(truth, x)[B] = truth[B] + (IF x \in B THEN 1 ELSE 0)
        BY <1>9, <3>1, PlusFacts
      <3>4. B \in SUBSET Item
        BY <3>1 DEF Down
      <3> QED BY <1>13, <3>2, <3>3, <3>4
    <2> QED BY <1>12, <2>1, NearSame
  <1>15. t.seen = c /\ t.min = NewMin(s, x) /\ t.max = NewMax(s, x) /\ t.n = s.n + 1
    BY <1>3, <1>7, <1>12 DEF Grown, Same
  <1>16. Recorded(t)
    <2>1. s.n = SumOver(s.seen, Item) /\ (s.n > 0 => Bounded(s.seen, s.min, s.max))
      BY <1>1 DEF Recorded
    <2>2. t.n = SumOver(c, Item)
      BY <1>13, <1>15, <2>1
    <2>3. Bounded(c, NewMin(s, x), NewMax(s, x))
      BY <1>2, <1>4, <2>1, OnceFacts, BoundedJoin DEF NewMin, NewMax
    <2>4. t.n # 0
      BY <1>2, <1>15
    <2> QED BY <1>14, <1>15, <2>2, <2>3, <2>4 DEF Recorded
  <1>17. Widths(t)
    <2>1. Widths(u)
      BY <1>1, <1>3, <1>7 DEF Widths, Depth
    <2> QED BY <1>8, <1>12, <2>1, WidthsGrown
  <1> QED BY <1>12, <1>16, <1>17, SoundNoView

----------------------------------------------------------------------------
(* A merge *)

SetMerged(s, L, c, d, e) == [s EXCEPT !.levels = L, !.capacity = c, !.slack = d, !.ks = e]

\* A sketch with merged levels.
LEMMA WithMerged ==
  ASSUME NEW s \in Sketches, NEW L \in Stacks, NEW c \in Nat, NEW d \in Nat, NEW e \in SUBSET K,
         NEW t, t = SetMerged(s, L, c, d, e)
  PROVE  /\ t \in Sketches /\ t.levels = L /\ t.capacity = c /\ t.slack = d /\ t.ks = e
         /\ Same(s, t) /\ t.n = s.n /\ t.sorted = s.sorted
  BY DEF Sketches, SetMerged, Same

\* All the weight of a single level.
LEMMA OneLevel ==
  ASSUME NEW levels, Proper(levels), Len(levels) = 1
  PROVE  /\ \A B : Weight(levels, B) = CountIn(levels[1], B)
         /\ TotalWeight(levels) = Len(levels[1])
  <1>1. levels \in Stacks /\ levels[1] \in Seq(Item) /\ Level(levels, 0) = levels[1]
    <2>1. levels \in Stacks
      BY DEF Proper
    <2>2. Level(levels, 0) = levels[0 + 1] /\ Level(levels, 0) \in Seq(Item)
      <3>1. 0 \in 0..(Len(levels) - 1)
        OBVIOUS
      <3> QED BY <2>1, <3>1, LevelType
    <2> QED BY <2>1, <2>2
  <1>2. \A B : Weight(levels, B) = CountIn(levels[1], B)
    <2> TAKE B
    <2> DEFINE f == Masses(Powers, levels, B)
    <2>1. SumTo(f, 1) = Weight(levels, B)
      <3>1. 1 \in Nat /\ 1 >= Len(levels)
        OBVIOUS
      <3> QED BY <1>1, <3>1, MassBeyond, GainsType DEF Weight
    <2>2. f[0] = Powers[0] * CountIn(levels[1], B) /\ CountIn(levels[1], B) \in Nat /\ f[0] \in Int
      BY <1>1, MassesType, GainsType
    <2>3. Powers[0] = 1
      BY PowerDef DEF Powers
    <2>4. SumTo(f, 0 + 1) = SumTo(f, 0) + f[0]
      <3> HIDE DEF f
      <3>1. 0 \in Nat /\ \A i \in 0..0 : f[i] \in Int
        BY <2>2
      <3> QED BY <3>1, SumToStep
    <2>5. SumTo(f, 0) = 0
      BY SumToZero
    <2> HIDE DEF f
    <2>6. f[0] = CountIn(levels[1], B)
      BY <2>2, <2>3
    <2>7. SumTo(f, 1) = CountIn(levels[1], B)
      BY <2>2, <2>4, <2>5, <2>6
    <2> QED BY <2>1, <2>7
  <1>3. TotalWeight(levels) = Weight(levels, Item)
    BY <1>1, ItemMass DEF Weight
  <1>4. Weight(levels, Item) = Len(levels[1])
    BY <1>1, <1>2, CountItem
  <1> QED BY <1>2, <1>3, <1>4

\* v is m with the items of t: truth is that of m.
Risen(v, m, t, n, truth) ==
  /\ v \in Sketches /\ Proper(v.levels)
  /\ v.sorted => Sorted(Level(v.levels, 0))
  /\ v.capacity = TotalCapacity(v.k, Len(v.levels))
  /\ Retained(v.levels) <= v.capacity
  /\ TotalWeight(v.levels) = n
  /\ Grown(m, v)
  /\ Depth(t) > 1 => Depth(v) > 1
  /\ \A B : Down(B) =>
       Within(Weight(v.levels, B) - (truth[B] + Weight(t.levels, B)), v.slack)

\* The merge of a sketch of one level.
LEMMA LowRisen ==
  ASSUME NEW m, Stacked(m), NEW t, Stacked(t), Depth(t) = 1, NEW truth \in Truths,
         Near(m.levels, m.slack, truth), NEW v \in WithItems(m, t.levels[1]),
         NEW n, n = m.n + t.n
  PROVE  Risen(v, m, t, n, truth)
  <1> DEFINE items == t.levels[1]
  <1>1. Proper(t.levels) /\ Len(t.levels) = 1 /\ TotalWeight(t.levels) = t.n
    BY DEF Stacked, Depth
  <1>2. /\ \A B : Weight(t.levels, B) = CountIn(items, B)
        /\ t.n = Len(items)
    BY <1>1, OneLevel
  <1>3. items \in Seq(Item) /\ Len(items) \in Nat
    <2>1. t.levels \in Seq(Seq(Item)) /\ 1 \in 1..Len(t.levels)
      BY <1>1 DEF Proper, Stacks
    <2>2. items \in Seq(Item)
      BY <2>1, ElementOfSeq
    <2> QED BY <2>2, LenProperties
  <1> HIDE DEF items
  <1>4. Fed(v, m, truth, items, Len(items))
    BY <1>3, WithItemsFacts DEF items
  <1>5. /\ Stacked(v) /\ Grown(m, v)
        /\ Near(v.levels, v.slack, FedTruth(truth, items, Len(items)))
        /\ v.n = m.n + Len(items)
    BY <1>4 DEF Fed
  <1>6. \A B : Down(B) =>
          Within(Weight(v.levels, B) - (truth[B] + Weight(t.levels, B)), v.slack)
    <2> SUFFICES ASSUME NEW B, Down(B)
                 PROVE  Within(Weight(v.levels, B) - (truth[B] + Weight(t.levels, B)), v.slack)
      OBVIOUS
    <2>1. FedTruth(truth, items, Len(items))[B] = truth[B] + CountTo(items, Len(items), B)
      BY DEF FedTruth, Down
    <2>2. Weight(t.levels, B) = CountTo(items, Len(items), B)
      BY <1>2 DEF CountIn
    <2>3. Within(Weight(v.levels, B) - FedTruth(truth, items, Len(items))[B], v.slack)
      BY <1>5 DEF Near
    <2> QED BY <2>1, <2>2, <2>3
  <1>7. TotalWeight(v.levels) = n
    BY <1>2, <1>5 DEF Stacked
  <1> QED BY <1>5, <1>6, <1>7 DEF Risen, Stacked

\* The merge of a sketch of several levels.
LEMMA HighRisen ==
  ASSUME NEW m, Stacked(m), NEW t, Stacked(t), Depth(t) > 1, NEW truth \in Truths,
         Near(m.levels, m.slack, truth), NEW u \in WithItems(m, t.levels[1]),
         NEW n, n = m.n + t.n, NEW v \in HigherMerged(u, t, n)
  PROVE  Risen(v, m, t, n, truth)
  <1> DEFINE items == t.levels[1]
             W == WorkLevels(u, t)
  <1>1. /\ Proper(t.levels) /\ TotalWeight(t.levels) = t.n /\ t.levels \in Stacks
        /\ Len(t.levels) \in Nat /\ Len(t.levels) >= 1 /\ m.n \in Nat /\ t.n \in Nat
        /\ Depth(t) = Len(t.levels)
    BY LevelType, SketchTypes DEF Stacked, Depth, Proper
  <1>2. items \in Seq(Item) /\ Len(items) \in Nat
    <2>1. t.levels \in Seq(Seq(Item)) /\ 1 \in 1..Len(t.levels)
      BY <1>1 DEF Stacks
    <2>2. items \in Seq(Item)
      BY <2>1, ElementOfSeq
    <2> QED BY <2>2, LenProperties
  <1>3. Fed(u, m, truth, items, Len(items))
    BY <1>2, WithItemsFacts
  <1>4. /\ Stacked(u) /\ Grown(m, u)
        /\ Near(u.levels, u.slack, FedTruth(truth, items, Len(items)))
        /\ u.n = m.n + Len(items)
    BY <1>3 DEF Fed
  <1>5. /\ u \in Sketches /\ Proper(u.levels) /\ u.levels \in Stacks /\ TotalWeight(u.levels) = u.n
        /\ u.k \in Nat /\ u.k \in K /\ u.slack \in Nat /\ u.ks \in SUBSET K
        /\ u.sorted => Sorted(Level(u.levels, 0))
    BY <1>4, SketchTypes, KFacts DEF Stacked, Proper
  <1>6. /\ Proper(W) /\ Len(u.levels) <= Len(W) /\ Len(t.levels) <= Len(W)
        /\ Level(W, 0) = Level(u.levels, 0)
        /\ \A B : Weight(W, B) = Weight(u.levels, B) + Weight(t.levels, B) - CountIn(items, B)
        /\ TotalWeight(W) = TotalWeight(u.levels) + TotalWeight(t.levels) - Len(items)
    BY <1>1, <1>5, WorkLevelsFacts
  <1>7. PICK w \in GeneralCompressed(u.k, W, u.sorted, n) :
          v = SetMerged(u, w.levels, w.target, u.slack + w.slack, u.ks \cup w.ks)
    BY Zenon DEF HigherMerged, SetMerged
  <1> HIDE DEF items, W
  <1>8. n = TotalWeight(W)
    BY <1>1, <1>2, <1>4, <1>5, <1>6
  <1>9. u.sorted => Sorted(Level(W, 0))
    BY <1>5, <1>6
  <1>10. Swept(w, u.k, W, u.sorted) /\ Retained(w.levels) <= w.target
    BY <1>5, <1>6, <1>7, <1>8, <1>9, GeneralCompressedFacts
  <1>11. /\ Proper(w.levels) /\ Len(W) <= Len(w.levels)
         /\ w.target = TotalCapacity(u.k, Len(w.levels))
         /\ TotalWeight(w.levels) = TotalWeight(W)
         /\ u.sorted => Sorted(Level(w.levels, 0))
         /\ w.slack \in Nat /\ w.ks \subseteq {u.k}
         /\ \A B : Down(B) => Within(Weight(w.levels, B) - Weight(W, B), w.slack)
    BY <1>10 DEF Swept
  <1> DEFINE L == w.levels
             c == w.target
             d == u.slack + w.slack
             e == u.ks \cup w.ks
  <1>12. L \in Stacks /\ c \in Nat /\ d \in Nat /\ e \in SUBSET K /\ W \in Stacks
    <2>1. L \in Stacks /\ Len(L) \in Nat /\ W \in Stacks
      BY <1>6, <1>11, LevelType DEF Proper
    <2>2. c \in Nat
      <3>1. c = TotalCapacity(u.k, Len(L)) /\ u.k \in Nat
        BY <1>5, <1>11
      <3> QED BY <2>1, <3>1, TotalCapacityTo
    <2>3. d \in Nat
      BY <1>5, <1>11
    <2>4. e \in SUBSET K
      BY <1>5, <1>11
    <2> QED BY <2>1, <2>2, <2>3, <2>4
  <1>13. v = SetMerged(u, L, c, d, e)
    BY <1>7
  <1> HIDE DEF L, c, d, e
  <1>14. /\ v \in Sketches /\ v.levels = L /\ v.capacity = c /\ v.slack = d /\ v.ks = e
         /\ Same(u, v) /\ v.n = u.n /\ v.sorted = u.sorted
    BY <1>5, <1>12, <1>13, WithMerged
  <1>15. Depth(u) <= Depth(v) /\ Depth(t) <= Depth(v) /\ Depth(v) \in Nat /\ Depth(v) > 1
    <2>1. Depth(u) = Len(u.levels) /\ Depth(v) = Len(w.levels)
      BY <1>14 DEF Depth, L
    <2>2. Len(u.levels) \in Nat /\ Len(W) \in Nat /\ Len(w.levels) \in Nat
      BY <1>5, <1>12, LevelType DEF L
    <2>3. Len(u.levels) <= Len(W) /\ Len(t.levels) <= Len(W) /\ Len(W) <= Len(w.levels)
      BY <1>6, <1>11
    <2> DEFINE p == Len(u.levels)
               q == Len(t.levels)
               r == Len(W)
               x == Len(w.levels)
    <2>4. /\ p \in Nat /\ q \in Nat /\ r \in Nat /\ x \in Nat /\ p <= r /\ q <= r /\ r <= x
          /\ Depth(u) = p /\ Depth(v) = x /\ Depth(t) = q
      BY <1>1, <2>1, <2>2, <2>3
    <2> HIDE DEF p, q, r, x
    <2> QED BY <2>4
  <1>16. Grown(m, v)
    <2>1. Grown(u, v)
      <3>1. v.ks \subseteq u.ks \cup {u.k}
        BY <1>11, <1>14 DEF e
      <3>2. Depth(v) # 1
        BY <1>15
      <3> QED BY <1>14, <1>15, <3>1, <3>2 DEF Grown
    <2>2. Same(m, v)
      BY <1>4, <1>14 DEF Grown, Same
    <2>3. Depth(m) <= Depth(v) /\ Depth(v) # 1
      <3>1. Depth(m) <= Depth(u)
        BY <1>4 DEF Grown
      <3>2. Depth(m) \in Nat /\ Depth(u) \in Nat
        BY <1>4, DepthType
      <3> QED BY <1>15, <3>1, <3>2
    <2>4. v.ks \subseteq m.ks \cup {m.k}
      <3>1. v.ks \subseteq u.ks \cup {u.k} /\ u.ks \subseteq m.ks \cup {m.k}
        BY <1>4, <2>1 DEF Grown
      <3>2. u.k = m.k
        BY <1>4 DEF Grown, Same
      <3> QED BY <3>1, <3>2
    <2> QED BY <2>2, <2>3, <2>4 DEF Grown
  <1>17. \A B : Down(B) =>
           Within(Weight(v.levels, B) - (truth[B] + Weight(t.levels, B)), v.slack)
    <2> SUFFICES ASSUME NEW B, Down(B)
                 PROVE  Within(Weight(L, B) - (truth[B] + Weight(t.levels, B)), d)
      BY <1>14
    <2>1. FedTruth(truth, items, Len(items))[B] = truth[B] + CountIn(items, B)
      BY DEF FedTruth, Down, CountIn
    <2>2. Within(Weight(u.levels, B) - (truth[B] + CountIn(items, B)), u.slack)
      BY <1>4, <2>1 DEF Near
    <2>3. Within(Weight(L, B) - Weight(W, B), w.slack)
      BY <1>11 DEF L
    <2>4. Weight(W, B) = Weight(u.levels, B) + Weight(t.levels, B) - CountIn(items, B)
      BY <1>6
    <2>5. truth[B] \in Int
      BY DEF Truths, Down
    <2>6. CountIn(items, B) \in Int
      BY <1>2, CountType DEF CountIn
    <2>7. /\ Weight(L, B) \in Nat /\ Weight(W, B) \in Nat /\ Weight(u.levels, B) \in Nat
          /\ Weight(t.levels, B) \in Nat
      BY <1>1, <1>5, <1>12, MassNat
    <2> DEFINE lb == Weight(L, B)
               wb == Weight(W, B)
               ub == Weight(u.levels, B)
               tb == Weight(t.levels, B)
               cb == CountIn(items, B)
               ob == truth[B]
    <2>8. /\ lb \in Int /\ wb \in Int /\ ub \in Int /\ tb \in Int /\ cb \in Int /\ ob \in Int
          /\ u.slack \in Int /\ w.slack \in Int /\ wb = ub + tb - cb
          /\ -u.slack <= ub - (ob + cb) /\ ub - (ob + cb) <= u.slack
          /\ -w.slack <= lb - wb /\ lb - wb <= w.slack
      BY <1>5, <1>11, <2>2, <2>3, <2>4, <2>5, <2>6, <2>7, SMTT(30) DEF Within
    <2> HIDE DEF lb, wb, ub, tb, cb, ob
    <2>9. -(u.slack + w.slack) <= lb - (ob + tb) /\ lb - (ob + tb) <= u.slack + w.slack
      BY <2>8
    <2> QED BY <2>9 DEF Within, lb, ob, tb, d
  <1>18. v.capacity = TotalCapacity(v.k, Len(v.levels))
    BY <1>11, <1>14 DEF Same, L, c
  <1>19. Retained(v.levels) <= v.capacity
    BY <1>10, <1>14 DEF L, c
  <1>20. v.sorted => Sorted(Level(v.levels, 0))
    BY <1>11, <1>14 DEF L
  <1>21. TotalWeight(v.levels) = n /\ Proper(v.levels)
    BY <1>8, <1>11, <1>14 DEF L
  <1> QED BY <1>14, <1>15, <1>16, <1>17, <1>18, <1>19, <1>20, <1>21 DEF Risen

SetTotals(s, n, w, c, d, e) ==
  [s EXCEPT !.n = n, !.minK = w, !.seen = c, !.slack = d, !.ks = e]

\* A sketch with the totals of a merge.
LEMMA WithTotals ==
  ASSUME NEW s \in Sketches, NEW n \in Nat, NEW w \in K, NEW c \in Counters, NEW d \in Nat,
         NEW e \in SUBSET K, NEW t, t = SetTotals(s, n, w, c, d, e)
  PROVE  /\ t \in Sketches /\ t.n = n /\ t.minK = w /\ t.seen = c /\ t.slack = d /\ t.ks = e
         /\ t.k = s.k /\ t.levels = s.levels /\ t.sorted = s.sorted
         /\ t.capacity = s.capacity /\ t.min = s.min /\ t.max = s.max /\ t.view = s.view
  BY DEF Sketches, SetTotals

\* min_k_ after a merge is below every width either sketch has halved by.
LEMMA EffectiveKFacts ==
  ASSUME NEW s, NEW t, Stacked(s), Stacked(t), Widths(s), Widths(t)
  PROVE  /\ EffectiveK(s, t) \in K
         /\ EffectiveK(s, t) <= s.minK
         /\ \A k \in t.ks : EffectiveK(s, t) <= k
         /\ Depth(t) = 1 => EffectiveK(s, t) = s.minK
  <1>1. /\ s.minK \in K /\ t.minK \in K /\ s.minK \in Int /\ t.minK \in Int
        /\ \A k \in t.ks : k \in Int
    <2>1. s.minK \in K /\ t.minK \in K /\ t.ks \in SUBSET K
      BY SketchTypes DEF Stacked
    <2> QED BY <2>1, KFacts
  <1>2. CASE Len(t.levels) > 1
    <2>1. EffectiveK(s, t) = Min({s.minK, t.minK})
      BY <1>2 DEF EffectiveK
    <2>2. Min({s.minK, t.minK}) = IF s.minK <= t.minK THEN s.minK ELSE t.minK
      BY <1>1, MinOfTwo
    <2>3. EffectiveK(s, t) \in K /\ EffectiveK(s, t) <= s.minK /\ EffectiveK(s, t) <= t.minK
          /\ EffectiveK(s, t) \in Int
      BY <1>1, <2>1, <2>2
    <2>4. \A k \in t.ks : t.minK <= k
      BY DEF Widths
    <2>5. \A k \in t.ks : EffectiveK(s, t) <= k
      BY <1>1, <2>3, <2>4
    <2>6. Depth(t) # 1
      <3>1. Depth(t) > 1
        BY <1>2 DEF Depth
      <3>2. Depth(t) \in Nat
        BY DepthType
      <3> QED BY <3>1, <3>2
    <2> QED BY <2>3, <2>5, <2>6
  <1>3. CASE ~ (Len(t.levels) > 1)
    <2>1. EffectiveK(s, t) = s.minK
      BY <1>3 DEF EffectiveK
    <2>2. Depth(t) = 1
      <3>1. Depth(t) \in Nat /\ Depth(t) >= 1 /\ ~ (Depth(t) > 1)
        BY <1>3, DepthType DEF Depth
      <3> QED BY <3>1
    <2>3. t.ks = {}
      BY <2>2 DEF Widths
    <2>4. s.minK <= s.minK
      BY <1>1
    <2> QED BY <1>1, <2>1, <2>3, <2>4
  <1> QED BY <1>2, <1>3

\* A merge leaves its receiver sound, whatever the coin tosses.
LEMMA MergedSound ==
  ASSUME NEW s, Sound(s), NEW t, Sound(t), t.n > 0, NEW r \in Merged(s, t)
  PROVE  Sound(r)
  <1> DEFINE n == s.n + t.n
             m == MinMax(s, t.min, t.max)
             base == WithItems(m, t.levels[1])
             all == IF Len(t.levels) >= 2 THEN UNION {HigherMerged(u, t, n) : u \in base} ELSE base
             c == [x \in Item |-> s.seen[x] + t.seen[x]]
             w == EffectiveK(s, t)
             truth == SeenTruth(s.seen)
  <1>1. /\ Stacked(s) /\ Recorded(s) /\ Widths(s) /\ s \in Sketches
        /\ Stacked(t) /\ Recorded(t) /\ Widths(t) /\ t \in Sketches
    BY DEF Sound, Stacked
  <1>2. /\ s.seen \in Counters /\ s.n \in Nat /\ s.slack \in Nat /\ s.ks \in SUBSET K
        /\ t.seen \in Counters /\ t.n \in Nat /\ t.slack \in Nat /\ t.ks \in SUBSET K
    BY <1>1, SketchTypes
  <1>3. PICK v \in all : r = NoCachedView(SetTotals(v, n, w, c, v.slack + t.slack, v.ks \cup t.ks))
    BY Zenon DEF Merged, SetTotals
  <1>4. Bounded(t.seen, t.min, t.max)
    BY <1>1 DEF Recorded
  <1>5. /\ Stacked(m) /\ m.min = NewMin(s, t.min) /\ m.max = NewMax(s, t.max)
        /\ m.k = s.k /\ m.minK = s.minK /\ m.n = s.n /\ m.levels = s.levels
        /\ m.seen = s.seen /\ m.slack = s.slack /\ m.ks = s.ks
    <2>1. t.min \in Item /\ t.max \in Item
      BY <1>4 DEF Bounded
    <2> QED BY <1>1, <2>1, MinMaxFacts, SMTT(30)
  <1>6. Widths(m)
    BY <1>1, <1>5 DEF Widths, Depth
  <1>7. c \in Counters /\ Together(s.seen, t.seen, c)
    <2>1. \A x \in Item : s.seen[x] \in Nat /\ t.seen[x] \in Nat
      BY <1>2, CounterSums
    <2> QED BY <2>1 DEF Counters, Together
  <1>8. truth \in Truths /\ \A B : Down(B) => truth[B] = SumOver(s.seen, B)
    BY <1>2, CounterSums
  <1>9. Near(m.levels, m.slack, truth)
    BY <1>1, <1>5 DEF Recorded
  <1>10. n = m.n + t.n /\ n \in Nat /\ n # 0
    BY <1>2, <1>5
  <1> HIDE DEF n, m, c, w, truth
  <1>11. Risen(v, m, t, n, truth)
    <2>0. Depth(t) = Len(t.levels) /\ Depth(t) \in Nat /\ Depth(t) >= 1
      BY <1>1, DepthType DEF Depth
    <2>1. CASE Len(t.levels) >= 2
      <3>1. PICK u \in base : v \in HigherMerged(u, t, n)
        BY <2>1
      <3>2. Depth(t) > 1
        BY <2>0, <2>1
      <3> QED BY <1>1, <1>5, <1>8, <1>9, <1>10, <3>1, <3>2, HighRisen
    <2>2. CASE ~ (Len(t.levels) >= 2)
      <3>1. v \in base
        BY <2>2
      <3>2. Depth(t) = 1
        <4>1. ~ (Depth(t) >= 2)
          BY <2>2 DEF Depth
        <4>2. Depth(t) \in Nat /\ Depth(t) >= 1
          BY <1>1, DepthType
        <4> QED BY <4>1, <4>2
      <3> QED BY <1>1, <1>5, <1>8, <1>9, <1>10, <3>1, <3>2, LowRisen
    <2> QED BY <2>1, <2>2
  <1> HIDE DEF base, all
  <1>12. /\ v \in Sketches /\ Proper(v.levels)
         /\ v.sorted => Sorted(Level(v.levels, 0))
         /\ v.capacity = TotalCapacity(v.k, Len(v.levels))
         /\ Retained(v.levels) <= v.capacity
         /\ TotalWeight(v.levels) = n
         /\ Grown(m, v)
         /\ Depth(t) > 1 => Depth(v) > 1
         /\ \A B : Down(B) =>
              Within(Weight(v.levels, B) - (truth[B] + Weight(t.levels, B)), v.slack)
    BY <1>11 DEF Risen
  <1> DEFINE d == v.slack + t.slack
             e == v.ks \cup t.ks
             z == SetTotals(v, n, w, c, d, e)
  <1>13. w \in K /\ w <= s.minK /\ (\A k \in t.ks : w <= k) /\ (Depth(t) = 1 => w = s.minK)
    BY <1>1, EffectiveKFacts DEF w
  <1>14. d \in Nat /\ e \in SUBSET K /\ v.slack \in Nat /\ v.levels \in Stacks
    <2>1. v.slack \in Nat /\ v.ks \in SUBSET K /\ v.levels \in Stacks
      BY <1>12, SketchTypes
    <2> QED BY <1>2, <2>1
  <1>15. r = NoCachedView(z)
    BY <1>3
  <1>16. z = SetTotals(v, n, w, c, d, e)
    OBVIOUS
  <1> HIDE DEF d, e, z
  <1>17. /\ z \in Sketches /\ z.n = n /\ z.minK = w /\ z.seen = c /\ z.slack = d /\ z.ks = e
         /\ z.k = v.k /\ z.levels = v.levels /\ z.sorted = v.sorted
         /\ z.capacity = v.capacity /\ z.min = v.min /\ z.max = v.max /\ z.view = v.view
    BY <1>7, <1>10, <1>12, <1>13, <1>14, <1>16, WithTotals
  <1>18. Stacked(z)
    BY <1>12, <1>17 DEF Stacked
  <1>19. /\ v.k = m.k /\ v.min = m.min /\ v.max = m.max
         /\ v.ks \subseteq m.ks \cup {m.k} /\ Depth(m) <= Depth(v)
         /\ Depth(v) = 1 => v.slack = m.slack /\ v.ks = m.ks
    BY <1>12 DEF Grown, Same
  <1>20. Recorded(z)
    <2>1. \A B \in SUBSET Item : SumOver(c, B) = SumOver(s.seen, B) + SumOver(t.seen, B)
      BY <1>2, <1>7, TogetherSums
    <2>2. s.n = SumOver(s.seen, Item) /\ t.n = SumOver(t.seen, Item)
      BY <1>1 DEF Recorded
    <2>3. z.n = SumOver(c, Item)
      BY <1>17, <2>1, <2>2 DEF n
    <2>4. Near(z.levels, z.slack, SeenTruth(c))
      <3> SUFFICES ASSUME NEW B, Down(B)
                   PROVE  Within(Weight(v.levels, B) - SeenTruth(c)[B], d)
        BY <1>17 DEF Near
      <3>1. SeenTruth(c)[B] = SumOver(c, B) /\ truth[B] = SumOver(s.seen, B)
            /\ SeenTruth(t.seen)[B] = SumOver(t.seen, B)
        BY <1>2, <1>7, <1>8, CounterSums
      <3>2. SumOver(c, B) = SumOver(s.seen, B) + SumOver(t.seen, B)
            /\ SumOver(s.seen, B) \in Nat /\ SumOver(t.seen, B) \in Nat
        BY <1>2, <2>1, CounterSums DEF Down
      <3>3. Within(Weight(v.levels, B) - (truth[B] + Weight(t.levels, B)), v.slack)
        BY <1>12
      <3>4. Within(Weight(t.levels, B) - SeenTruth(t.seen)[B], t.slack)
        BY <1>1 DEF Recorded, Near
      <3>5. Weight(v.levels, B) \in Nat /\ Weight(t.levels, B) \in Nat
        <4>1. t.levels \in Stacks
          BY <1>1, SketchTypes
        <4> QED BY <1>14, <4>1, MassNat
      <3> DEFINE vb == Weight(v.levels, B)
                 tb == Weight(t.levels, B)
                 sb == SumOver(s.seen, B)
                 ob == SumOver(t.seen, B)
      <3>6. /\ vb \in Int /\ tb \in Int /\ sb \in Int /\ ob \in Int
            /\ v.slack \in Int /\ t.slack \in Int
            /\ -v.slack <= vb - (sb + tb) /\ vb - (sb + tb) <= v.slack
            /\ -t.slack <= tb - ob /\ tb - ob <= t.slack
            /\ SeenTruth(c)[B] = sb + ob
        BY <1>2, <1>14, <3>1, <3>2, <3>3, <3>4, <3>5 DEF Within
      <3> HIDE DEF vb, tb, sb, ob
      <3>7. -(v.slack + t.slack) <= vb - (sb + ob) /\ vb - (sb + ob) <= v.slack + t.slack
        BY <3>6
      <3> QED BY <3>6, <3>7 DEF Within, vb, d
    <2>5. Bounded(c, NewMin(s, t.min), NewMax(s, t.max))
      <3>1. s.n > 0 => Bounded(s.seen, s.min, s.max)
        BY <1>1 DEF Recorded
      <3> QED BY <1>2, <1>4, <1>7, <2>2, <3>1, BoundedJoin DEF NewMin, NewMax
    <2>6. z.min = NewMin(s, t.min) /\ z.max = NewMax(s, t.max)
      BY <1>5, <1>17, <1>19
    <2>7. z.n # 0
      BY <1>10, <1>17
    <2> QED BY <1>17, <2>3, <2>4, <2>5, <2>6, <2>7 DEF Recorded
  <1>21. Widths(z)
    <2>1. s.minK <= s.k /\ \A k \in s.ks : s.minK <= k
      BY <1>1 DEF Widths
    <2>2. /\ w \in Int /\ s.minK \in Int /\ s.k \in Int
          /\ \A k \in K : k \in Int
      BY <1>1, <1>13, SketchTypes, KFacts
    <2>3. z.k = s.k /\ z.minK = w /\ \A k \in z.ks : k \in s.ks \/ k = s.k \/ k \in t.ks
      BY <1>5, <1>17, <1>19 DEF e
    <2>4. w <= s.k /\ \A k \in z.ks : w <= k
      <3>1. w <= s.k
        BY <1>13, <2>1, <2>2
      <3>2. \A k \in s.ks : w <= k
        <4>1. \A k \in s.ks : k \in Int
          BY <1>2, <2>2
        <4> QED BY <1>13, <2>1, <2>2, <4>1
      <3> QED BY <1>13, <2>3, <3>1, <3>2
    <2>5. ASSUME Depth(z) = 1 PROVE z.minK = z.k /\ z.slack = 0 /\ z.ks = {}
      <3>1. Depth(v) = 1
        BY <1>17, <2>5 DEF Depth
      <3>2. Depth(t) = 1
        <4>1. Depth(t) \in Nat /\ Depth(t) >= 1 /\ ~ (Depth(t) > 1)
          BY <1>1, <1>12, <3>1, DepthType
        <4> QED BY <4>1
      <3>3. Depth(m) = 1
        <4>1. Depth(m) \in Nat /\ Depth(m) >= 1 /\ Depth(m) <= 1
          BY <1>5, <1>19, <3>1, DepthType
        <4> QED BY <4>1
      <3>4. m.minK = m.k /\ m.slack = 0 /\ m.ks = {}
        BY <1>6, <3>3 DEF Widths
      <3>5. t.slack = 0 /\ t.ks = {}
        BY <1>1, <3>2 DEF Widths
      <3>6. v.slack = 0 /\ v.ks = {}
        BY <1>19, <3>1, <3>4
      <3>7. w = s.minK
        BY <1>13, <3>2
      <3>8. z.minK = z.k
        BY <1>5, <2>3, <3>4, <3>7
      <3> QED BY <1>17, <3>5, <3>6, <3>8 DEF d, e
    <2> QED BY <2>3, <2>4, <2>5 DEF Widths
  <1> QED BY <1>15, <1>18, <1>20, <1>21, SoundNoView

----------------------------------------------------------------------------
(* A query *)

\* Disjoint sets weigh as much as their union.
LEMMA WeightUnion ==
  ASSUME NEW levels \in Stacks, NEW B, NEW C, B \cap C = {}
  PROVE  Weight(levels, B \cup C) = Weight(levels, B) + Weight(levels, C)
  <1> DEFINE D == B \cup C
             b == Masses(Powers, levels, B)
             c == Masses(Powers, levels, C)
             d == Masses(Powers, levels, D)
             S == Heights(levels)
  <1>1. IsFiniteSet(S) /\ \A h \in S : h \in Nat
    BY HeightsFacts
  <1>2. \A h \in Nat : b[h] \in Int /\ c[h] \in Int /\ d[h] = b[h] + c[h]
    <2> TAKE h \in Nat
    <2> DEFINE p == Powers[h]
               x == CountIn(Level(levels, h), B)
               y == CountIn(Level(levels, h), C)
               z == CountIn(Level(levels, h), D)
    <2>1. p \in Nat /\ Powers \in Gains
      BY GainsType
    <2>2. b[h] = p * x /\ b[h] \in Int /\ x \in Nat
      BY <2>1, MassesType
    <2>3. c[h] = p * y /\ c[h] \in Int /\ y \in Nat
      BY <2>1, MassesType
    <2>4. d[h] = p * z
      BY <2>1, MassesType
    <2>5. z = x + y
      <3> DEFINE s == Level(levels, h)
                 n == Len(s)
      <3>1. n \in Nat
        BY LevelType
      <3> HIDE DEF s, n
      <3>2. CountTo(s, n, B \cup C) = CountTo(s, n, B) + CountTo(s, n, C)
        BY <3>1, CountUnion
      <3> QED BY <3>2 DEF CountIn, s, n
    <2>6. \A i, j, l \in Nat : i * (j + l) = i * j + i * l
      OBVIOUS
    <2> HIDE DEF p, x, y, z, b, c, d, D
    <2>7. p * z = p * x + p * y
      BY <2>1, <2>2, <2>3, <2>5, <2>6
    <2> QED BY <2>2, <2>3, <2>4, <2>7
  <1>3. SumOver(d, S) = SumOver(b, S) + SumOver(c, S)
    <2> HIDE DEF b, c, d, S
    <2> QED BY <1>1, <1>2, SumAdd
  <1> QED BY <1>3 DEF Weight, Mass

PointWeight(levels, x) == Weight(levels, {x})

\* The view a query caches weighs every set of items as the levels do.
LEMMA ViewFacts ==
  ASSUME NEW levels \in Stacks
  PROVE  /\ ViewOf(levels) \in Counters
         /\ \A B \in SUBSET Item : SumOver(ViewOf(levels), B) = Weight(levels, B)
  <1> DEFINE view == ViewOf(levels)
  <1>1. \A x \in Item : view[x] = PointWeight(levels, x)
    <2> TAKE x \in Item
    <2> DEFINE P == {x}
               n == Len(levels)
               f == [h \in Heights(levels) |-> Power(2, h) * Occurrences(Level(levels, h), x)]
               g == Masses(Powers, levels, P)
    <2>1. n \in Nat /\ Powers \in Gains
      BY LevelType, GainsType
    <2>2. \A h \in 0..(n - 1) : f[h] \in Int /\ g[h] = f[h]
      <3> TAKE h \in 0..(n - 1)
      <3>1. h \in Nat /\ h \in Heights(levels)
        BY <2>1 DEF Heights
      <3>2. f[h] = Power(2, h) * Occurrences(Level(levels, h), x)
        BY <3>1
      <3>3. Occurrences(Level(levels, h), x) = CountIn(Level(levels, h), P)
        <4>1. Level(levels, h) \in Seq(Item)
          BY <3>1, LevelType
        <4> QED BY <4>1, OccurrencesCount DEF CountOf, CountIn
      <3>4. g[h] = Powers[h] * CountIn(Level(levels, h), P) /\ g[h] \in Int
        <4> HIDE DEF P
        <4> QED BY <2>1, <3>1, MassesType
      <3>5. Powers[h] = Power(2, h)
        BY <3>1 DEF Powers
      <3> HIDE DEF f, g
      <3> QED BY <3>2, <3>3, <3>4, <3>5
    <2>3. SumFunction(f) = SumTo(g, n)
      <3>1. DOMAIN f = 0..(n - 1)
        BY DEF Heights
      <3> HIDE DEF f, g, n
      <3> QED BY <2>1, <2>2, <3>1, SumFunctionTo
    <2>4. view[x] = SumFunction(f)
      BY DEF ViewOf
    <2> QED BY <2>3, <2>4 DEF PointWeight, Weight, Mass, SumTo, Heights
  <1>2. \A x \in Item : PointWeight(levels, x) \in Nat
    BY MassNat DEF PointWeight
  <1>3. view \in Counters
    <2>1. view = [x \in Item |-> view[x]]
      BY DEF ViewOf
    <2>2. \A x \in Item : view[x] \in Nat
      BY <1>1, <1>2
    <2> HIDE DEF view
    <2> QED BY <2>1, <2>2 DEF Counters
  <1> HIDE DEF view
  <1>4. ASSUME NEW B \in SUBSET Item PROVE SumOver(view, B) = Weight(levels, B)
    <2> DEFINE G == {T \in SUBSET B : SumOver(view, T) = Weight(levels, T)}
    <2>1. ASSUME NEW T \in SUBSET B, \A x \in T : T \ {x} \in G PROVE T \in G
      <3>1. CASE T = {}
        <4> DEFINE none == {}
                   v == Weight(levels, none)
        <4>1. none \cap none = {} /\ none \cup none = none
          OBVIOUS
        <4>2. v = v + v
          <5> HIDE DEF none
          <5>1. Weight(levels, none \cup none) = Weight(levels, none) + Weight(levels, none)
            BY <4>1, WeightUnion
          <5> QED BY <4>1, <5>1
        <4>3. v \in Nat
          <5> HIDE DEF none
          <5> QED BY MassNat
        <4>4. v = 0
          <5> HIDE DEF v
          <5> QED BY <4>2, <4>3
        <4>5. SumOver(view, none) = 0
          BY SumEmpty
        <4>6. T = none
          BY <3>1
        <4> HIDE DEF none, v
        <4>7. SumOver(view, T) = 0 /\ Weight(levels, T) = 0
          BY <4>4, <4>5, <4>6 DEF v
        <4> QED BY <4>7
      <3>2. CASE T # {}
        <4>1. PICK x \in T : TRUE
          BY <3>2
        <4> DEFINE rest == T \ {x}
                   P == {x}
        <4>2. SumOver(view, T) = view[x] + SumOver(view, rest)
          <5>1. IsFiniteSet(T) /\ \A y \in T : view[y] \in Int
            BY <1>3, CounterSums
          <5> QED BY <4>1, <5>1, SumRemove
        <4>3. rest \cap P = {} /\ rest \cup P = T
          BY <4>1
        <4>4. SumOver(view, rest) = Weight(levels, rest)
          BY <2>1, <4>1
        <4> HIDE DEF rest, P
        <4>5. Weight(levels, rest \cup P) = Weight(levels, rest) + Weight(levels, P)
          BY <4>3, WeightUnion
        <4>6. Weight(levels, P) = view[x]
          BY <1>1, <4>1 DEF PointWeight, P
        <4>7. Weight(levels, rest) \in Nat /\ Weight(levels, P) \in Nat
          BY MassNat
        <4> DEFINE a == Weight(levels, rest)
                   b == Weight(levels, P)
        <4>8. Weight(levels, T) = a + b
          BY <4>3, <4>5
        <4>9. SumOver(view, T) = b + a
          BY <4>2, <4>4, <4>6
        <4>10. a \in Nat /\ b \in Nat
          BY <4>7
        <4> HIDE DEF a, b
        <4>11. SumOver(view, T) = Weight(levels, T)
          BY <4>8, <4>9, <4>10
        <4> QED BY <4>11
      <3> QED BY <3>1, <3>2
    <2>2. B \in G
      <3>1. IsFiniteSet(B)
        BY <1>3, CounterSums
      <3> HIDE DEF G
      <3> QED BY <2>1, <3>1, SetInduction
    <2> QED BY <2>2
  <1> QED BY <1>3, <1>4 DEF view

SetQueried(s, L, on, view) == [s EXCEPT !.levels = L, !.sorted = on, !.view = view]

\* A sketch that was queried.
LEMMA WithQueried ==
  ASSUME NEW s \in Sketches, NEW L \in Stacks, NEW on \in Flags, NEW view \in Views,
         NEW t, t = SetQueried(s, L, on, view)
  PROVE  /\ t \in Sketches /\ t.levels = L /\ t.sorted = on /\ t.view = view
         /\ t.k = s.k /\ t.minK = s.minK /\ t.n = s.n /\ t.capacity = s.capacity
         /\ t.min = s.min /\ t.max = s.max /\ t.seen = s.seen /\ t.slack = s.slack /\ t.ks = s.ks
  BY DEF Sketches, SetQueried

\* Level zero as a query leaves it.
Settled(s) == IF s.sorted THEN s.levels[1] ELSE Sort(s.levels[1])

\* Sorting level zero changes no weight.
LEMMA SettledFacts ==
  ASSUME NEW s, Stacked(s)
  PROVE  LET L == WithBottom(s.levels, Settled(s)) IN
         /\ Proper(L) /\ Len(L) = Len(s.levels) /\ Sorted(Level(L, 0))
         /\ \A B \in SUBSET Item : Weight(L, B) = Weight(s.levels, B)
         /\ Retained(L) = Retained(s.levels) /\ TotalWeight(L) = TotalWeight(s.levels)
  <1> DEFINE old == Level(s.levels, 0)
             new == Settled(s)
             L == WithBottom(s.levels, new)
  <1>1. Proper(s.levels) /\ s.levels \in Stacks /\ Len(s.levels) >= 1 /\ Len(s.levels) \in Nat
    BY LevelType DEF Stacked, Proper
  <1>2. old \in Seq(Item) /\ old = s.levels[1] /\ Len(old) \in Nat
    <2>1. 0 \in Nat /\ 0 \in 0..(Len(s.levels) - 1) /\ 0 + 1 = 1
      BY <1>1
    <2>2. old = s.levels[0 + 1] /\ old \in Seq(Item) /\ Len(old) \in Nat
      BY <1>1, <2>1, LevelType
    <2> QED BY <2>2
  <1>3. /\ new \in Seq(Item) /\ Len(new) = Len(old) /\ Sorted(new)
        /\ \A B \in SUBSET Item : CountIn(new, B) = CountIn(old, B)
    <2> HIDE DEF old, new
    <2>1. CASE s.sorted
      <3>1. new = old
        BY <1>2, <2>1 DEF new, Settled
      <3>2. Sorted(old)
        BY <2>1 DEF Stacked, old
      <3> QED BY <1>2, <3>1, <3>2
    <2>2. CASE ~ s.sorted
      <3>1. new = Sort(old)
        BY <1>2, <2>2 DEF new, Settled
      <3> QED BY <1>2, <3>1, SortFacts
    <2> QED BY <2>1, <2>2
  <1>4. L = WithBottom(s.levels, new)
    OBVIOUS
  <1> HIDE DEF new, L
  <1>5. /\ Proper(L) /\ Len(L) = Len(s.levels) /\ Level(L, 0) = new
        /\ \A B : Weight(L, B) = Weight(s.levels, B) + (CountIn(new, B) - CountIn(old, B))
        /\ Retained(L) = Retained(s.levels) + (Len(new) - Len(old))
        /\ TotalWeight(L) = TotalWeight(s.levels) + (Len(new) - Len(old))
    BY <1>1, <1>3, <1>4, BottomChanged DEF old
  <1> HIDE DEF old
  <1>6. Retained(s.levels) \in Nat /\ TotalWeight(s.levels) \in Nat
    BY <1>1, MassNat
  <1>7. \A B \in SUBSET Item : Weight(L, B) = Weight(s.levels, B)
    <2> TAKE B \in SUBSET Item
    <2>1. CountIn(new, B) = CountIn(old, B)
      BY <1>3
    <2>2. Weight(s.levels, B) \in Nat
      BY <1>1, MassNat
    <2>3. CountIn(old, B) \in Nat
      BY <1>2, CountType DEF CountIn
    <2>4. Weight(L, B) = Weight(s.levels, B) + (CountIn(new, B) - CountIn(old, B))
      BY <1>5
    <2> QED BY <2>1, <2>2, <2>3, <2>4
  <1>8. Retained(L) = Retained(s.levels) /\ TotalWeight(L) = TotalWeight(s.levels)
    BY <1>2, <1>3, <1>5, <1>6
  <1> QED BY <1>3, <1>5, <1>7, <1>8 DEF L, new

\* A query keeps a sketch sound.
LEMMA QueriedSound ==
  ASSUME NEW s, Sound(s), s.n > 0
  PROVE  Sound(Queried(s))
  <1> DEFINE t == Queried(s)
             L == WithBottom(s.levels, Settled(s))
             on == TRUE
             view == ViewOf(s.levels)
  <1>1. Stacked(s) /\ Recorded(s) /\ Widths(s) /\ s \in Sketches /\ s.levels \in Stacks
    BY SketchTypes DEF Sound, Stacked
  <1>2. t = SetQueried(s, L, on, view)
    BY Zenon DEF Queried, SetQueried, WithBottom, Settled
  <1>3. /\ Proper(L) /\ Len(L) = Len(s.levels) /\ Sorted(Level(L, 0))
        /\ \A B \in SUBSET Item : Weight(L, B) = Weight(s.levels, B)
        /\ Retained(L) = Retained(s.levels) /\ TotalWeight(L) = TotalWeight(s.levels)
    BY <1>1, SettledFacts
  <1>4. view \in Counters /\ \A B \in SUBSET Item : SumOver(view, B) = Weight(s.levels, B)
    BY <1>1, ViewFacts
  <1>5. on \in Flags /\ on
    BY DEF Flags
  <1> HIDE DEF t, L, on, view
  <1>6. view \in Views /\ L \in Stacks
    BY <1>3, <1>4 DEF Views, Proper
  <1>7. /\ t \in Sketches /\ t.levels = L /\ t.sorted = on /\ t.view = view
        /\ t.k = s.k /\ t.minK = s.minK /\ t.n = s.n /\ t.capacity = s.capacity
        /\ t.min = s.min /\ t.max = s.max /\ t.seen = s.seen /\ t.slack = s.slack /\ t.ks = s.ks
    <2>1. s \in Sketches
      BY <1>1
    <2>2. L \in Stacks
      BY <1>6
    <2>3. on \in Flags
      BY <1>5
    <2>4. view \in Views
      BY <1>6
    <2> QED BY <1>2, <2>1, <2>2, <2>3, <2>4, WithQueried
  <1>8. Stacked(t)
    BY <1>1, <1>3, <1>7 DEF Stacked
  <1>9. s.n # 0
    BY <1>1, SketchTypes
  <1>10. Near(L, s.slack, SeenTruth(s.seen))
    <2>1. Near(s.levels, s.slack, SeenTruth(s.seen))
      BY <1>1 DEF Recorded
    <2>2. \A B : Down(B) => Weight(L, B) = Weight(s.levels, B)
      BY <1>3 DEF Down
    <2> QED BY <2>1, <2>2 DEF Near
  <1>11. Recorded(t)
    <2>1. s.n = SumOver(s.seen, Item) /\ Bounded(s.seen, s.min, s.max)
      BY <1>1 DEF Recorded
    <2> QED BY <1>7, <1>9, <1>10, <2>1 DEF Recorded
  <1>12. Widths(t)
    BY <1>1, <1>3, <1>7 DEF Widths, Depth
  <1>13. Viewed(t)
    BY <1>3, <1>4, <1>7 DEF Viewed
  <1> QED BY <1>8, <1>11, <1>12, <1>13 DEF Sound, t

----------------------------------------------------------------------------
(* A restore *)

\* Sketches with equal fields are equal.
LEMMA SameSketch ==
  ASSUME NEW s \in Sketches, NEW t \in Sketches,
         s.k = t.k, s.minK = t.minK, s.n = t.n, s.levels = t.levels, s.sorted = t.sorted,
         s.capacity = t.capacity, s.min = t.min, s.max = t.max, s.view = t.view,
         s.seen = t.seen, s.slack = t.slack, s.ks = t.ks
  PROVE  s = t
  BY DEF Sketches

Alone(items) == << items >>

\* A stack of one level is that level.
LEMMA AloneFacts ==
  ASSUME NEW levels \in Stacks, Len(levels) = 1
  PROVE  levels = Alone(levels[1]) /\ levels[1] \in Seq(Item)
  <1>1. 1 \in 1..Len(levels) /\ levels \in Seq(Seq(Item))
    BY DEF Stacks
  <1>2. levels[1] \in Seq(Item)
    BY <1>1, ElementOfSeq
  <1> DEFINE L == Alone(levels[1])
  <1>3. L \in Seq(Seq(Item)) /\ Len(L) = 1 /\ L[1] = levels[1]
    BY <1>2 DEF Alone
  <1>4. levels = L
    <2> HIDE DEF L
    <2> QED BY <1>1, <1>3, SeqEqual
  <1> QED BY <1>2, <1>4

\* The fields of a new sketch.
LEMMA FreshFields ==
  ASSUME NEW k \in K, NEW s, s = Fresh(k)
  PROVE  /\ s \in Sketches
         /\ s.k = k /\ s.minK = k /\ s.n = 0 /\ s.sorted = FALSE
         /\ s.levels = Alone(<<>>) /\ s.capacity = TotalCapacity(k, 1)
         /\ s.min = NoItem /\ s.max = NoItem /\ s.view = NoView
  <1> DEFINE L == Alone(<<>>)
             c == TotalCapacity(k, 1)
             z == [x \in Item |-> 0]
             off == FALSE
  <1>1. s \in Sketches
    BY FreshSound DEF Sound, Stacked
  <1>2. s = [k |-> k, minK |-> k, n |-> 0, levels |-> L, sorted |-> off,
             capacity |-> c, min |-> NoItem, max |-> NoItem, view |-> NoView,
             seen |-> z, slack |-> 0, ks |-> {}]
    BY Zenon DEF Fresh, Alone
  <1> HIDE DEF L, c, z, off
  <1>3. /\ s.k = k /\ s.minK = k /\ s.n = 0 /\ s.levels = L /\ s.sorted = off
        /\ s.capacity = c /\ s.min = NoItem /\ s.max = NoItem /\ s.view = NoView
    BY <1>2
  <1> QED BY <1>1, <1>3 DEF L, c, off

\* The items up to a bound.
LEMMA UpToDown ==
  ASSUME NEW x \in Item, NEW inclusive
  PROVE  Down(UpTo(x, inclusive))
  <1>1. \A y \in Item : y \in Int
    BY ItemFacts
  <1> QED BY <1>1 DEF Down, UpTo

\* The single item of a sketch of one.
LEMMA OneItem ==
  ASSUME NEW s, Sound(s), s.n = 1
  PROVE  s.levels = Alone(s.levels[1]) /\ s.minK = s.k
         /\ s.min = s.levels[1][1] /\ s.max = s.levels[1][1]
  <1> DEFINE items == s.levels[1]
             y == items[1]
  <1>1. /\ s \in Sketches /\ s.levels \in Stacks /\ s.seen \in Counters /\ Proper(s.levels)
        /\ TotalWeight(s.levels) = 1 /\ Len(s.levels) \in Nat /\ Len(s.levels) >= 1
    BY SketchTypes, LevelType DEF Sound, Stacked, Proper
  <1>2. Len(s.levels) = 1
    <2>1. ~ (Len(s.levels) > 1)
      <3>1. Len(s.levels) > 1 => TotalWeight(s.levels) >= 2
        BY <1>1, TopBound
      <3> QED BY <1>1, <3>1
    <2> DEFINE d == Len(s.levels)
    <2>2. d \in Nat /\ d >= 1 /\ ~ (d > 1)
      BY <1>1, <2>1
    <2> HIDE DEF d
    <2>3. d = 1
      BY <2>2
    <2> QED BY <2>3 DEF d
  <1>3. s.levels = Alone(items) /\ items \in Seq(Item) /\ Len(items) = 1
    BY <1>1, <1>2, AloneFacts, OneLevel
  <1>4. y \in Item
    BY <1>3, ElementOfSeq
  <1>5. \A B : Weight(s.levels, B) = IF y \in B THEN 1 ELSE 0
    <2> TAKE B
    <2>1. Weight(s.levels, B) = CountTo(items, 1, B)
      BY <1>1, <1>2, <1>3, OneLevel DEF CountIn
    <2>2. CountTo(items, 0 + 1, B) = CountTo(items, 0, B) + (IF items[0 + 1] \in B THEN 1 ELSE 0)
      <3> HIDE DEF items
      <3> QED BY CountStep
    <2>3. CountTo(items, 0, B) = 0
      BY CountZero
    <2> HIDE DEF items
    <2>4. CountTo(items, 1, B) = 0 + (IF items[1] \in B THEN 1 ELSE 0)
      BY <2>2, <2>3
    <2> QED BY <2>1, <2>4
  <1> HIDE DEF y
  <1>6. s.slack = 0 /\ s.minK = s.k
    BY <1>2 DEF Sound, Widths, Depth
  <1>7. \A B : Down(B) => SumOver(s.seen, B) = Weight(s.levels, B)
    <2> TAKE B
    <2>1. HAVE Down(B)
    <2>2. Within(Weight(s.levels, B) - SeenTruth(s.seen)[B], 0)
      BY <1>6, <2>1 DEF Sound, Recorded, Near
    <2>3. SeenTruth(s.seen)[B] = SumOver(s.seen, B) /\ SumOver(s.seen, B) \in Nat
      BY <1>1, <2>1, CounterSums DEF Down
    <2>4. Weight(s.levels, B) \in Nat
      BY <1>1, MassNat
    <2> QED BY <2>2, <2>3, <2>4 DEF Within
  <1>8. Bounded(s.seen, s.min, s.max)
    BY DEF Sound, Recorded
  <1>9. \A z \in Item : z = y <=> s.seen[z] > 0
    <2>1. \A z \in Item : z \in Int /\ s.seen[z] \in Nat
      BY <1>1, ItemFacts, CounterSums
    <2>2. \A z \in Item : z # y => s.seen[z] = 0
      <3> SUFFICES ASSUME NEW z \in Item, z # y PROVE s.seen[z] = 0
        OBVIOUS
      <3> DEFINE A == UpTo(z, TRUE)
                 B == UpTo(z, FALSE)
                 a == SumOver(s.seen, A)
                 b == SumOver(s.seen, B)
      <3>1. Down(A) /\ Down(B)
        BY UpToDown
      <3>2. B = A \ {z} /\ z \in A
        BY <2>1 DEF UpTo
      <3>3. A \in SUBSET Item /\ B \in SUBSET Item
        BY <3>1 DEF Down
      <3>4. a = s.seen[z] + b
        <4>1. IsFiniteSet(A) /\ \A x \in A : s.seen[x] \in Int
          BY <1>1, <3>3, CounterSums
        <4> HIDE DEF A, B
        <4> QED BY <3>2, <4>1, SumRemove
      <3>5. y \in A <=> y \in B
        BY <3>2
      <3> HIDE DEF A, B
      <3>6. a = b
        BY <1>5, <1>7, <3>1, <3>5
      <3>7. b \in Nat
        BY <1>1, <3>3, CounterSums
      <3> HIDE DEF a, b
      <3> QED BY <2>1, <3>4, <3>6, <3>7
    <2>3. \E z \in Item : s.seen[z] > 0
      BY <1>8 DEF Bounded
    <2> QED BY <1>4, <2>1, <2>2, <2>3
  <1>10. s.min = y /\ s.max = y
    BY <1>8, <1>9 DEF Bounded
  <1> QED BY <1>3, <1>6, <1>10 DEF y

SetHistory(s, c, d, e) == [s EXCEPT !.seen = c, !.slack = d, !.ks = e]

\* A sketch with other histories.
LEMMA WithHistory ==
  ASSUME NEW s \in Sketches, NEW c \in Counters, NEW d \in Nat, NEW e \in SUBSET K,
         NEW t, t = SetHistory(s, c, d, e)
  PROVE  /\ t \in Sketches /\ t.seen = c /\ t.slack = d /\ t.ks = e
         /\ t.k = s.k /\ t.minK = s.minK /\ t.n = s.n /\ t.levels = s.levels
         /\ t.sorted = s.sorted /\ t.capacity = s.capacity /\ t.view = s.view
         /\ t.min = s.min /\ t.max = s.max
  BY DEF Sketches, SetHistory

SetOne(s, L, on, a) ==
  [s EXCEPT !.n = 1, !.levels = L, !.sorted = on, !.min = a, !.max = a]

\* A sketch read from the bytes of one item.
LEMMA WithOne ==
  ASSUME NEW s \in Sketches, NEW L \in Stacks, NEW on \in Flags, NEW a \in Bounds,
         NEW t, t = SetOne(s, L, on, a)
  PROVE  /\ t \in Sketches /\ t.n = 1 /\ t.levels = L /\ t.sorted = on /\ t.min = a /\ t.max = a
         /\ t.k = s.k /\ t.minK = s.minK /\ t.capacity = s.capacity /\ t.view = s.view
  BY DEF Sketches, SetOne

SetMany(s, n, w, L, on, a, b, c) ==
  [s EXCEPT !.n = n, !.minK = w, !.levels = L, !.sorted = on, !.min = a, !.max = b,
            !.capacity = c]

\* A sketch read from the bytes of several items.
LEMMA WithMany ==
  ASSUME NEW s \in Sketches, NEW n \in Nat, NEW w \in K, NEW L \in Stacks, NEW on \in Flags,
         NEW a \in Bounds, NEW b \in Bounds, NEW c \in Nat,
         NEW t, t = SetMany(s, n, w, L, on, a, b, c)
  PROVE  /\ t \in Sketches /\ t.n = n /\ t.minK = w /\ t.levels = L /\ t.sorted = on
         /\ t.min = a /\ t.max = b /\ t.capacity = c
         /\ t.k = s.k /\ t.view = s.view
  BY DEF Sketches, SetMany

\* The fields the bytes hold are those of the sketch.
Read(d, s) ==
  /\ d \in Sketches
  /\ d.k = s.k /\ d.minK = s.minK /\ d.n = s.n /\ d.levels = s.levels
  /\ d.sorted = s.sorted /\ d.capacity = s.capacity /\ d.view = NoView
  /\ d.min = s.min /\ d.max = s.max

\* An empty sketch is read back whole: its bytes hold k alone.
LEMMA ReadNone ==
  ASSUME NEW s, Sound(s), s.n = 0
  PROVE  Read(Deserialized(Payload(s)), s)
  <1> DEFINE f == Fresh(s.k)
  <1>1. /\ s \in Sketches /\ s.k \in K /\ s.levels \in Stacks /\ Proper(s.levels)
        /\ TotalWeight(s.levels) = 0 /\ Len(s.levels) \in Nat /\ Len(s.levels) >= 1
    BY SketchTypes, LevelType DEF Sound, Stacked, Proper
  <1>2. Deserialized(Payload(s)) = f
    <2> DEFINE b == [k |-> s.k, n |-> 0]
    <2>1. Payload(s) = b
      BY DEF Payload
    <2>2. b.n = 0 /\ b.n # 1 /\ b.k = s.k
      OBVIOUS
    <2> HIDE DEF b, f
    <2>3. Deserialized(b) = f
      BY <2>2, Zenon DEF Deserialized, f
    <2> QED BY <2>1, <2>3
  <1>3. /\ f \in Sketches
        /\ f.k = s.k /\ f.minK = s.k /\ f.n = 0 /\ f.sorted = FALSE
        /\ f.levels = Alone(<<>>) /\ f.capacity = TotalCapacity(s.k, 1)
        /\ f.min = NoItem /\ f.max = NoItem /\ f.view = NoView
    BY <1>1, FreshFields
  <1> HIDE DEF f
  <1>4. Len(s.levels) = 1
    <2> DEFINE d == Len(s.levels)
    <2>1. d > 1 => TotalWeight(s.levels) >= 2
      BY <1>1, TopBound
    <2>2. d \in Nat /\ d >= 1 /\ ~ (d > 1)
      BY <1>1, <2>1
    <2> HIDE DEF d
    <2>3. d = 1
      BY <2>2
    <2> QED BY <2>3 DEF d
  <1>5. s.levels = Alone(s.levels[1]) /\ s.levels[1] \in Seq(Item) /\ Len(s.levels[1]) = 0
    BY <1>1, <1>4, AloneFacts, OneLevel
  <1>6. s.levels[1] = <<>>
    BY <1>5, EmptySeq
  <1>7. s.levels = Alone(<<>>)
    BY <1>5, <1>6
  <1>8. s.minK = s.k /\ s.min = NoItem /\ s.max = NoItem /\ s.sorted = FALSE
    BY <1>4 DEF Sound, Widths, Recorded, Depth
  <1>9. s.capacity = TotalCapacity(s.k, 1)
    BY <1>4 DEF Sound, Stacked
  <1> QED BY <1>2, <1>3, <1>7, <1>8, <1>9 DEF Read

\* A sketch of one item is read back whole: its extremes are that item, and its minK
\* is k.
LEMMA ReadOne ==
  ASSUME NEW s, Sound(s), s.n = 1
  PROVE  Read(Deserialized(Payload(s)), s)
  <1> DEFINE f == Fresh(s.k)
             items == s.levels[1]
             L == Alone(items)
             d == Deserialized(Payload(s))
  <1>1. /\ s \in Sketches /\ s.k \in K /\ s.levels \in Stacks /\ s.sorted \in Flags
        /\ s.min \in Bounds
    BY SketchTypes DEF Sound, Stacked
  <1>2. s.levels = L /\ s.minK = s.k /\ s.min = items[1] /\ s.max = items[1]
    BY OneItem
  <1>3. d = SetOne(f, L, s.sorted, items[1])
    <2> DEFINE b == [k |-> s.k, n |-> 1, sorted |-> s.sorted, items |-> items]
    <2>1. Payload(s) = b
      BY DEF Payload
    <2>2. b.n = 1 /\ b.n # 0 /\ b.k = s.k /\ b.sorted = s.sorted /\ b.items = items
      OBVIOUS
    <2> HIDE DEF b, f, items
    <2>3. Deserialized(b) = SetOne(f, L, s.sorted, items[1])
      BY <2>2, Zenon DEF Deserialized, f, SetOne, Alone
    <2> QED BY <2>1, <2>3
  <1>4. f \in Sketches /\ f.k = s.k /\ f.minK = s.k /\ f.view = NoView
        /\ f.capacity = TotalCapacity(s.k, 1)
    BY <1>1, FreshFields
  <1>5. L \in Stacks /\ items[1] \in Bounds
    BY <1>1, <1>2
  <1>6. Len(L) = 1
    BY DEF Alone
  <1> HIDE DEF d, f, items, L
  <1>7. /\ d \in Sketches /\ d.n = 1 /\ d.levels = L /\ d.sorted = s.sorted
        /\ d.min = items[1] /\ d.max = items[1]
        /\ d.k = f.k /\ d.minK = f.minK /\ d.capacity = f.capacity /\ d.view = f.view
    <2>1. f \in Sketches
      BY <1>4
    <2>2. L \in Stacks
      BY <1>5
    <2>3. s.sorted \in Flags
      BY <1>1
    <2>4. items[1] \in Bounds
      BY <1>5
    <2> QED BY <1>3, <2>1, <2>2, <2>3, <2>4, WithOne
  <1>8. s.capacity = TotalCapacity(s.k, 1)
    BY <1>2, <1>6 DEF Sound, Stacked
  <1>9. Read(d, s)
    BY <1>2, <1>4, <1>7, <1>8 DEF Read
  <1> QED BY <1>9 DEF d

\* Any other sketch is read back whole: its capacity follows from k and the number
\* of levels.
LEMMA ReadMany ==
  ASSUME NEW s, Sound(s), s.n # 0, s.n # 1
  PROVE  Read(Deserialized(Payload(s)), s)
  <1> DEFINE f == Fresh(s.k)
             c == TotalCapacity(s.k, Len(s.levels))
             d == Deserialized(Payload(s))
  <1>1. /\ s \in Sketches /\ s.k \in K /\ s.levels \in Stacks /\ s.sorted \in Flags
        /\ s.min \in Bounds /\ s.max \in Bounds /\ s.n \in Nat /\ s.minK \in K
        /\ s.capacity \in Nat /\ s.capacity = c
    BY SketchTypes DEF Sound, Stacked
  <1>2. d = SetMany(f, s.n, s.minK, s.levels, s.sorted, s.min, s.max, c)
    <2> DEFINE b == [k |-> s.k, n |-> s.n, minK |-> s.minK, sorted |-> s.sorted,
                     levels |-> s.levels, min |-> s.min, max |-> s.max]
    <2>1. Payload(s) = b
      BY DEF Payload
    <2>2. /\ b.n = s.n /\ b.k = s.k /\ b.minK = s.minK /\ b.sorted = s.sorted
          /\ b.levels = s.levels /\ b.min = s.min /\ b.max = s.max
      OBVIOUS
    <2> HIDE DEF b, f
    <2>3. b.n # 0 /\ b.n # 1
      BY <2>2
    <2>4. Deserialized(b) = SetMany(f, s.n, s.minK, s.levels, s.sorted, s.min, s.max, c)
      BY <2>2, <2>3, Zenon DEF Deserialized, f, SetMany
    <2> QED BY <2>1, <2>4
  <1>3. f \in Sketches /\ f.k = s.k /\ f.view = NoView
    BY <1>1, FreshFields
  <1> HIDE DEF d, f, c
  <1>4. c \in Nat
    BY <1>1
  <1>5. /\ d \in Sketches /\ d.n = s.n /\ d.minK = s.minK /\ d.levels = s.levels
        /\ d.sorted = s.sorted /\ d.min = s.min /\ d.max = s.max /\ d.capacity = c
        /\ d.k = f.k /\ d.view = f.view
    <2>1. f \in Sketches
      BY <1>3
    <2>2. s.n \in Nat
      BY <1>1
    <2>3. s.minK \in K
      BY <1>1
    <2>4. s.levels \in Stacks
      BY <1>1
    <2>5. s.sorted \in Flags
      BY <1>1
    <2>6. s.min \in Bounds
      BY <1>1
    <2>7. s.max \in Bounds
      BY <1>1
    <2> QED
      BY <1>2, <1>4, <2>1, <2>2, <2>3, <2>4, <2>5, <2>6, <2>7, WithMany, SMTT(30)
  <1>6. Read(d, s)
    BY <1>1, <1>3, <1>5 DEF Read
  <1> QED BY <1>6 DEF d

\* A sketch read back from its bytes.
LEMMA RestoredIs ==
  ASSUME NEW s, Sound(s)
  PROVE  Restored(s) = NoCachedView(s)
  <1> DEFINE d == Deserialized(Payload(s))
             t == Restored(s)
             u == NoCachedView(s)
  <1>1. s \in Sketches /\ s.seen \in Counters /\ s.slack \in Nat /\ s.ks \in SUBSET K
    BY SketchTypes DEF Sound, Stacked
  <1>2. Read(d, s)
    BY ReadNone, ReadOne, ReadMany
  <1>3. t = SetHistory(d, s.seen, s.slack, s.ks)
    BY Zenon DEF Restored, SetHistory
  <1> HIDE DEF d, t, u
  <1>4. d \in Sketches
    BY <1>2 DEF Read
  <1>5. /\ t \in Sketches /\ t.seen = s.seen /\ t.slack = s.slack /\ t.ks = s.ks
        /\ t.k = d.k /\ t.minK = d.minK /\ t.n = d.n /\ t.levels = d.levels
        /\ t.sorted = d.sorted /\ t.capacity = d.capacity /\ t.view = d.view
        /\ t.min = d.min /\ t.max = d.max
    BY <1>1, <1>3, <1>4, WithHistory
  <1>6. /\ u \in Sketches /\ u.view = NoView
        /\ u.k = s.k /\ u.minK = s.minK /\ u.n = s.n /\ u.levels = s.levels
        /\ u.sorted = s.sorted /\ u.capacity = s.capacity
        /\ u.min = s.min /\ u.max = s.max /\ u.slack = s.slack /\ u.ks = s.ks
        /\ u.seen = s.seen
    BY <1>1, WithNoView DEF u
  <1>7. t = u
    <2>1. /\ t.k = u.k /\ t.minK = u.minK /\ t.n = u.n /\ t.levels = u.levels
          /\ t.sorted = u.sorted /\ t.capacity = u.capacity /\ t.view = u.view
          /\ t.min = u.min /\ t.max = u.max
          /\ t.seen = u.seen /\ t.slack = u.slack /\ t.ks = u.ks
      BY <1>2, <1>5, <1>6 DEF Read
    <2> QED BY <1>5, <1>6, <2>1, SameSketch
  <1> QED BY <1>7 DEF t, u

----------------------------------------------------------------------------
(* Quantiles *)

AtMost(x) == UpTo(x, TRUE)
Under(x) == UpTo(x, FALSE)

\* The items up to x and those below x.
LEMMA UpToFacts ==
  ASSUME NEW x \in Item
  PROVE  /\ Down(AtMost(x)) /\ Down(Under(x))
         /\ \A y \in Item : y \in AtMost(x) <=> y <= x
         /\ \A y \in Item : y \in Under(x) <=> y < x
  <1>1. \A y \in Item : y \in Int
    BY ItemFacts
  <1>2. Down(AtMost(x)) /\ Down(Under(x))
    BY UpToDown DEF AtMost, Under
  <1> QED BY <1>1, <1>2 DEF UpTo, AtMost, Under

\* Items without weight add none.
LEMMA SumOutside ==
  ASSUME NEW c \in Counters, NEW C \in SUBSET Item, NEW B \in SUBSET C,
         \A x \in C : x \notin B => c[x] = 0
  PROVE  SumOver(c, C) = SumOver(c, B)
  <1> DEFINE D == C \ B
             G == {T \in SUBSET D : SumOver(c, B \cup T) = SumOver(c, B)}
  <1>1. ASSUME NEW T \in SUBSET D, \A x \in T : T \ {x} \in G PROVE T \in G
    <2>1. CASE T = {}
      <3>1. B \cup T = B
        BY <2>1
      <3> QED BY <3>1
    <2>2. CASE T # {}
      <3>1. PICK x \in T : TRUE
        BY <2>2
      <3> DEFINE S == B \cup (T \ {x})
                 P == B \cup T
      <3>2. S = P \ {x} /\ x \in P /\ P \in SUBSET Item /\ S \in SUBSET Item
        BY <3>1
      <3>3. SumOver(c, S) = SumOver(c, B)
        BY <1>1, <3>1
      <3>4. c[x] = 0
        BY <3>1
      <3> HIDE DEF S, P
      <3>5. IsFiniteSet(P) /\ \A y \in P : c[y] \in Int
        BY <3>2, CounterSums
      <3>6. SumOver(c, P) = c[x] + SumOver(c, S)
        BY <3>2, <3>5, SumRemove
      <3>7. SumOver(c, S) \in Nat
        BY <3>2, CounterSums
      <3>8. SumOver(c, P) = SumOver(c, B)
        BY <3>3, <3>4, <3>6, <3>7
      <3> QED BY <3>8 DEF P
    <2> QED BY <2>1, <2>2
  <1>2. D \in G
    <2>1. IsFiniteSet(D)
      BY ItemFacts
    <2> HIDE DEF G, D
    <2> QED BY <1>1, <2>1, SetInduction
  <1>3. B \cup D = C
    OBVIOUS
  <1> QED BY <1>2, <1>3

\* The items a view or a history holds.
Held(c) == {x \in Item : c[x] > 0}

\* Nothing held below q reaches w: less than w lies below q.
LEMMA BelowHeld ==
  ASSUME NEW c \in Counters, NEW q \in Item, NEW w \in Nat,
         \A y \in Held(c) : y < q => SumOver(c, AtMost(y)) <= w
  PROVE  SumOver(c, Under(q)) <= w
  <1> DEFINE S == Held(c) \cap Under(q)
  <1>1. \A x \in Item : c[x] \in Nat /\ x \in Int
    BY CounterSums, ItemFacts
  <1>2. \A y \in Item : y \in Under(q) <=> y < q
    BY UpToFacts
  <1>3. Under(q) \in SUBSET Item
    BY DEF Under, UpTo
  <1>4. CASE S = {}
    <2>1. \A x \in Under(q) : c[x] = 0
      BY <1>1, <1>3, <1>4 DEF Held
    <2>2. IsFiniteSet(Under(q))
      BY <1>3, CounterSums
    <2>3. SumOver(c, Under(q)) = 0
      BY <2>1, <2>2, SumZero
    <2> QED BY <2>3
  <1>5. CASE S # {}
    <2> DEFINE y == Max(S)
    <2>1. S \in SUBSET Item /\ S \subseteq Int /\ IsFiniteSet(S)
      BY <1>1, ItemFacts DEF Held
    <2> HIDE DEF S
    <2>2. y \in S /\ \A x \in S : x <= y
      BY <1>5, <2>1, MaxFacts
    <2> HIDE DEF y
    <2>3. y \in Held(c) /\ y \in Item /\ y < q
      BY <1>2, <2>2 DEF S, Held
    <2>4. SumOver(c, AtMost(y)) <= w
      BY <2>3
    <2>5. \A x \in Item : x \in AtMost(y) <=> x <= y
      BY <2>3, UpToFacts
    <2>6. AtMost(y) \in SUBSET Under(q)
      <3>1. AtMost(y) \in SUBSET Item
        BY DEF AtMost, UpTo
      <3>2. \A x \in AtMost(y) : x < q
        BY <1>1, <2>3, <2>5, <3>1
      <3> QED BY <1>2, <3>1, <3>2
    <2>7. \A x \in Under(q) : x \notin AtMost(y) => c[x] = 0
      <3> TAKE x \in Under(q)
      <3>1. HAVE x \notin AtMost(y)
      <3>2. x \in Item /\ ~ (x <= y)
        BY <1>3, <2>5, <3>1
      <3>3. x \notin Held(c)
        BY <2>2, <3>2 DEF S
      <3> QED BY <1>1, <3>2, <3>3 DEF Held
    <2>8. SumOver(c, Under(q)) = SumOver(c, AtMost(y))
      BY <1>3, <2>6, <2>7, SumOutside
    <2> QED BY <2>4, <2>8
  <1> QED BY <1>4, <1>5

\* The weight below a quantile is at most the weight asked for, and the weight up
\* to it at least that.
LEMMA QuantileFacts ==
  ASSUME NEW c \in Counters, NEW w \in Nat, w <= SumOver(c, Item), Held(c) # {},
         NEW inclusive \in Flags
  PROVE  /\ Quantile(c, w, inclusive) \in Item
         /\ SumOver(c, Under(Quantile(c, w, inclusive))) <= w
         /\ SumOver(c, AtMost(Quantile(c, w, inclusive))) >= w
  <1> DEFINE held == Held(c)
             b(x) == SumOver(c, AtMost(x))
             E == {x \in held : b(x) > w \/ (inclusive /\ b(x) = w)}
             q == Quantile(c, w, inclusive)
  <1>1. \A x \in Item : c[x] \in Nat /\ x \in Int
    BY CounterSums, ItemFacts
  <1>2. \A x \in Item : b(x) \in Nat
    <2> TAKE x \in Item
    <2>1. AtMost(x) \in SUBSET Item
      BY DEF AtMost, UpTo
    <2> QED BY <2>1, CounterSums
  <1>3. q = IF E = {} THEN Max(held) ELSE Min(E)
    BY DEF Quantile, Below, SumFunctionOnSet, SumOver, AtMost, Held
  <1>4. held \in SUBSET Item /\ held \subseteq Int /\ IsFiniteSet(held)
    BY <1>1, ItemFacts DEF Held
  <1>5. E \subseteq held /\ E \subseteq Int /\ IsFiniteSet(E)
    BY <1>4, FS_Subset
  <1> HIDE DEF q, held
  <1>6. CASE E = {}
    <2>1. q = Max(held)
      BY <1>3, <1>6
    <2> HIDE DEF E, b
    <2>2. q \in held /\ \A x \in held : x <= q
      <3>1. held # {}
        BY DEF held
      <3> QED BY <1>4, <2>1, <3>1, MaxFacts
    <2>3. q \in Item
      BY <1>4, <2>2
    <2>4. \A y \in held : b(y) <= w
      <3> TAKE y \in held
      <3>1. y \notin E
        BY <1>6
      <3>2. b(y) \in Nat
        BY <1>2, <1>4
      <3> QED BY <3>1, <3>2 DEF E
    <2>5. SumOver(c, Under(q)) <= w
      BY <2>3, <2>4, BelowHeld DEF held, b
    <2>6. SumOver(c, Item) = SumOver(c, AtMost(q))
      <3>1. AtMost(q) \in SUBSET Item /\ \A x \in Item : x \in AtMost(q) <=> x <= q
        BY <2>3, UpToFacts DEF Down
      <3>2. \A x \in Item : x \notin AtMost(q) => c[x] = 0
        <4> TAKE x \in Item
        <4>1. HAVE x \notin AtMost(q)
        <4>2. x \notin held
          BY <2>2, <3>1, <4>1
        <4> QED BY <1>1, <4>2 DEF held, Held
      <3>3. Item \in SUBSET Item
        OBVIOUS
      <3> QED BY <3>1, <3>2, <3>3, SumOutside
    <2>7. SumOver(c, AtMost(q)) >= w
      <3>1. SumOver(c, AtMost(q)) \in Nat
        BY <1>2, <2>3 DEF b
      <3> QED BY <2>6, <3>1
    <2> QED BY <2>3, <2>5, <2>7 DEF q
  <1>7. CASE E # {}
    <2>1. q = Min(E)
      BY <1>3, <1>7
    <2>2. q \in E /\ \A x \in E : q <= x
      <3> HIDE DEF E
      <3> QED BY <1>5, <1>7, <2>1, MinFacts
    <2>3. q \in Item /\ q \in Int
      BY <1>4, <1>5, <2>2
    <2>4. b(q) >= w
      <3>1. b(q) > w \/ b(q) = w
        BY <2>2
      <3>2. b(q) \in Nat
        BY <1>2, <2>3
      <3> HIDE DEF b
      <3> QED BY <3>1, <3>2
    <2>5. \A y \in held : y < q => b(y) <= w
      <3> TAKE y \in held
      <3>1. HAVE y < q
      <3>2. y \in Int /\ b(y) \in Nat
        BY <1>2, <1>4
      <3>3. y \notin E
        <4> HIDE DEF E, b
        <4> QED BY <2>2, <2>3, <3>1, <3>2
      <3>4. ~ (b(y) > w)
        BY <3>3
      <3> HIDE DEF b
      <3> QED BY <3>2, <3>4
    <2>6. SumOver(c, Under(q)) <= w
      BY <2>3, <2>5, BelowHeld DEF held, b
    <2> QED BY <2>3, <2>4, <2>6 DEF q, b
  <1> QED BY <1>6, <1>7

----------------------------------------------------------------------------
(* What a sound sketch answers *)

\* The extremes of a sound sketch are the smallest and the largest item seen.
LEMMA ExtremesExact ==
  ASSUME NEW s, Sound(s), s.n > 0
  PROVE  s.min = Min(Held(s.seen)) /\ s.max = Max(Held(s.seen))
  <1> DEFINE held == Held(s.seen)
  <1>1. Bounded(s.seen, s.min, s.max)
    BY DEF Sound, Recorded
  <1>2. held \in SUBSET Item /\ held \subseteq Int /\ IsFiniteSet(held)
    BY ItemFacts DEF Held
  <1>3. /\ s.min \in held /\ s.max \in held
        /\ \A x \in held : s.min <= x /\ x <= s.max
    BY <1>1 DEF Bounded, Held
  <1> HIDE DEF held
  <1>4. /\ Min(held) \in held /\ \A x \in held : Min(held) <= x
        /\ Max(held) \in held /\ \A x \in held : x <= Max(held)
    BY <1>2, <1>3, MinFacts, MaxFacts
  <1> DEFINE a == Min(held)
             b == Max(held)
  <1>5. /\ a \in Int /\ b \in Int /\ s.min \in Int /\ s.max \in Int
        /\ s.min <= a /\ a <= s.min /\ s.max <= b /\ b <= s.max
    BY <1>2, <1>3, <1>4
  <1> HIDE DEF a, b
  <1>6. s.min = a /\ s.max = b
    BY <1>5
  <1> QED BY <1>6 DEF a, b, held

\* The rank of a bound is off by the slack at most.
LEMMA RankNear ==
  ASSUME NEW s, Sound(s), s.view # NoView, NEW B, Down(B)
  PROVE  /\ SumOver(s.view, B) \in Nat /\ SumOver(s.seen, B) \in Nat
         /\ Within(SumOver(s.view, B) - SumOver(s.seen, B), s.slack)
  <1>1. s.view \in Counters /\ s.seen \in Counters
    BY SketchTypes DEF Sound, Viewed, Stacked
  <1>2. B \in SUBSET Item
    BY DEF Down
  <1>3. SumOver(s.view, B) = Weight(s.levels, B)
    BY <1>2 DEF Sound, Viewed
  <1>4. Within(Weight(s.levels, B) - SeenTruth(s.seen)[B], s.slack)
    BY DEF Sound, Recorded, Near
  <1>5. SeenTruth(s.seen)[B] = SumOver(s.seen, B)
    BY <1>1, CounterSums
  <1>6. SumOver(s.view, B) \in Nat /\ SumOver(s.seen, B) \in Nat
    BY <1>1, <1>2, CounterSums
  <1> QED BY <1>3, <1>4, <1>5, <1>6

\* The true weight below a quantile, and up to it, is off the weight asked for by
\* the slack at most.
LEMMA QuantileNear ==
  ASSUME NEW s, Sound(s), s.view # NoView, NEW inclusive \in Flags, NEW w \in 0..s.n
  PROVE  LET q == Quantile(s.view, w, inclusive) IN
         /\ SumOver(s.seen, Under(q)) <= w + s.slack
         /\ SumOver(s.seen, AtMost(q)) >= w - s.slack
  <1> DEFINE q == Quantile(s.view, w, inclusive)
             c == s.view
  <1>1. /\ s \in Sketches /\ s.levels \in Stacks /\ s.n \in Nat /\ s.slack \in Nat
        /\ c \in Counters /\ s.n > 0 /\ TotalWeight(s.levels) = s.n
        /\ SumOver(c, Item) = Weight(s.levels, Item)
    BY SketchTypes DEF Sound, Viewed, Stacked
  <1>2. SumOver(c, Item) = s.n
    BY <1>1, ItemMass DEF Weight
  <1>3. Held(c) # {}
    <2> SUFFICES ASSUME Held(c) = {} PROVE FALSE
      OBVIOUS
    <2>1. \A x \in Item : c[x] = 0
      <3> TAKE x \in Item
      <3>1. c[x] \in Nat /\ ~ (c[x] > 0)
        BY <1>1, CounterSums DEF Held
      <3> QED BY <3>1
    <2>2. SumOver(c, Item) = 0
      BY <2>1, ItemFacts, SumZero
    <2> QED BY <1>1, <1>2, <2>2
  <1>4. w \in Nat /\ w <= SumOver(c, Item)
    BY <1>1, <1>2
  <1> HIDE DEF q
  <1>5. /\ q \in Item
        /\ SumOver(c, Under(q)) <= w
        /\ SumOver(c, AtMost(q)) >= w
    BY <1>1, <1>3, <1>4, QuantileFacts DEF q
  <1>6. Down(Under(q)) /\ Down(AtMost(q))
    BY <1>5, UpToFacts
  <1> DEFINE u == SumOver(c, Under(q))
             v == SumOver(c, AtMost(q))
             x == SumOver(s.seen, Under(q))
             y == SumOver(s.seen, AtMost(q))
  <1>7. u \in Nat /\ x \in Nat /\ Within(u - x, s.slack)
    BY <1>6, RankNear
  <1>8. v \in Nat /\ y \in Nat /\ Within(v - y, s.slack)
    BY <1>6, RankNear
  <1>9. u <= w /\ v >= w
    BY <1>5
  <1> HIDE DEF u, v, x, y
  <1>10. x <= w + s.slack /\ y >= w - s.slack
    BY <1>1, <1>4, <1>7, <1>8, <1>9 DEF Within
  <1> QED BY <1>10 DEF x, y, q

----------------------------------------------------------------------------
(* Every reachable sketch is sound *)

SketchesSound ==
  /\ sk = [o \in Sketch |-> sk[o]]
  /\ \A o \in Sketch : Sound(sk[o])

\* A step that leaves one sketch sound leaves them all sound.
LEMMA OneSketchChanged ==
  ASSUME SketchesSound, NEW o \in Sketch, NEW t, Sound(t), sk' = [sk EXCEPT ![o] = t]
  PROVE  SketchesSound'
  <1>1. sk = [p \in Sketch |-> sk[p]] /\ \A p \in Sketch : Sound(sk[p])
    BY DEF SketchesSound
  <1>2. sk' = [p \in Sketch |-> IF p = o THEN t ELSE sk[p]]
    BY <1>1
  <1>3. \A p \in Sketch : sk'[p] = IF p = o THEN t ELSE sk[p]
    BY <1>2
  <1>4. sk' = [p \in Sketch |-> sk'[p]]
    BY <1>2
  <1>5. \A p \in Sketch : Sound(sk'[p])
    BY <1>1, <1>3
  <1> QED BY <1>4, <1>5 DEF SketchesSound

\* New sketches are sound.
LEMMA SoundInit == Init => SketchesSound
  <1> HAVE Init
  <1>1. sk = [o \in Sketch |-> sk[o]] /\ \A o \in Sketch : \E k \in K : sk[o] = Fresh(k)
    BY DEF Init
  <1>2. \A o \in Sketch : Sound(sk[o])
    BY <1>1, FreshSound
  <1> QED BY <1>1, <1>2 DEF SketchesSound

\* Every operation keeps every sketch sound.
LEMMA SoundStep == SketchesSound /\ [Next]_vars => SketchesSound'
  <1> SUFFICES ASSUME SketchesSound, [Next]_vars PROVE SketchesSound'
    OBVIOUS
  <1>0. \A o \in Sketch : Sound(sk[o])
    BY DEF SketchesSound
  <1>1. ASSUME NEW o \in Sketch, NEW k \in K, Create(o, k) PROVE SketchesSound'
    <2> DEFINE t == Fresh(k)
    <2>1. sk' = [sk EXCEPT ![o] = t]
      BY <1>1 DEF Create
    <2>2. Sound(t)
      BY FreshSound
    <2> HIDE DEF t
    <2> QED BY <2>1, <2>2, OneSketchChanged
  <1>2. ASSUME NEW o \in Sketch, NEW x \in Item, Update(o, x) PROVE SketchesSound'
    <2>1. PICK v \in Inserted(Updated(sk[o], x), x) : sk' = [sk EXCEPT ![o] = NoCachedView(v)]
      BY <1>2, Zenon DEF Update, Updated
    <2> DEFINE t == NoCachedView(v)
    <2>2. Sound(t)
      BY <1>0, <2>1, UpdatedSound
    <2>3. sk' = [sk EXCEPT ![o] = t]
      BY <2>1
    <2> HIDE DEF t
    <2> QED BY <2>2, <2>3, OneSketchChanged
  <1>3. ASSUME NEW o \in Sketch, Query(o) PROVE SketchesSound'
    <2> DEFINE t == Queried(sk[o])
    <2>1. sk' = [sk EXCEPT ![o] = t] /\ sk[o].n > 0
      BY <1>3 DEF Query
    <2>2. Sound(t)
      BY <1>0, <2>1, QueriedSound
    <2> HIDE DEF t
    <2> QED BY <2>1, <2>2, OneSketchChanged
  <1>4. ASSUME NEW o \in Sketch, Restore(o) PROVE SketchesSound'
    <2> DEFINE t == Restored(sk[o])
    <2>1. sk' = [sk EXCEPT ![o] = t]
      BY <1>4 DEF Restore
    <2>2. t = NoCachedView(sk[o])
      BY <1>0, RestoredIs
    <2>3. Sound(NoCachedView(sk[o]))
      BY <1>0, SoundNoView DEF Sound
    <2> HIDE DEF t
    <2>4. Sound(t)
      BY <2>2, <2>3
    <2> QED BY <2>1, <2>4, OneSketchChanged
  <1>5. ASSUME NEW o \in Sketch, NEW p \in Sketch, Merge(o, p) PROVE SketchesSound'
    <2>1. sk[p].n > 0
      BY <1>5 DEF Merge
    <2>2. PICK t \in Merged(sk[o], sk[p]) : sk' = [sk EXCEPT ![o] = t]
      BY <1>5 DEF Merge
    <2>3. Sound(t)
      BY <1>0, <2>1, <2>2, MergedSound
    <2> QED BY <2>2, <2>3, OneSketchChanged
  <1>6. ASSUME UNCHANGED vars PROVE SketchesSound'
    <2>1. sk' = sk
      BY <1>6 DEF vars
    <2> QED BY <2>1 DEF SketchesSound
  <1> QED BY <1>1, <1>2, <1>3, <1>4, <1>5, <1>6 DEF Next

\* Sound, which every operation keeps: the levels are sorted, within the capacity
\* and weigh n; the extremes and n are those of the items seen; each initial set of
\* items is weighed as often as it was seen, give or take the slack; minK is below
\* every width used, and is k with no slack while nothing was halved; and the cached
\* view is that of the levels.
THEOREM SketchesStaySound == Spec => []SketchesSound
  <1> QED BY SoundInit, SoundStep, PTL DEF Spec

\* Every field of every sketch keeps its type; the extremes are items from the first
\* update on.
THEOREM TypeCorrect == Spec => []TypeOK
  <1>1. SketchesSound => TypeOK
    <2> SUFFICES ASSUME SketchesSound, NEW o \in Sketch
                 PROVE  LET s == sk[o] IN
                        /\ s.k \in K /\ s.minK \in K /\ s.n \in Nat /\ s.capacity \in Nat
                        /\ s.levels \in Seq(Seq(Item)) /\ s.sorted \in BOOLEAN
                        /\ IF s.n = 0 THEN s.min = NoItem /\ s.max = NoItem
                           ELSE {s.min, s.max} \subseteq Item
                        /\ s.view = NoView \/ s.view \in [Item -> Nat]
      BY Zenon DEF TypeOK
    <2> DEFINE s == sk[o]
    <2>1. Sound(s)
      BY DEF SketchesSound
    <2> HIDE DEF s
    <2>2. /\ s.k \in K /\ s.minK \in K /\ s.n \in Nat /\ s.capacity \in Nat
          /\ s.levels \in Stacks /\ s.sorted \in Flags
      BY <2>1, SketchTypes DEF Sound, Stacked
    <2>3. s.view = NoView \/ s.view \in [Item -> Nat]
      BY <2>1 DEF Sound, Viewed, Counters
    <2>4. ASSUME s.n = 0 PROVE s.min = NoItem /\ s.max = NoItem
      BY <2>1, <2>4 DEF Sound, Recorded
    <2>5. ASSUME s.n # 0 PROVE {s.min, s.max} \subseteq Item
      <3>1. s.n > 0
        BY <2>2, <2>5
      <3> QED BY <2>1, <3>1 DEF Sound, Recorded, Bounded
    <2> QED BY <2>2, <2>3, <2>4, <2>5 DEF s, Stacks, Flags
  <1> QED BY <1>1, SketchesStaySound, PTL

\* No std::logic_error about the state of a sketch is ever due, for any k, any
\* number of sketches, and any sequence of updates, queries, merges and restores:
\* the weights add up to n, the levels are sorted, the items fit the buffer, a full
\* sketch has a level to compact, and general_compress() never needs more levels
\* than ub_on_num_levels() gave it room for.
THEOREM NoLogicErrorHolds == Spec => []NoLogicError
  <1>1. SketchesSound => NoLogicError
    <2> SUFFICES ASSUME SketchesSound, NEW o \in Sketch
                 PROVE  WeightsAddUp(sk[o]) /\ LevelsSorted(sk[o]) /\ FitsCapacity(sk[o])
      BY DEF NoLogicError
    <2> DEFINE s == sk[o]
    <2>1. Sound(s)
      BY DEF SketchesSound
    <2> HIDE DEF s
    <2>2. /\ s \in Sketches /\ s.levels \in Stacks /\ Proper(s.levels) /\ s.capacity \in Nat
          /\ Len(s.levels) \in Nat /\ Len(s.levels) >= 1 /\ s.seen \in Counters
          /\ TotalWeight(s.levels) = s.n
      BY <2>1, SketchTypes, LevelType DEF Sound, Stacked, Proper
    <2>3. WeightsAddUp(s)
      <3>1. s.n = SumOver(s.seen, Item)
        BY <2>1 DEF Sound, Recorded
      <3>2. DOMAIN s.seen = Item
        BY <2>2 DEF Counters
      <3>3. SumFunction(s.seen) = SumOver(s.seen, Item)
        BY <3>2 DEF SumFunction, SumFunctionOnSet, SumOver
      <3> QED BY <2>2, <3>1, <3>3 DEF WeightsAddUp
    <2>4. LevelsSorted(s)
      <3>1. \A h \in Heights(s.levels) \ {0} : Sorted(Level(s.levels, h))
        <4>1. \A h \in Heights(s.levels) : h \in Nat
          BY <2>2, HeightsFacts
        <4> QED BY <2>2, <4>1 DEF Proper
      <3>2. Level(s.levels, 0) = s.levels[1]
        <4>1. 0 \in 0..(Len(s.levels) - 1) /\ 0 + 1 = 1
          BY <2>2
        <4>2. Level(s.levels, 0) = s.levels[0 + 1]
          BY <2>2, <4>1, LevelType
        <4> QED BY <4>2
      <3>3. s.sorted => Sorted(Level(s.levels, 0))
        BY <2>1 DEF Sound, Stacked
      <3>4. s.sorted => Sorted(s.levels[1])
        BY <3>2, <3>3
      <3> QED BY <3>1, <3>4 DEF LevelsSorted
    <2>5. FitsCapacity(s)
      <3>1. s.capacity = TotalCapacity(s.k, Len(s.levels)) /\ Retained(s.levels) <= s.capacity
        BY <2>1 DEF Sound, Stacked
      <3>2. Retained(s.levels) \in Nat
        BY <2>2, MassNat
      <3>3. Free(s) >= 0
        BY <2>2, <3>1, <3>2 DEF Free
      <3>4. Len(s.levels) <= UbOnNumLevels(TotalWeight(s.levels))
        BY <2>2, TopBound
      <3>5. Len(s.levels) <= UbOnNumLevels(s.n)
        BY <2>2, <3>4
      <3>6. ASSUME Free(s) = 0 PROVE FullLevels(s) # {}
        <4>1. s.k \in Nat
          BY <2>2, SketchTypes, KFacts
        <4>2. Retained(s.levels) >= TotalCapacity(s.k, Len(s.levels))
          BY <2>2, <3>1, <3>2, <3>6 DEF Free
        <4>3. \E h \in Heights(s.levels) :
                Len(Level(s.levels, h)) >= LevelCapacity(s.k, Len(s.levels), h)
          BY <2>2, <4>1, <4>2, FullExists
        <4> QED BY <4>3 DEF FullLevels
      <3> QED BY <3>1, <3>3, <3>5, <3>6 DEF FitsCapacity
    <2> QED BY <2>3, <2>4, <2>5 DEF s
  <1> QED BY <1>1, SketchesStaySound, PTL

\* Minimum and maximum are exact; every rank and every quantile, inclusive or not,
\* is off by at most one item of each level halved so far (and exact before the
\* first halving), whatever the coins.
THEOREM AnswersBracketTruthHolds == Spec => []AnswersBracketTruth
  <1>1. SketchesSound => AnswersBracketTruth
    <2> SUFFICES ASSUME SketchesSound, NEW o \in Sketch
                 PROVE  LET s == sk[o] IN
      /\ s.n > 0 => LET held == {x \in Item : s.seen[x] > 0}
                    IN s.min = Min(held) /\ s.max = Max(held)
      /\ s.view # NoView => \A inclusive \in BOOLEAN :
           /\ \A x \in Item : Below(s.view, x, inclusive) - TrueBelow(s, x, inclusive)
                                 \in -s.slack..s.slack
           /\ \A w \in 0..s.n : LET q == Quantile(s.view, w, inclusive) IN
                /\ TrueBelow(s, q, FALSE) <= w + s.slack
                /\ TrueBelow(s, q, TRUE) >= w - s.slack
      BY Zenon DEF AnswersBracketTruth
    <2> DEFINE s == sk[o]
    <2>1. Sound(s)
      BY DEF SketchesSound
    <2> HIDE DEF s
    <2>2. s.slack \in Nat
      BY <2>1, SketchTypes DEF Sound, Stacked
    <2>3. ASSUME s.n > 0
          PROVE  LET held == {x \in Item : s.seen[x] > 0}
                 IN s.min = Min(held) /\ s.max = Max(held)
      <3>1. s.min = Min(Held(s.seen)) /\ s.max = Max(Held(s.seen))
        BY <2>1, <2>3, ExtremesExact
      <3> QED BY <3>1 DEF Held
    <2>4. ASSUME s.view # NoView, NEW inclusive \in Flags, NEW x \in Item
          PROVE  Below(s.view, x, inclusive) - TrueBelow(s, x, inclusive)
                    \in -s.slack..s.slack
      <3> DEFINE B == UpTo(x, inclusive)
                 u == SumOver(s.view, B)
                 v == SumOver(s.seen, B)
      <3>1. Down(B)
        BY UpToDown
      <3>2. Below(s.view, x, inclusive) = u /\ TrueBelow(s, x, inclusive) = v
        BY DEF Below, TrueBelow, SumFunctionOnSet, SumOver
      <3> HIDE DEF B
      <3>3. u \in Nat /\ v \in Nat /\ Within(u - v, s.slack)
        BY <2>1, <2>4, <3>1, RankNear
      <3> HIDE DEF u, v
      <3>4. u - v \in -s.slack..s.slack
        BY <2>2, <3>3 DEF Within
      <3> QED BY <3>2, <3>4
    <2>5. ASSUME s.view # NoView, NEW inclusive \in Flags, NEW w \in 0..s.n
          PROVE  LET q == Quantile(s.view, w, inclusive) IN
                 /\ TrueBelow(s, q, FALSE) <= w + s.slack
                 /\ TrueBelow(s, q, TRUE) >= w - s.slack
      <3> DEFINE q == Quantile(s.view, w, inclusive)
      <3>1. /\ SumOver(s.seen, Under(q)) <= w + s.slack
            /\ SumOver(s.seen, AtMost(q)) >= w - s.slack
        BY <2>1, <2>5, QuantileNear
      <3> HIDE DEF q
      <3>2. /\ TrueBelow(s, q, FALSE) = SumOver(s.seen, Under(q))
            /\ TrueBelow(s, q, TRUE) = SumOver(s.seen, AtMost(q))
        BY DEF TrueBelow, SumFunctionOnSet, SumOver, Under, AtMost
      <3>3. /\ TrueBelow(s, q, FALSE) <= w + s.slack
            /\ TrueBelow(s, q, TRUE) >= w - s.slack
        BY <3>1, <3>2
      <3> QED BY <3>3 DEF q
    <2>6. ASSUME s.view # NoView, NEW inclusive \in BOOLEAN
          PROVE  /\ \A x \in Item : Below(s.view, x, inclusive) - TrueBelow(s, x, inclusive)
                                       \in -s.slack..s.slack
                 /\ \A w \in 0..s.n : LET q == Quantile(s.view, w, inclusive) IN
                      /\ TrueBelow(s, q, FALSE) <= w + s.slack
                      /\ TrueBelow(s, q, TRUE) >= w - s.slack
      <3>1. inclusive \in Flags
        BY <2>6 DEF Flags
      <3> QED BY <2>4, <2>5, <2>6, <3>1
    <2> QED BY <2>3, <2>6 DEF s
  <1> QED BY <1>1, SketchesStaySound, PTL

\* min_k_, from which the rank error is computed, is never larger than a width by
\* which an absorbed item has been halved away, through any chain of merges.
THEOREM EffectiveKHolds == Spec => []EffectiveKSound
  <1>1. SketchesSound => EffectiveKSound
    BY DEF SketchesSound, EffectiveKSound, Sound, Widths
  <1> QED BY <1>1, SketchesStaySound, PTL

\* A sketch read back from its bytes is the sketch, up to the cached view: the
\* capacity and, for one item, the extremes and min_k_, are not in the bytes and are
\* derived rightly.
THEOREM RestoreFaithfulHolds == Spec => []RestoreFaithful
  <1>1. SketchesSound => RestoreFaithful
    <2>1. ASSUME SketchesSound, NEW o \in Sketch
          PROVE  Restored(sk[o]) = [sk[o] EXCEPT !.view = NoView]
      <3>1. Restored(sk[o]) = NoCachedView(sk[o])
        BY <2>1, RestoredIs DEF SketchesSound
      <3> QED BY <3>1, Zenon DEF NoCachedView
    <2> QED BY <2>1, Zenon DEF RestoreFaithful
  <1> QED BY <1>1, SketchesStaySound, PTL
==============================================================================
