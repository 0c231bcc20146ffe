--------------------------- MODULE WeightedProofs ---------------------------
(***************************************************************************)
(* What holds of the sketches that count weighted items, for every value   *)
(* of the constants and every sequence of operations.  Frequent items:     *)
(* the bounds bracket the truth, a round trip gives back the same          *)
(* counters, the total weight is exact and the offset has been paid for    *)
(* by the counters that the purges cut.  Count-min: for every hash         *)
(* function, estimates stay between what came and what other items added,  *)
(* and a payload loses nothing.                                            *)
(***************************************************************************)
EXTENDS Weighted, InductionTheorems


Counter == [Item -> Nat]

\* What a replay in progress has already fed of item i into its receiver.
Sent(i) == IF i \in call.rest THEN 0 ELSE map[call.from][i]

\* No map is over its capacity between two operations.
CapacityInv ==
  \A s \in Sketch : Cardinality(Active(map[s])) <= Capacity(max_size[s])

\* A replay is between two sketches and feeds active items only.
ReplayInv ==
  call # Idle => /\ call.to # call.from
                 /\ call.rest \subseteq Active(map[call.from])

\* In a merge the receiver brackets its own truth and what was sent so far.
MergeInv ==
  call # Idle /\ call.op = "merge" =>
    \A i \in Item :
      /\ map[call.to][i] <= truth[call.to][i] + Sent(i)
      /\ truth[call.to][i] + Sent(i)
           <= map[call.to][i] + offset[call.to] + dropped[call.to].offset

\* In a restore the receiver holds exactly what was sent so far.
RestoreInv ==
  call # Idle /\ call.op = "restore" =>
    /\ max_size[call.to] = max_size[call.from]
    /\ \A i \in Item : map[call.to][i] = Sent(i)

IInv ==
  /\ TypeOK
  /\ CapacityInv
  /\ ReplayInv
  /\ MergeInv
  /\ RestoreInv
  /\ BoundsBracketTruth

----------------------------------------------------------------------------
(* The counter map *)

LEMMA CapacityNat == \A size \in MapSizes : Capacity(size) \in Nat
  <1>1. ASSUME NEW a \in Nat, NEW d \in Nat \ {0} PROVE a \div d \in Nat
    OBVIOUS
  <1>2. ASSUME NEW size \in MapSizes PROVE LOAD_NUM * size \in Nat
    BY SizeAssumption, LoadAssumption
  <1> QED BY <1>1, <1>2, LoadAssumption DEF Capacity

LEMMA ActiveFinite ==
  ASSUME NEW f PROVE IsFiniteSet(Active(f)) /\ Cardinality(Active(f)) \in Nat
  <1>1. Active(f) \subseteq Item
    BY DEF Active
  <1> QED BY <1>1, ItemAssumption, FS_Subset, FS_CardinalityType

\* A purge subtracts nothing or one of the counters it holds.
LEMMA PurgeAmount ==
  ASSUME NEW f \in Counter, NEW i \in Item, NEW w \in Nat, NEW size \in MapSizes,
         NEW m \in PurgeAmounts(f, i, w, size)
  PROVE  /\ m \in Nat
         /\ \/ m = 0 /\ (f[i] # 0 \/ Cardinality(Active(Adjust(f, i, w))) <= Capacity(size))
            \/ f[i] = 0 /\ \E j \in Active(Adjust(f, i, w)) : m = Adjust(f, i, w)[j]
  <1> DEFINE g == Adjust(f, i, w)
  <1>1. g \in Counter
    BY DEF Adjust, Counter
  <1>2. CASE f[i] = 0 /\ Cardinality(Active(g)) > Capacity(size)
    <2>1. m \in Medians(g)
      BY <1>2 DEF PurgeAmounts
    <2>2. PICK j \in Active(g) : m = g[j]
      BY <2>1 DEF Medians
    <2>3. j \in Item
      BY <2>2 DEF Active
    <2> QED BY <1>1, <1>2, <2>2, <2>3 DEF Counter
  <1>3. CASE ~(f[i] = 0 /\ Cardinality(Active(g)) > Capacity(size))
    <2>1. m = 0
      BY <1>3 DEF PurgeAmounts
    <2>2. f[i] # 0 \/ Cardinality(Active(g)) <= Capacity(size)
      BY <1>3, ActiveFinite, CapacityNat
    <2> QED BY <2>1, <2>2
  <1> QED BY <1>2, <1>3

\* Feeding w of item i raises no counter by more than what was fed, and loses
\* no more than the purge adds to the offset.
LEMMA FeedBounds ==
  ASSUME NEW f \in Counter, NEW i \in Item, NEW w \in Nat, NEW m \in Nat,
         NEW j \in Item
  PROVE  LET g == Subtract(Adjust(f, i, w), m)
             fed == f[j] + (IF j = i THEN w ELSE 0)
         IN g \in Counter /\ g[j] <= fed /\ fed <= g[j] + m
  BY DEF Counter, Adjust, Subtract

LEMMA FeedType ==
  ASSUME NEW f \in Counter, NEW i \in Item, NEW w \in Nat, NEW m \in Nat
  PROVE  Subtract(Adjust(f, i, w), m) \in Counter
  BY DEF Counter, Adjust, Subtract

\* resize_or_purge leaves the map within its capacity: an insertion adds one
\* active item, and a purge by the median removes at least the median.
LEMMA FeedCapacity ==
  ASSUME NEW f \in Counter, NEW i \in Item, NEW w \in Nat, NEW size \in MapSizes,
         NEW m \in PurgeAmounts(f, i, w, size),
         Cardinality(Active(f)) <= Capacity(size)
  PROVE  Cardinality(Active(Subtract(Adjust(f, i, w), m))) <= Capacity(size)
  <1> DEFINE g == Adjust(f, i, w)
             h == Subtract(g, m)
  <1>0. m \in Nat
    BY PurgeAmount
  <1>1. g \in Counter /\ m \in Nat /\ h \in Counter
    <2>1. g \in Counter
      BY DEF Adjust, Counter
    <2>2. h \in Counter
      BY <1>0, FeedType
    <2> QED BY <1>0, <2>1, <2>2
  <1>2. Active(g) \subseteq Active(f) \cup {i}
    BY DEF Active, Adjust, Counter
  <1>3. Active(h) \subseteq Active(g)
    BY <1>1 DEF Active, Subtract, Counter
  <1>4. CASE m = 0 /\ f[i] # 0
    <2>1. Active(h) \subseteq Active(f)
      BY <1>2, <1>3, <1>4 DEF Active, Counter
    <2>2. Cardinality(Active(h)) <= Cardinality(Active(f))
      BY <2>1, ActiveFinite, FS_Subset
    <2> QED BY <2>2, ActiveFinite, CapacityNat
  <1>5. CASE m = 0 /\ Cardinality(Active(g)) <= Capacity(size)
    <2>1. Cardinality(Active(h)) <= Cardinality(Active(g))
      BY <1>3, ActiveFinite, FS_Subset
    <2> QED BY <1>5, <2>1, ActiveFinite, CapacityNat
  <1>6. CASE \E j \in Active(g) : m = g[j]
    <2>1. PICK j \in Active(g) : m = g[j]
      BY <1>6
    <2>2. j \notin Active(h)
      BY <1>1, <2>1 DEF Active, Subtract, Counter
    <2>3. Active(h) \subseteq Active(g) \ {j}
      BY <1>3, <2>2
    <2>4. /\ IsFiniteSet(Active(g) \ {j})
          /\ Cardinality(Active(g) \ {j}) = Cardinality(Active(g)) - 1
      BY <2>1, ActiveFinite, FS_RemoveElement
    <2>5. Cardinality(Active(h)) <= Cardinality(Active(g)) - 1
      BY <2>3, <2>4, FS_Subset
    <2>6. /\ IsFiniteSet(Active(f) \cup {i})
          /\ Cardinality(Active(f) \cup {i}) <= Cardinality(Active(f)) + 1
      <3>1. IsFiniteSet(Active(f)) /\ Cardinality(Active(f)) \in Nat
        BY ActiveFinite
      <3>2. /\ IsFiniteSet(Active(f) \cup {i})
            /\ \/ Cardinality(Active(f) \cup {i}) = Cardinality(Active(f))
               \/ Cardinality(Active(f) \cup {i}) = Cardinality(Active(f)) + 1
        BY <3>1, FS_AddElement
      <3> QED BY <3>1, <3>2
    <2>7. Cardinality(Active(g)) <= Cardinality(Active(f)) + 1
      BY <1>2, <2>6, ActiveFinite, FS_Subset, FS_CardinalityType
    <2> QED BY <2>5, <2>7, ActiveFinite, CapacityNat
  <1> QED BY <1>4, <1>5, <1>6, PurgeAmount

\* Replaying an active item of a map that is within its capacity into a part of
\* it never purges.
LEMMA ReplayNeverPurges ==
  ASSUME NEW f \in Counter, NEW g \in Counter, NEW i \in Active(g),
         NEW size \in MapSizes, NEW m \in PurgeAmounts(f, i, g[i], size),
         \A j \in Active(f) : j \in Active(g),
         Cardinality(Active(g)) <= Capacity(size)
  PROVE  m = 0
  <1>1. i \in Item /\ g[i] \in Nat
    BY DEF Active, Counter
  <1>2. Active(Adjust(f, i, g[i])) \subseteq Active(g)
    BY <1>1 DEF Active, Adjust, Counter
  <1>3. Cardinality(Active(Adjust(f, i, g[i]))) <= Capacity(size)
    BY <1>2, ActiveFinite, FS_Subset, CapacityNat
  <1>4. ~(Cardinality(Active(Adjust(f, i, g[i]))) > Capacity(size))
    BY <1>3, ActiveFinite, CapacityNat
  <1> QED BY <1>4 DEF PurgeAmounts

----------------------------------------------------------------------------
(* Sums of counters *)

LEMMA SumIsSumOver == ASSUME NEW f PROVE Sum(f) = SumOver(f, Item)
  BY DEF Sum, SumOver

LEMMA SumCounter ==
  ASSUME NEW f \in Counter PROVE Sum(f) \in Nat
  BY ItemAssumption, SumIsSumOver, SumNat DEF Counter

LEMMA DivMonotone ==
  ASSUME NEW a \in Nat, NEW b \in Nat, NEW d \in Nat \ {0}, a <= b
  PROVE  a \div d <= b \div d
  OBVIOUS

\* A larger map pays for a purge with no fewer counters.
LEMMA ShareMonotone ==
  ASSUME NEW y \in MapSizes, NEW z \in MapSizes, y <= z
  PROVE  Share(y) \in Nat /\ Share(z) \in Nat /\ Share(y) <= Share(z)
  <1>1. LOAD_NUM * y \in Nat /\ LOAD_NUM * z \in Nat /\ LOAD_NUM * y <= LOAD_NUM * z
    BY SizeAssumption, LoadAssumption
  <1>2. Capacity(y) <= Capacity(z)
    BY <1>1, LoadAssumption, DivMonotone DEF Capacity
  <1>3. Capacity(y) \in Nat /\ Capacity(z) \in Nat
    BY CapacityNat
  <1> QED BY <1>2, <1>3, BoundAssumption DEF Share

\* At least Share counters of a map that overflows are no smaller than the
\* median of a sample of it.
LEMMA MedianShare ==
  ASSUME NEW g \in Counter, NEW size \in MapSizes, NEW m \in Medians(g),
         Cardinality(Active(g)) > Capacity(size)
  PROVE  \E C \in SUBSET Item : /\ \A j \in C : m <= g[j]
                                /\ IsFiniteSet(C) /\ Cardinality(C) \in Nat
                                /\ Share(size) <= Cardinality(C)
  <1>1. PICK S \in Samples(g) : IsMedian(m, g, S)
    BY DEF Medians
  <1>2. /\ m \in Nat /\ S \subseteq Active(g) /\ S \subseteq Item
    BY <1>1 DEF Medians, Samples, Active, Counter
  <1> DEFINE L == {i \in S : g[i] < m}
             C == S \ L
  <1>3. /\ IsFiniteSet(S) /\ Cardinality(S) \in Nat
        /\ IsFiniteSet(L) /\ IsFiniteSet(C)
        /\ Cardinality(L) \in Nat /\ Cardinality(C) \in Nat
    <2>1. L \subseteq Item /\ C \subseteq Item
      BY <1>2
    <2> HIDE DEF L, C
    <2> QED BY <1>2, <2>1, ItemAssumption, FS_Subset, FS_CardinalityType
  <1>4. Cardinality(C) = Cardinality(S) - Cardinality(L)
    <2>1. S \cap L = L
      OBVIOUS
    <2> QED BY <1>3, <2>1, FS_Difference
  <1>5. Cardinality(L) <= Cardinality(S) \div 2
    BY <1>1 DEF IsMedian
  <1>6. \/ Cardinality(S) = MAX_SAMPLE_SIZE
        \/ Cardinality(S) >= Capacity(size) + 1
    BY <1>1, <1>3, ActiveFinite, CapacityNat DEF Samples
  <1>7. Share(size) <= Cardinality(C)
    <2> HIDE DEF L, C
    <2> QED BY <1>3, <1>4, <1>5, <1>6, CapacityNat, BoundAssumption DEF Share
  <1>8. \A j \in C : m <= g[j]
    BY <1>2 DEF Counter
  <1> QED BY <1>2, <1>3, <1>7, <1>8

\* What feeding w does to the sum of the counters: it adds w, and a purge takes
\* its median from Share counters at least.
LEMMA FeedSum ==
  ASSUME NEW f \in Counter, NEW i \in Item, NEW w \in Nat, NEW size \in MapSizes,
         NEW m \in PurgeAmounts(f, i, w, size),
         NEW least \in MapSizes, \A other \in MapSizes : least <= other
  PROVE  Sum(Subtract(Adjust(f, i, w), m)) + m * Share(least) <= Sum(f) + w
  <1> DEFINE g == Adjust(f, i, w)
             h == Subtract(g, m)
             K == Share(least)
  <1>1. m \in Nat /\ K \in Nat
    BY PurgeAmount, ShareMonotone, SizeAssumption
  <1>2. g \in Counter /\ h \in Counter
    <2>1. g \in Counter
      BY DEF Adjust, Counter
    <2> QED BY <1>1, <2>1, FeedType
  <1>3. SumOver(g, Item) = SumOver(f, Item) + w
    <2>1. \A j \in Item : f[j] \in Int /\ g[j] \in Int /\ (j # i => g[j] = f[j])
      BY DEF Adjust, Counter
    <2>2. g[i] - f[i] = w
      BY DEF Adjust, Counter
    <2>3. SumOver(g, Item) = SumOver(f, Item) + (g[i] - f[i])
      <3> HIDE DEF g
      <3> QED BY <2>1, ItemAssumption, SumChange
    <2> QED BY <2>2, <2>3
  <1>4. \A j \in Item : /\ g[j] \in Nat /\ h[j] \in Nat /\ h[j] <= g[j]
                        /\ m <= g[j] => h[j] + m <= g[j]
    <2>1. \A j \in Item : g[j] \in Nat /\ h[j] \in Nat
      BY <1>2 DEF Counter
    <2>2. \A j \in Item : h[j] = IF g[j] > m THEN g[j] - m ELSE 0
      BY DEF Subtract
    <2> HIDE DEF g, h
    <2> QED BY <1>1, <2>1, <2>2
  <1>5. SumOver(g, Item) \in Nat /\ SumOver(h, Item) \in Nat
    BY <1>2, SumCounter, SumIsSumOver
  <1>6. SumOver(h, Item) + m * K <= SumOver(g, Item)
    <2>1. CASE f[i] = 0 /\ Cardinality(Active(g)) > Capacity(size)
      <3>1. m \in Medians(g)
        BY <2>1 DEF PurgeAmounts
      <3>2. PICK C \in SUBSET Item : /\ \A j \in C : m <= g[j]
                                     /\ IsFiniteSet(C) /\ Cardinality(C) \in Nat
                                     /\ Share(size) <= Cardinality(C)
        <4> HIDE DEF g
        <4> QED BY <1>2, <2>1, <3>1, MedianShare
      <3>3. \A j \in Item : /\ g[j] \in Int /\ h[j] \in Int /\ h[j] <= g[j]
                            /\ j \in C => h[j] + m <= g[j]
        BY <1>4, <3>2
      <3>4. SumOver(h, Item) + m * Cardinality(C) <= SumOver(g, Item)
        <4> HIDE DEF g, h
        <4> QED BY <1>1, <3>3, ItemAssumption, SumLoses
      <3>5. K <= Cardinality(C)
        BY <1>1, <3>2, ShareMonotone
      <3>6. \A a, b, c \in Nat : b <= c => a * b <= a * c
        OBVIOUS
      <3>7. m * K <= m * Cardinality(C) /\ m * K \in Nat /\ m * Cardinality(C) \in Nat
        <4> HIDE DEF K
        <4> QED BY <1>1, <3>2, <3>5, <3>6
      <3> HIDE DEF g, h, K
      <3> QED BY <1>5, <3>4, <3>7
    <2>2. CASE ~ (f[i] = 0 /\ Cardinality(Active(g)) > Capacity(size))
      <3>1. m = 0 /\ m * K = 0
        BY <1>1, <2>2 DEF PurgeAmounts
      <3>2. SumOver(h, Item) <= SumOver(g, Item)
        <4>1. \A j \in Item : g[j] \in Int /\ h[j] \in Int /\ h[j] <= g[j]
          BY <1>4
        <4> HIDE DEF g, h
        <4> QED BY <4>1, ItemAssumption, SumMonotone
      <3> HIDE DEF g, h, K
      <3> QED BY <1>5, <3>1, <3>2
    <2> QED BY <2>1, <2>2
  <1> HIDE DEF g, h, K
  <1>7. SumOver(f, Item) \in Nat
    BY SumCounter, SumIsSumOver
  <1>8. SumOver(h, Item) + m * K <= SumOver(f, Item) + w
    BY <1>3, <1>6
  <1> QED BY <1>8, SumIsSumOver DEF g, h, K

----------------------------------------------------------------------------
(* The inductive invariant *)

LEMMA CallFields ==
  ASSUME call \in Calls, call # Idle
  PROVE  /\ call.op \in {"merge", "restore"}
         /\ call.to \in Sketch
         /\ call.from \in Sketch
         /\ call.rest \in SUBSET Item
         /\ call.total \in Nat
  BY DEF Calls, Idle

LEMMA InitIInv == Init => IInv
  <1> SUFFICES ASSUME Init PROVE IInv
    OBVIOUS
  <1>1. TypeOK
    BY DEF Init, TypeOK, Zero, Calls, NothingDropped, DroppedType
  <1>2. CapacityInv
    <2>1. ASSUME NEW s \in Sketch PROVE Cardinality(Active(map[s])) <= Capacity(max_size[s])
      <3>1. Active(map[s]) = {}
        BY DEF Init, Active, Zero
      <3>2. max_size[s] \in MapSizes
        BY DEF Init
      <3>3. 0 <= Capacity(max_size[s])
        BY <3>2, CapacityNat
      <3> QED BY <3>1, <3>3, FS_EmptySet
    <2> QED BY <2>1 DEF CapacityInv
  <1>3. ReplayInv /\ MergeInv /\ RestoreInv
    BY DEF Init, ReplayInv, MergeInv, RestoreInv
  <1>4. BoundsBracketTruth
    BY DEF Init, BoundsBracketTruth, LowerBound, UpperBound, Zero, NothingDropped
  <1> QED BY <1>1, <1>2, <1>3, <1>4 DEF IInv

\* What one call of update does to the maps.
LEMMA FeedStep ==
  ASSUME TypeOK, CapacityInv, NEW s \in Sketch, NEW i \in Item, NEW w \in Nat,
         Feed(s, i, w)
  PROVE  /\ map' \in [Sketch -> Counter]
         /\ offset' \in [Sketch -> Nat]
         /\ total_weight' \in [Sketch -> Nat]
         /\ \A r \in Sketch \ {s} : map'[r] = map[r] /\ offset'[r] = offset[r]
         /\ Cardinality(Active(map'[s])) <= Capacity(max_size[s])
         /\ \E m \in PurgeAmounts(map[s], i, w, max_size[s]) :
              /\ m \in Nat
              /\ offset'[s] = offset[s] + m
              /\ map'[s] = Subtract(Adjust(map[s], i, w), m)
         /\ \A j \in Item :
              LET fed == map[s][j] + (IF j = i THEN w ELSE 0) IN
              map'[s][j] <= fed /\ fed + offset[s] <= map'[s][j] + offset'[s]
  <1>1. PICK m \in PurgeAmounts(map[s], i, w, max_size[s]) :
          /\ map' = [map EXCEPT ![s] = Subtract(Adjust(map[s], i, w), m)]
          /\ offset' = [offset EXCEPT ![s] = @ + m]
          /\ total_weight' = [total_weight EXCEPT ![s] = @ + w]
    BY DEF Feed
  <1>2. map \in [Sketch -> Counter] /\ max_size[s] \in MapSizes /\ offset \in [Sketch -> Nat]
    BY DEF TypeOK, Counter
  <1>3. map[s] \in Counter /\ offset[s] \in Nat
    BY <1>2
  <1>4. m \in Nat
    BY <1>2, <1>3, PurgeAmount
  <1>5. Subtract(Adjust(map[s], i, w), m) \in Counter
    BY <1>3, <1>4, FeedType
  <1>6. /\ map' \in [Sketch -> Counter]
        /\ offset' \in [Sketch -> Nat]
        /\ total_weight' \in [Sketch -> Nat]
    BY <1>1, <1>2, <1>4, <1>5 DEF TypeOK
  <1>7. \A r \in Sketch \ {s} : map'[r] = map[r] /\ offset'[r] = offset[r]
    BY <1>1, <1>2
  <1>8. map'[s] = Subtract(Adjust(map[s], i, w), m) /\ offset'[s] = offset[s] + m
    BY <1>1, <1>2
  <1>9. Cardinality(Active(map'[s])) <= Capacity(max_size[s])
    BY <1>2, <1>3, <1>8, FeedCapacity DEF CapacityInv
  <1>10. ASSUME NEW j \in Item
         PROVE  LET fed == map[s][j] + (IF j = i THEN w ELSE 0) IN
                map'[s][j] <= fed /\ fed + offset[s] <= map'[s][j] + offset'[s]
    <2> DEFINE fed == map[s][j] + (IF j = i THEN w ELSE 0)
               g == Subtract(Adjust(map[s], i, w), m)
    <2>1. g \in Counter /\ g[j] <= fed /\ fed <= g[j] + m
      BY <1>3, <1>4, FeedBounds
    <2>2. fed \in Nat /\ g[j] \in Nat
      BY <1>3, <2>1 DEF Counter
    <2> HIDE DEF fed, g
    <2>3. map'[s][j] = g[j] /\ offset'[s] = offset[s] + m
      BY <1>8 DEF g
    <2>4. map'[s][j] <= fed /\ fed + offset[s] <= map'[s][j] + offset'[s]
      BY <1>3, <1>4, <2>1, <2>2, <2>3
    <2> QED BY <2>4 DEF fed
  <1> QED BY <1>4, <1>6, <1>7, <1>8, <1>9, <1>10

LEMMA UpdateIInv ==
  ASSUME IInv, NEW s \in Sketch, NEW i \in Item, NEW w \in 1..MaxWeight,
         Update(s, i, w)
  PROVE  IInv'
  <1>1. w \in Nat /\ call = Idle /\ call' = Idle /\ Feed(s, i, w)
    BY BoundAssumption DEF Update
  <1>2. UNCHANGED <<max_size, call, dropped>> /\ truth' = [truth EXCEPT ![s][i] = @ + w]
    BY DEF Update
  <1>3. /\ map' \in [Sketch -> Counter]
        /\ offset' \in [Sketch -> Nat]
        /\ total_weight' \in [Sketch -> Nat]
        /\ \A r \in Sketch \ {s} : map'[r] = map[r] /\ offset'[r] = offset[r]
        /\ Cardinality(Active(map'[s])) <= Capacity(max_size[s])
        /\ \A j \in Item :
             LET fed == map[s][j] + (IF j = i THEN w ELSE 0) IN
             map'[s][j] <= fed /\ fed + offset[s] <= map'[s][j] + offset'[s]
    BY <1>1, FeedStep DEF IInv
  <1>4. TypeOK'
    <2>1. truth' \in [Sketch -> [Item -> Nat]]
      BY <1>1, <1>2 DEF IInv, TypeOK
    <2>2. map' \in [Sketch -> [Item -> Nat]]
      BY <1>3 DEF Counter
    <2> QED BY <1>2, <1>3, <2>1, <2>2 DEF IInv, TypeOK
  <1>5. CapacityInv'
    BY <1>2, <1>3 DEF IInv, CapacityInv
  <1>6. ReplayInv' /\ MergeInv' /\ RestoreInv'
    BY <1>1 DEF ReplayInv, MergeInv, RestoreInv
  <1>7. BoundsBracketTruth'
    <2> SUFFICES ASSUME NEW r \in Sketch, NEW j \in Item
                 PROVE  /\ map'[r][j] <= truth'[r][j]
                        /\ truth'[r][j] <= map'[r][j] + offset'[r] + dropped'[r].offset
      BY DEF BoundsBracketTruth, LowerBound, UpperBound
    <2>1. /\ map[r][j] <= truth[r][j]
          /\ truth[r][j] <= map[r][j] + offset[r] + dropped[r].offset
      BY <1>1 DEF IInv, BoundsBracketTruth, LowerBound, UpperBound, Settled
    <2>2. /\ map[r][j] \in Nat /\ truth[r][j] \in Nat /\ offset[r] \in Nat
          /\ dropped[r].offset \in Nat
          /\ map'[r][j] \in Nat /\ offset'[r] \in Nat
      BY <1>3 DEF IInv, TypeOK, DroppedType, Counter
    <2>3. dropped'[r] = dropped[r]
      BY <1>2
    <2>4. CASE r # s
      BY <1>2, <1>3, <2>1, <2>3, <2>4 DEF IInv, TypeOK
    <2>5. CASE r = s
      <3>1. truth'[s][j] = truth[s][j] + (IF j = i THEN w ELSE 0)
        BY <1>1, <1>2, <2>2, <2>5 DEF IInv, TypeOK
      <3> QED BY <1>1, <1>3, <2>1, <2>2, <2>3, <2>5, <3>1
    <2> QED BY <2>4, <2>5
  <1> QED BY <1>4, <1>5, <1>6, <1>7 DEF IInv

LEMMA MergeEmptyIInv ==
  ASSUME IInv, NEW s \in Sketch, NEW o \in Sketch, MergeEmpty(s, o)
  PROVE  IInv'
  <1>1. /\ call = Idle /\ s # o /\ Active(map[o]) = {}
        /\ UNCHANGED <<max_size, map, offset, total_weight, call>>
        /\ truth' = [truth EXCEPT ![s] = AddTruth(@, truth[o])]
        /\ dropped' = [dropped EXCEPT ![s] = AddDropped(@, DroppedWith(o))]
    BY DEF MergeEmpty, IsEmpty
  <1>2. TypeOK'
    <2>1. truth' \in [Sketch -> [Item -> Nat]]
      BY <1>1 DEF IInv, TypeOK, AddTruth
    <2>2. dropped' \in [Sketch -> DroppedType]
      BY <1>1 DEF IInv, TypeOK, AddDropped, DroppedWith, DroppedType
    <2> QED BY <1>1, <2>1, <2>2 DEF IInv, TypeOK
  <1>3. CapacityInv' /\ ReplayInv' /\ MergeInv' /\ RestoreInv'
    BY <1>1 DEF IInv, CapacityInv, ReplayInv, MergeInv, RestoreInv
  <1>4. BoundsBracketTruth'
    <2> SUFFICES ASSUME NEW r \in Sketch, NEW j \in Item
                 PROVE  /\ map[r][j] <= truth'[r][j]
                        /\ truth'[r][j] <= map[r][j] + offset[r] + dropped'[r].offset
      BY <1>1 DEF BoundsBracketTruth, LowerBound, UpperBound
    <2>1. \A q \in Sketch : /\ map[q][j] <= truth[q][j]
                           /\ truth[q][j] <= map[q][j] + offset[q] + dropped[q].offset
      BY <1>1 DEF IInv, BoundsBracketTruth, LowerBound, UpperBound, Settled
    <2>2. \A q \in Sketch : /\ map[q][j] \in Nat /\ truth[q][j] \in Nat
                           /\ offset[q] \in Nat /\ dropped[q].offset \in Nat
      BY DEF IInv, TypeOK, DroppedType
    <2>3. CASE r # s
      BY <1>1, <2>1, <2>3 DEF IInv, TypeOK
    <2>4. CASE r = s
      <3>1. map[o][j] = 0
        BY <1>1, <2>2 DEF Active
      <3>2. truth'[s][j] = truth[s][j] + truth[o][j]
        BY <1>1 DEF IInv, TypeOK, AddTruth
      <3>3. dropped'[s].offset = dropped[s].offset + (dropped[o].offset + offset[o])
        BY <1>1 DEF IInv, TypeOK, AddDropped, DroppedWith
      <3> QED BY <2>1, <2>2, <2>4, <3>1, <3>2, <3>3
    <2> QED BY <2>3, <2>4
  <1> QED BY <1>2, <1>3, <1>4 DEF IInv

LEMMA MergeBeginIInv ==
  ASSUME IInv, NEW s \in Sketch, NEW o \in Sketch, MergeBegin(s, o)
  PROVE  IInv'
  <1>1. /\ call = Idle /\ s # o
        /\ UNCHANGED <<max_size, map, offset, total_weight, truth, dropped>>
        /\ call' = [op |-> "merge", to |-> s, from |-> o, rest |-> Active(map[o]),
                    total |-> total_weight[s] + total_weight[o]]
    BY DEF MergeBegin
  <1>2. Active(map[o]) \in SUBSET Item
    BY DEF Active
  <1>3. TypeOK'
    <2>1. call' \in Calls
      BY <1>1, <1>2 DEF IInv, TypeOK, Calls
    <2> QED BY <1>1, <2>1 DEF IInv, TypeOK
  <1>4. CapacityInv'
    BY <1>1 DEF IInv, CapacityInv
  <1>5. ReplayInv' /\ RestoreInv'
    BY <1>1 DEF ReplayInv, RestoreInv
  <1>6. MergeInv'
    <2> SUFFICES ASSUME NEW j \in Item
                 PROVE  /\ map[s][j] <= truth[s][j] + Sent(j)'
                        /\ truth[s][j] + Sent(j)'
                             <= map[s][j] + offset[s] + dropped[s].offset
      BY <1>1 DEF MergeInv
    <2>1. Sent(j)' = 0
      <3>1. map[o][j] \in Nat
        BY DEF IInv, TypeOK
      <3> QED BY <1>1, <3>1 DEF Sent, Active
    <2>2. /\ map[s][j] <= truth[s][j]
          /\ truth[s][j] <= map[s][j] + offset[s] + dropped[s].offset
      BY <1>1 DEF IInv, BoundsBracketTruth, LowerBound, UpperBound, Settled
    <2>3. truth[s][j] \in Nat
      BY DEF IInv, TypeOK
    <2> QED BY <2>1, <2>2, <2>3
  <1>7. BoundsBracketTruth'
    BY <1>1 DEF IInv, BoundsBracketTruth, LowerBound, UpperBound, Settled
  <1> QED BY <1>3, <1>4, <1>5, <1>6, <1>7 DEF IInv

LEMMA FreshCapacity ==
  ASSUME IInv, NEW s \in Sketch, NEW o \in Sketch, Fresh(s, max_size[o])
  PROVE  CapacityInv'
  <1>1. /\ map' = [map EXCEPT ![s] = Zero]
        /\ max_size' = [max_size EXCEPT ![s] = max_size[o]]
    BY DEF Fresh
  <1> SUFFICES ASSUME NEW r \in Sketch
               PROVE  Cardinality(Active(map'[r])) <= Capacity(max_size'[r])
    BY DEF CapacityInv
  <1>2. CASE r = s
    <2>1. Active(map'[r]) = {}
      BY <1>1, <1>2 DEF IInv, TypeOK, Active, Zero
    <2>2. max_size'[r] \in MapSizes
      BY <1>1, <1>2 DEF IInv, TypeOK
    <2>3. Capacity(max_size'[r]) \in Nat
      BY <2>2, CapacityNat
    <2> QED BY <2>1, <2>3, FS_EmptySet
  <1>3. CASE r # s
    BY <1>1, <1>3 DEF IInv, TypeOK, CapacityInv
  <1> QED BY <1>2, <1>3

LEMMA RestoreEmptyIInv ==
  ASSUME IInv, NEW s \in Sketch, NEW o \in Sketch, RestoreEmpty(s, o)
  PROVE  IInv'
  <1>1. /\ call = Idle /\ s # o /\ Active(map[o]) = {} /\ call' = call
        /\ Fresh(s, max_size[o])
        /\ truth' = [truth EXCEPT ![s] = truth[o]]
        /\ dropped' = [dropped EXCEPT ![s] = DroppedWith(o)]
    BY DEF RestoreEmpty, IsEmpty
  <1>2. TypeOK'
    BY <1>1 DEF IInv, TypeOK, Fresh, Zero, DroppedWith, DroppedType
  <1>3. CapacityInv'
    BY <1>1, FreshCapacity
  <1>4. ReplayInv' /\ MergeInv' /\ RestoreInv'
    BY <1>1 DEF ReplayInv, MergeInv, RestoreInv
  <1>5. BoundsBracketTruth'
    <2> SUFFICES ASSUME NEW r \in Sketch, NEW j \in Item
                 PROVE  /\ map'[r][j] <= truth'[r][j]
                        /\ truth'[r][j] <= map'[r][j] + offset'[r] + dropped'[r].offset
      BY DEF BoundsBracketTruth, LowerBound, UpperBound
    <2>1. \A q \in Sketch : /\ map[q][j] <= truth[q][j]
                           /\ truth[q][j] <= map[q][j] + offset[q] + dropped[q].offset
      BY <1>1 DEF IInv, BoundsBracketTruth, LowerBound, UpperBound, Settled
    <2>2. \A q \in Sketch : /\ map[q][j] \in Nat /\ truth[q][j] \in Nat
                           /\ offset[q] \in Nat /\ dropped[q].offset \in Nat
      BY DEF IInv, TypeOK, DroppedType
    <2>3. CASE r # s
      BY <1>1, <2>1, <2>3 DEF IInv, TypeOK, Fresh
    <2>4. CASE r = s
      <3>1. map[o][j] = 0
        BY <1>1, <2>2 DEF Active
      <3>2. /\ map'[s][j] = 0 /\ offset'[s] = 0 /\ truth'[s][j] = truth[o][j]
            /\ dropped'[s].offset = dropped[o].offset + offset[o]
        BY <1>1 DEF IInv, TypeOK, Fresh, Zero, DroppedWith
      <3> QED BY <2>1, <2>2, <2>4, <3>1, <3>2
    <2> QED BY <2>3, <2>4
  <1> QED BY <1>2, <1>3, <1>4, <1>5 DEF IInv

LEMMA RestoreBeginIInv ==
  ASSUME IInv, NEW s \in Sketch, NEW o \in Sketch, RestoreBegin(s, o)
  PROVE  IInv'
  <1>1. /\ call = Idle /\ s # o /\ UNCHANGED <<truth, dropped>>
        /\ Fresh(s, max_size[o])
        /\ call' = [op |-> "restore", to |-> s, from |-> o, rest |-> Active(map[o]),
                    total |-> total_weight[o]]
    BY DEF RestoreBegin
  <1>2. Active(map[o]) \in SUBSET Item /\ map'[o] = map[o]
    BY <1>1 DEF Active, IInv, TypeOK, Fresh
  <1>3. TypeOK'
    <2>1. call' \in Calls
      BY <1>1, <1>2 DEF IInv, TypeOK, Calls
    <2> QED BY <1>1, <2>1 DEF IInv, TypeOK, Fresh, Zero
  <1>4. CapacityInv'
    BY <1>1, FreshCapacity
  <1>5. ReplayInv' /\ MergeInv'
    BY <1>1, <1>2 DEF ReplayInv, MergeInv
  <1>6. RestoreInv'
    <2>1. max_size'[s] = max_size[o] /\ max_size'[o] = max_size[o]
      BY <1>1 DEF IInv, TypeOK, Fresh
    <2>2. ASSUME NEW j \in Item PROVE map'[s][j] = Sent(j)'
      <3>1. map[o][j] \in Nat /\ map'[s][j] = 0
        BY <1>1 DEF IInv, TypeOK, Fresh, Zero
      <3> QED BY <1>1, <1>2, <3>1 DEF Sent, Active
    <2> QED BY <1>1, <2>1, <2>2 DEF RestoreInv
  <1>7. BoundsBracketTruth'
    <2> SUFFICES ASSUME NEW r \in Sketch \ {s}, NEW j \in Item
                 PROVE  /\ map'[r][j] <= truth[r][j]
                        /\ truth[r][j] <= map'[r][j] + offset'[r] + dropped[r].offset
      BY <1>1 DEF BoundsBracketTruth, LowerBound, UpperBound, Settled, Idle
    <2>1. map'[r] = map[r] /\ offset'[r] = offset[r]
      BY <1>1 DEF IInv, TypeOK, Fresh
    <2> QED BY <1>1, <2>1 DEF IInv, BoundsBracketTruth, LowerBound, UpperBound, Settled
  <1> QED BY <1>3, <1>4, <1>5, <1>6, <1>7 DEF IInv

LEMMA ReplayIInv ==
  ASSUME IInv, NEW i \in Item, Replay(i)
  PROVE  IInv'
  <1> DEFINE s == call.to
             o == call.from
             w == map[o][i]
  <1>1. /\ call \in Calls /\ call # Idle /\ i \in call.rest /\ Feed(s, i, w)
        /\ call' = [call EXCEPT !.rest = @ \ {i}]
        /\ UNCHANGED <<max_size, truth, dropped>>
    BY DEF Replay, IInv, TypeOK
  <1>2. /\ s \in Sketch /\ o \in Sketch /\ s # o /\ call.rest \subseteq Active(map[o])
        /\ call.op \in {"merge", "restore"} /\ call.rest \in SUBSET Item
        /\ call.total \in Nat
    BY <1>1, CallFields DEF IInv, ReplayInv
  <1>3. w \in Nat
    BY <1>2 DEF IInv, TypeOK
  <1>4. /\ map' \in [Sketch -> Counter]
        /\ offset' \in [Sketch -> Nat]
        /\ total_weight' \in [Sketch -> Nat]
        /\ \A r \in Sketch \ {s} : map'[r] = map[r] /\ offset'[r] = offset[r]
        /\ Cardinality(Active(map'[s])) <= Capacity(max_size[s])
        /\ \E m \in PurgeAmounts(map[s], i, w, max_size[s]) :
             /\ m \in Nat
             /\ offset'[s] = offset[s] + m
             /\ map'[s] = Subtract(Adjust(map[s], i, w), m)
        /\ \A j \in Item :
             LET fed == map[s][j] + (IF j = i THEN w ELSE 0) IN
             map'[s][j] <= fed /\ fed + offset[s] <= map'[s][j] + offset'[s]
    BY <1>1, <1>2, <1>3, FeedStep DEF IInv
  <1>5. /\ call' \in Calls /\ call' # Idle /\ call'.op = call.op /\ call'.to = s
        /\ call'.from = o /\ call'.rest = call.rest \ {i}
    BY <1>1, <1>2 DEF Calls, Idle
  <1>6. TypeOK'
    <2>1. map' \in [Sketch -> [Item -> Nat]]
      BY <1>4 DEF Counter
    <2> QED BY <1>1, <1>4, <1>5, <2>1 DEF IInv, TypeOK
  <1>7. CapacityInv'
    BY <1>1, <1>4 DEF IInv, CapacityInv
  <1>8. map'[o] = map[o]
    BY <1>2, <1>4
  <1>9. ReplayInv'
    BY <1>2, <1>5, <1>8 DEF ReplayInv
  <1>10. \A j \in Item : Sent(j)' = Sent(j) + (IF j = i THEN w ELSE 0)
    <2> SUFFICES ASSUME NEW j \in Item
                 PROVE  Sent(j)' = Sent(j) + (IF j = i THEN w ELSE 0)
      OBVIOUS
    <2>1. map[o][j] \in Nat
      BY <1>2 DEF IInv, TypeOK
    <2> QED BY <1>1, <1>5, <1>8, <2>1 DEF Sent
  <1>11. MergeInv'
    <2> SUFFICES ASSUME call.op = "merge", NEW j \in Item
                 PROVE  /\ map'[s][j] <= truth[s][j] + Sent(j)'
                        /\ truth[s][j] + Sent(j)'
                             <= map'[s][j] + offset'[s] + dropped[s].offset
      BY <1>1, <1>5 DEF MergeInv
    <2>1. /\ map[s][j] <= truth[s][j] + Sent(j)
          /\ truth[s][j] + Sent(j) <= map[s][j] + offset[s] + dropped[s].offset
      BY <1>1 DEF IInv, MergeInv
    <2>2. /\ map[s][j] \in Nat /\ truth[s][j] \in Nat /\ offset[s] \in Nat
          /\ dropped[s].offset \in Nat /\ Sent(j) \in Nat
      BY <1>2 DEF IInv, TypeOK, DroppedType, Sent
    <2>3. map'[s][j] \in Nat /\ offset'[s] \in Nat
      BY <1>2, <1>4 DEF Counter
    <2> DEFINE fed == IF j = i THEN w ELSE 0
    <2>4. fed \in Nat /\ Sent(j)' = Sent(j) + fed
      BY <1>3, <1>10
    <2>5. /\ map'[s][j] <= map[s][j] + fed
          /\ map[s][j] + fed + offset[s] <= map'[s][j] + offset'[s]
      BY <1>4
    <2> HIDE DEF fed, s, w
    <2> QED BY <2>1, <2>2, <2>3, <2>4, <2>5
  <1>12. RestoreInv'
    <2> SUFFICES ASSUME call.op = "restore"
                 PROVE  /\ max_size[s] = max_size[o]
                        /\ \A j \in Item : map'[s][j] = Sent(j)'
      BY <1>1, <1>5 DEF RestoreInv
    <2>1. max_size[s] = max_size[o] /\ \A j \in Item : map[s][j] = Sent(j)
      BY <1>1 DEF IInv, RestoreInv
    <2>2. map[s] \in Counter /\ map[o] \in Counter
      BY <1>2 DEF IInv, TypeOK, Counter
    <2>3. PICK m \in PurgeAmounts(map[s], i, w, max_size[s]) :
            map'[s] = Subtract(Adjust(map[s], i, w), m)
      BY <1>4
    <2>4. i \in Active(map[o]) /\ max_size[s] \in MapSizes
      BY <1>1, <1>2 DEF IInv, TypeOK
    <2>5. \A j \in Active(map[s]) : j \in Active(map[o])
      BY <2>1 DEF Active, Sent
    <2>6. Cardinality(Active(map[o])) <= Capacity(max_size[s])
      BY <1>2, <2>1 DEF IInv, CapacityInv
    <2>7. m = 0
      BY <2>2, <2>3, <2>4, <2>5, <2>6, ReplayNeverPurges
    <2>8. ASSUME NEW j \in Item PROVE map'[s][j] = Sent(j)'
      <3>1. map'[s][j] = map[s][j] + (IF j = i THEN w ELSE 0)
        BY <1>3, <2>2, <2>3, <2>7 DEF Subtract, Adjust, Counter
      <3> QED BY <1>10, <2>1, <3>1
    <2> QED BY <2>1, <2>8
  <1>13. BoundsBracketTruth'
    <2> SUFFICES ASSUME NEW r \in Sketch \ {s}, NEW j \in Item
                 PROVE  /\ map'[r][j] <= truth[r][j]
                        /\ truth[r][j] <= map'[r][j] + offset'[r] + dropped[r].offset
      BY <1>1, <1>5 DEF BoundsBracketTruth, LowerBound, UpperBound, Settled
    <2>1. map'[r] = map[r] /\ offset'[r] = offset[r]
      BY <1>4
    <2> QED BY <1>1, <2>1 DEF IInv, BoundsBracketTruth, LowerBound, UpperBound, Settled
  <1> QED BY <1>6, <1>7, <1>9, <1>11, <1>12, <1>13 DEF IInv

\* The offset and the weight that end a merge are those of both sketches, so the
\* receiver brackets the sum of the two truths.
LEMMA MergeEndIInv ==
  ASSUME IInv, MergeEnd
  PROVE  IInv'
  <1> DEFINE s == call.to
             o == call.from
  <1>1. /\ call # Idle /\ call.op = "merge" /\ call.rest = {} /\ call' = Idle
        /\ offset' = [offset EXCEPT ![s] = @ + offset[o]]
        /\ total_weight' = [total_weight EXCEPT ![s] = call.total]
        /\ truth' = [truth EXCEPT ![s] = AddTruth(@, truth[o])]
        /\ dropped' = [dropped EXCEPT ![s] = AddDropped(@, dropped[o])]
        /\ UNCHANGED <<max_size, map>>
    BY DEF MergeEnd
  <1>2. s \in Sketch /\ o \in Sketch /\ s # o /\ call.total \in Nat
    BY <1>1, CallFields DEF IInv, ReplayInv, TypeOK
  <1>3. TypeOK'
    <2>1. truth' \in [Sketch -> [Item -> Nat]]
      BY <1>1, <1>2 DEF IInv, TypeOK, AddTruth
    <2>2. dropped' \in [Sketch -> DroppedType]
      BY <1>1, <1>2 DEF IInv, TypeOK, AddDropped, DroppedType
    <2>3. offset' \in [Sketch -> Nat] /\ total_weight' \in [Sketch -> Nat]
      BY <1>1, <1>2 DEF IInv, TypeOK
    <2> QED BY <1>1, <2>1, <2>2, <2>3 DEF IInv, TypeOK, Calls
  <1>4. CapacityInv' /\ ReplayInv' /\ MergeInv' /\ RestoreInv'
    BY <1>1 DEF IInv, CapacityInv, ReplayInv, MergeInv, RestoreInv
  <1>5. BoundsBracketTruth'
    <2> SUFFICES ASSUME NEW r \in Sketch, NEW j \in Item
                 PROVE  /\ map[r][j] <= truth'[r][j]
                        /\ truth'[r][j] <= map[r][j] + offset'[r] + dropped'[r].offset
      BY <1>1 DEF BoundsBracketTruth, LowerBound, UpperBound
    <2>1. \A q \in Sketch \ {s} :
            /\ map[q][j] <= truth[q][j]
            /\ truth[q][j] <= map[q][j] + offset[q] + dropped[q].offset
      BY DEF IInv, BoundsBracketTruth, LowerBound, UpperBound, Settled
    <2>2. \A q \in Sketch : /\ map[q][j] \in Nat /\ truth[q][j] \in Nat
                           /\ offset[q] \in Nat /\ dropped[q].offset \in Nat
      BY DEF IInv, TypeOK, DroppedType
    <2>3. CASE r # s
      BY <1>1, <2>1, <2>3 DEF IInv, TypeOK
    <2>4. CASE r = s
      <3>1. Sent(j) = map[o][j]
        BY <1>1 DEF Sent
      <3>2. /\ map[s][j] <= truth[s][j] + map[o][j]
            /\ truth[s][j] + map[o][j] <= map[s][j] + offset[s] + dropped[s].offset
        BY <1>1, <3>1 DEF IInv, MergeInv
      <3>3. /\ truth'[s][j] = truth[s][j] + truth[o][j]
            /\ offset'[s] = offset[s] + offset[o]
            /\ dropped'[s].offset = dropped[s].offset + dropped[o].offset
        BY <1>1, <1>2 DEF IInv, TypeOK, AddTruth, AddDropped
      <3> QED BY <1>2, <2>1, <2>2, <2>4, <3>2, <3>3
    <2> QED BY <2>3, <2>4
  <1> QED BY <1>3, <1>4, <1>5 DEF IInv

LEMMA RestoreEndIInv ==
  ASSUME IInv, RestoreEnd
  PROVE  IInv'
  <1> DEFINE s == call.to
             o == call.from
  <1>1. /\ call # Idle /\ call.op = "restore" /\ call.rest = {} /\ call' = Idle
        /\ offset' = [offset EXCEPT ![s] = offset[o]]
        /\ total_weight' = [total_weight EXCEPT ![s] = call.total]
        /\ truth' = [truth EXCEPT ![s] = truth[o]]
        /\ dropped' = [dropped EXCEPT ![s] = dropped[o]]
        /\ UNCHANGED <<max_size, map>>
    BY DEF RestoreEnd
  <1>2. s \in Sketch /\ o \in Sketch /\ s # o /\ call.total \in Nat
    BY <1>1, CallFields DEF IInv, ReplayInv, TypeOK
  <1>3. TypeOK'
    BY <1>1, <1>2 DEF IInv, TypeOK, Calls
  <1>4. CapacityInv' /\ ReplayInv' /\ MergeInv' /\ RestoreInv'
    BY <1>1 DEF IInv, CapacityInv, ReplayInv, MergeInv, RestoreInv
  <1>5. BoundsBracketTruth'
    <2> SUFFICES ASSUME NEW r \in Sketch, NEW j \in Item
                 PROVE  /\ map[r][j] <= truth'[r][j]
                        /\ truth'[r][j] <= map[r][j] + offset'[r] + dropped'[r].offset
      BY <1>1 DEF BoundsBracketTruth, LowerBound, UpperBound
    <2>1. \A q \in Sketch \ {s} :
            /\ map[q][j] <= truth[q][j]
            /\ truth[q][j] <= map[q][j] + offset[q] + dropped[q].offset
      BY DEF IInv, BoundsBracketTruth, LowerBound, UpperBound, Settled
    <2>2. CASE r # s
      BY <1>1, <2>1, <2>2 DEF IInv, TypeOK
    <2>3. CASE r = s
      <3>1. map[s][j] = map[o][j]
        BY <1>1 DEF IInv, RestoreInv, Sent
      <3>2. truth'[s] = truth[o] /\ offset'[s] = offset[o] /\ dropped'[s] = dropped[o]
        BY <1>1, <1>2 DEF IInv, TypeOK
      <3> QED BY <1>2, <2>1, <2>3, <3>1, <3>2
    <2> QED BY <2>2, <2>3
  <1> QED BY <1>3, <1>4, <1>5 DEF IInv

LEMMA NextIInv == IInv /\ [Next]_vars => IInv'
  <1> SUFFICES ASSUME IInv, [Next]_vars PROVE IInv'
    OBVIOUS
  <1>1. CASE \E s \in Sketch, i \in Item, w \in 1..MaxWeight : Update(s, i, w)
    BY <1>1, UpdateIInv
  <1>2. ASSUME NEW s \in Sketch, NEW o \in Sketch,
               MergeEmpty(s, o) \/ MergeBegin(s, o) \/ RestoreEmpty(s, o) \/ RestoreBegin(s, o)
        PROVE  IInv'
    BY <1>2, MergeEmptyIInv, MergeBeginIInv, RestoreEmptyIInv, RestoreBeginIInv
  <1>3. CASE \E i \in Item : Replay(i)
    BY <1>3, ReplayIInv
  <1>4. CASE MergeEnd
    BY <1>4, MergeEndIInv
  <1>5. CASE RestoreEnd
    BY <1>5, RestoreEndIInv
  <1>6. CASE UNCHANGED vars
    <2>1. /\ UNCHANGED <<max_size, map, offset, total_weight, call, truth, dropped>>
      BY <1>6 DEF vars
    <2>2. TypeOK'
      BY <2>1 DEF IInv, TypeOK
    <2>3. CapacityInv' /\ ReplayInv'
      BY <2>1 DEF IInv, CapacityInv, ReplayInv
    <2>4. MergeInv' /\ RestoreInv'
      BY <2>1 DEF IInv, MergeInv, RestoreInv, Sent
    <2>5. BoundsBracketTruth'
      BY <2>1 DEF IInv, BoundsBracketTruth, LowerBound, UpperBound, Settled
    <2> QED BY <2>2, <2>3, <2>4, <2>5 DEF IInv
  <1> QED BY <1>1, <1>2, <1>3, <1>4, <1>5, <1>6 DEF Next

----------------------------------------------------------------------------
(* The inductive invariant of the weights, on top of IInv *)

SentMap == [i \in Item |-> Sent(i)]

\* The weight a replay will end with, and in a merge what the receiver has
\* absorbed of it so far.
ReplayWeightInv ==
  call # Idle =>
    \/ /\ call.op = "merge"
       /\ call.total + dropped[call.to].weight
            = Sum(truth[call.to]) + total_weight[call.from]
       /\ total_weight[call.to] + total_weight[call.from]
            = call.total + Sum(SentMap)
    \/ /\ call.op = "restore"
       /\ call.total = total_weight[call.from]

\* Every sketch, also one that a replay is filling, has paid for its offset.
ErrorInv ==
  \A s \in Sketch, size \in MapSizes :
    (\A other \in MapSizes : size <= other) =>
      offset[s] * Share(size) + Sum(map[s]) <= total_weight[s]

WeightInv == TotalWeightExact /\ ReplayWeightInv /\ ErrorInv

LEMMA SumZeroMap == Sum(Zero) = 0
  BY ItemAssumption, SumIsSumOver, SumZero DEF Zero

LEMMA SumAddTruth ==
  ASSUME NEW f \in Counter, NEW g \in Counter
  PROVE  Sum(AddTruth(f, g)) = Sum(f) + Sum(g)
  <1> DEFINE h == AddTruth(f, g)
  <1>1. \A i \in Item : f[i] \in Int /\ g[i] \in Int /\ h[i] = f[i] + g[i]
    BY DEF Counter, AddTruth
  <1> HIDE DEF h
  <1>2. SumOver(h, Item) = SumOver(f, Item) + SumOver(g, Item)
    BY <1>1, ItemAssumption, SumAdd
  <1> QED BY <1>2, SumIsSumOver DEF h

LEMMA SumOneMore ==
  ASSUME NEW f \in Counter, NEW g \in Counter, NEW i \in Item, NEW w \in Nat,
         \A j \in Item : g[j] = f[j] + (IF j = i THEN w ELSE 0)
  PROVE  Sum(g) = Sum(f) + w
  <1>1. \A j \in Item : f[j] \in Int /\ g[j] \in Int /\ (j # i => g[j] = f[j])
    BY DEF Counter
  <1>2. SumOver(g, Item) = SumOver(f, Item) + (g[i] - f[i])
    BY <1>1, ItemAssumption, SumChange
  <1>3. g[i] - f[i] = w
    BY DEF Counter
  <1> QED BY <1>2, <1>3, SumIsSumOver

\* Feeding a sketch adds the weight that was fed and keeps its offset paid for.
LEMMA FeedError ==
  ASSUME TypeOK, ErrorInv, NEW s \in Sketch, NEW i \in Item, NEW w \in Nat,
         Feed(s, i, w)
  PROVE  /\ ErrorInv'
         /\ total_weight'[s] = total_weight[s] + w
         /\ \A r \in Sketch \ {s} : /\ total_weight'[r] = total_weight[r]
                                    /\ offset'[r] = offset[r] /\ map'[r] = map[r]
  <1>1. PICK m \in PurgeAmounts(map[s], i, w, max_size[s]) :
          /\ map' = [map EXCEPT ![s] = Subtract(Adjust(map[s], i, w), m)]
          /\ offset' = [offset EXCEPT ![s] = @ + m]
          /\ total_weight' = [total_weight EXCEPT ![s] = @ + w]
    BY DEF Feed
  <1>2. /\ map \in [Sketch -> Counter] /\ map[s] \in Counter /\ max_size[s] \in MapSizes
        /\ offset[s] \in Nat /\ total_weight[s] \in Nat
    BY DEF TypeOK, Counter
  <1>3. /\ m \in Nat
        /\ Subtract(Adjust(map[s], i, w), m) \in Counter
    <2>1. m \in Nat
      BY <1>2, PurgeAmount
    <2> QED BY <1>2, <2>1, FeedType
  <1>4. /\ map'[s] = Subtract(Adjust(map[s], i, w), m)
        /\ offset'[s] = offset[s] + m
        /\ total_weight'[s] = total_weight[s] + w
        /\ \A r \in Sketch \ {s} : /\ total_weight'[r] = total_weight[r]
                                   /\ offset'[r] = offset[r] /\ map'[r] = map[r]
    BY <1>1 DEF TypeOK
  <1>5. ASSUME NEW r \in Sketch, NEW size \in MapSizes,
               \A other \in MapSizes : size <= other
        PROVE  offset'[r] * Share(size) + Sum(map'[r]) <= total_weight'[r]
    <2>1. CASE r # s
      BY <1>4, <1>5, <2>1 DEF ErrorInv
    <2>2. CASE r = s
      <3> DEFINE K == Share(size)
                 h == Sum(map'[s])
      <3>1. h + m * K <= Sum(map[s]) + w
        BY <1>2, <1>4, <1>5, FeedSum
      <3>2. offset[s] * K + Sum(map[s]) <= total_weight[s]
        BY <1>5 DEF ErrorInv
      <3>3. K \in Nat /\ h \in Nat /\ Sum(map[s]) \in Nat
        BY <1>2, <1>3, <1>4, <1>5, ShareMonotone, SumCounter, SizeAssumption
      <3>4. \A a, b, c \in Nat : /\ (a + b) * c = a * c + b * c
                                 /\ a * c \in Nat
        OBVIOUS
      <3> HIDE DEF K, h
      <3>5. (offset[s] + m) * K + h <= total_weight[s] + w
        BY <1>2, <1>3, <3>1, <3>2, <3>3, <3>4
      <3> QED BY <1>4, <2>2, <3>5 DEF K, h
    <2> QED BY <2>1, <2>2
  <1> QED BY <1>4, <1>5 DEF ErrorInv

LEMMA InitWeight == Init => WeightInv
  <1> SUFFICES ASSUME Init PROVE WeightInv
    OBVIOUS
  <1>1. TotalWeightExact
    BY SumZeroMap DEF Init, TotalWeightExact, NothingDropped
  <1>2. ReplayWeightInv
    BY DEF Init, ReplayWeightInv
  <1>3. ErrorInv
    <2>1. \A size \in MapSizes : 0 * Share(size) = 0
      BY ShareMonotone, SizeAssumption
    <2> QED BY <2>1, SumZeroMap DEF Init, ErrorInv
  <1> QED BY <1>1, <1>2, <1>3 DEF WeightInv

LEMMA UpdateWeight ==
  ASSUME IInv, WeightInv, NEW s \in Sketch, NEW i \in Item, NEW w \in 1..MaxWeight,
         Update(s, i, w)
  PROVE  WeightInv'
  <1>1. /\ w \in Nat /\ call = Idle /\ call' = Idle /\ Feed(s, i, w) /\ dropped' = dropped
        /\ truth' = [truth EXCEPT ![s][i] = @ + w]
    BY BoundAssumption DEF Update
  <1>2. TypeOK /\ ErrorInv
    BY DEF IInv, WeightInv
  <1>3. /\ ErrorInv'
        /\ total_weight'[s] = total_weight[s] + w
        /\ \A r \in Sketch \ {s} : total_weight'[r] = total_weight[r]
    BY <1>1, <1>2, FeedError
  <1>4. ReplayWeightInv'
    BY <1>1 DEF ReplayWeightInv
  <1>5. ASSUME NEW r \in Sketch
        PROVE  total_weight'[r] + dropped'[r].weight = Sum(truth'[r])
    <2>1. total_weight[r] + dropped[r].weight = Sum(truth[r])
      BY <1>1 DEF WeightInv, TotalWeightExact, Settled
    <2>2. CASE r # s
      BY <1>1, <1>2, <1>3, <2>1, <2>2 DEF TypeOK
    <2>3. CASE r = s
      <3>1. truth[s] \in Counter /\ truth'[s] \in Counter
        BY <1>1, <1>2 DEF TypeOK, Counter
      <3>2. \A j \in Item : truth'[s][j] = truth[s][j] + (IF j = i THEN w ELSE 0)
        BY <1>1, <1>2 DEF TypeOK
      <3>3. Sum(truth'[s]) = Sum(truth[s]) + w
        BY <1>1, <3>1, <3>2, SumOneMore
      <3>4. total_weight[s] \in Nat /\ dropped[s].weight \in Nat
        BY <1>2 DEF TypeOK, DroppedType
      <3> QED BY <1>1, <1>3, <2>1, <2>3, <3>3, <3>4
    <2> QED BY <2>2, <2>3
  <1>6. TotalWeightExact'
    BY <1>5 DEF TotalWeightExact
  <1> QED BY <1>3, <1>4, <1>6 DEF WeightInv

LEMMA MergeEmptyWeight ==
  ASSUME IInv, WeightInv, NEW s \in Sketch, NEW o \in Sketch, MergeEmpty(s, o)
  PROVE  WeightInv'
  <1>1. /\ call = Idle /\ s # o
        /\ UNCHANGED <<max_size, map, offset, total_weight, call>>
        /\ truth' = [truth EXCEPT ![s] = AddTruth(@, truth[o])]
        /\ dropped' = [dropped EXCEPT ![s] = AddDropped(@, DroppedWith(o))]
    BY DEF MergeEmpty
  <1>2. ErrorInv' /\ ReplayWeightInv'
    BY <1>1 DEF WeightInv, ErrorInv, ReplayWeightInv
  <1>3. ASSUME NEW r \in Sketch
        PROVE  total_weight[r] + dropped'[r].weight = Sum(truth'[r])
    <2>1. \A q \in Sketch : total_weight[q] + dropped[q].weight = Sum(truth[q])
      BY <1>1 DEF WeightInv, TotalWeightExact, Settled
    <2>2. CASE r # s
      BY <1>1, <2>1, <2>2 DEF IInv, TypeOK
    <2>3. CASE r = s
      <3>1. truth[s] \in Counter /\ truth[o] \in Counter
        BY DEF IInv, TypeOK, Counter
      <3>2. Sum(truth'[s]) = Sum(truth[s]) + Sum(truth[o])
        BY <1>1, <3>1, SumAddTruth DEF IInv, TypeOK
      <3>3. dropped'[s].weight = dropped[s].weight + (dropped[o].weight + total_weight[o])
        BY <1>1 DEF IInv, TypeOK, AddDropped, DroppedWith
      <3>4. \A q \in Sketch : total_weight[q] \in Nat /\ dropped[q].weight \in Nat
        BY DEF IInv, TypeOK, DroppedType
      <3> QED BY <2>1, <2>3, <3>2, <3>3, <3>4
    <2> QED BY <2>2, <2>3
  <1>4. TotalWeightExact'
    BY <1>1, <1>3 DEF TotalWeightExact
  <1> QED BY <1>2, <1>4 DEF WeightInv

\* Before a replay has fed anything, what it sent is nothing.
LEMMA NothingSent ==
  ASSUME NEW o \in Sketch, map' \in [Sketch -> Counter],
         call'.from = o, call'.rest = Active(map'[o])
  PROVE  Sum(SentMap)' = 0
  <1>1. \A j \in Item : Sent(j)' = 0
    BY DEF Sent, Active, Counter
  <1>2. SentMap' = Zero
    BY <1>1 DEF SentMap, Zero
  <1> QED BY <1>2, SumZeroMap

LEMMA MergeBeginWeight ==
  ASSUME IInv, WeightInv, NEW s \in Sketch, NEW o \in Sketch, MergeBegin(s, o)
  PROVE  WeightInv'
  <1>1. /\ call = Idle /\ s # o
        /\ UNCHANGED <<max_size, map, offset, total_weight, truth, dropped>>
        /\ call' = [op |-> "merge", to |-> s, from |-> o, rest |-> Active(map[o]),
                    total |-> total_weight[s] + total_weight[o]]
    BY DEF MergeBegin
  <1>2. ErrorInv'
    BY <1>1 DEF WeightInv, ErrorInv
  <1>3. TotalWeightExact'
    BY <1>1 DEF WeightInv, TotalWeightExact, Settled
  <1>4. ReplayWeightInv'
    <2>1. Sum(SentMap)' = 0
      BY <1>1, NothingSent DEF IInv, TypeOK, Counter
    <2>2. total_weight[s] + dropped[s].weight = Sum(truth[s])
      BY <1>1 DEF WeightInv, TotalWeightExact, Settled
    <2>3. total_weight[s] \in Nat /\ total_weight[o] \in Nat /\ dropped[s].weight \in Nat
      BY DEF IInv, TypeOK, DroppedType
    <2>4. /\ (total_weight[s] + total_weight[o]) + dropped[s].weight
               = Sum(truth[s]) + total_weight[o]
          /\ total_weight[s] + total_weight[o]
               = (total_weight[s] + total_weight[o]) + 0
      BY <2>2, <2>3
    <2> QED BY <1>1, <2>1, <2>4 DEF ReplayWeightInv
  <1> QED BY <1>2, <1>3, <1>4 DEF WeightInv

\* A fresh sketch has no offset, no counters and no weight.
LEMMA FreshError ==
  ASSUME IInv, ErrorInv, NEW s \in Sketch, NEW o \in Sketch, Fresh(s, max_size[o])
  PROVE  ErrorInv'
  <1>1. /\ map' = [map EXCEPT ![s] = Zero]
        /\ offset' = [offset EXCEPT ![s] = 0]
        /\ total_weight' = [total_weight EXCEPT ![s] = 0]
    BY DEF Fresh
  <1>2. ASSUME NEW r \in Sketch, NEW size \in MapSizes,
               \A other \in MapSizes : size <= other
        PROVE  offset'[r] * Share(size) + Sum(map'[r]) <= total_weight'[r]
    <2>1. CASE r # s
      BY <1>1, <1>2, <2>1 DEF ErrorInv, IInv, TypeOK
    <2>2. CASE r = s
      <3>1. 0 * Share(size) = 0
        BY ShareMonotone, SizeAssumption
      <3> QED BY <1>1, <2>2, <3>1, SumZeroMap DEF IInv, TypeOK
    <2> QED BY <2>1, <2>2
  <1> QED BY <1>2 DEF ErrorInv

LEMMA RestoreEmptyWeight ==
  ASSUME IInv, WeightInv, NEW s \in Sketch, NEW o \in Sketch, RestoreEmpty(s, o)
  PROVE  WeightInv'
  <1>1. /\ call = Idle /\ s # o /\ call' = call
        /\ Fresh(s, max_size[o])
        /\ truth' = [truth EXCEPT ![s] = truth[o]]
        /\ dropped' = [dropped EXCEPT ![s] = DroppedWith(o)]
    BY DEF RestoreEmpty
  <1>2. ErrorInv'
    BY <1>1, FreshError DEF WeightInv
  <1>3. ReplayWeightInv'
    BY <1>1 DEF ReplayWeightInv
  <1>4. ASSUME NEW r \in Sketch
        PROVE  total_weight'[r] + dropped'[r].weight = Sum(truth'[r])
    <2>1. \A q \in Sketch : /\ total_weight[q] + dropped[q].weight = Sum(truth[q])
                            /\ total_weight[q] \in Nat /\ dropped[q].weight \in Nat
      BY <1>1 DEF WeightInv, TotalWeightExact, Settled, IInv, TypeOK, DroppedType
    <2>2. CASE r # s
      BY <1>1, <2>1, <2>2 DEF IInv, TypeOK, Fresh
    <2>3. CASE r = s
      <3>1. /\ total_weight'[s] = 0 /\ truth'[s] = truth[o]
            /\ dropped'[s].weight = dropped[o].weight + total_weight[o]
        BY <1>1 DEF IInv, TypeOK, Fresh, DroppedWith
      <3> QED BY <2>1, <2>3, <3>1
    <2> QED BY <2>2, <2>3
  <1>5. TotalWeightExact'
    BY <1>4 DEF TotalWeightExact
  <1> QED BY <1>2, <1>3, <1>5 DEF WeightInv

LEMMA RestoreBeginWeight ==
  ASSUME IInv, WeightInv, NEW s \in Sketch, NEW o \in Sketch, RestoreBegin(s, o)
  PROVE  WeightInv'
  <1>1. /\ call = Idle /\ s # o /\ UNCHANGED <<truth, dropped>>
        /\ Fresh(s, max_size[o])
        /\ call' = [op |-> "restore", to |-> s, from |-> o, rest |-> Active(map[o]),
                    total |-> total_weight[o]]
    BY DEF RestoreBegin
  <1>2. ErrorInv'
    BY <1>1, FreshError DEF WeightInv
  <1>3. \A r \in Sketch \ {s} : total_weight'[r] = total_weight[r]
    BY <1>1 DEF IInv, TypeOK, Fresh
  <1>4. ReplayWeightInv'
    BY <1>1, <1>3 DEF ReplayWeightInv
  <1>5. TotalWeightExact'
    <2> SUFFICES ASSUME NEW r \in Sketch \ {s}
                 PROVE  total_weight'[r] + dropped'[r].weight = Sum(truth'[r])
      BY <1>1 DEF TotalWeightExact, Settled, Idle
    <2> QED BY <1>1, <1>3 DEF WeightInv, TotalWeightExact, Settled
  <1> QED BY <1>2, <1>4, <1>5 DEF WeightInv

LEMMA ReplayWeight ==
  ASSUME IInv, WeightInv, NEW i \in Item, Replay(i)
  PROVE  WeightInv'
  <1> DEFINE s == call.to
             o == call.from
             w == map[o][i]
  <1>1. /\ call \in Calls /\ call # Idle /\ i \in call.rest /\ Feed(s, i, w)
        /\ call' = [call EXCEPT !.rest = @ \ {i}]
        /\ UNCHANGED <<max_size, truth, dropped>>
    BY DEF Replay, IInv, TypeOK
  <1>2. /\ s \in Sketch /\ o \in Sketch /\ s # o /\ call.rest \in SUBSET Item
        /\ call.op \in {"merge", "restore"} /\ call.total \in Nat
    BY <1>1, CallFields DEF IInv, ReplayInv
  <1>3. w \in Nat /\ map[o] \in Counter
    BY <1>2 DEF IInv, TypeOK, Counter
  <1>4. TypeOK /\ ErrorInv
    BY DEF IInv, WeightInv
  <1>5. /\ ErrorInv'
        /\ total_weight'[s] = total_weight[s] + w
        /\ \A r \in Sketch \ {s} : total_weight'[r] = total_weight[r] /\ map'[r] = map[r]
    BY <1>1, <1>2, <1>3, <1>4, FeedError
  <1>6. /\ call' # Idle /\ call'.op = call.op /\ call'.to = s /\ call'.from = o
        /\ call'.rest = call.rest \ {i} /\ call'.total = call.total
    BY <1>1, <1>2 DEF Calls, Idle
  <1>7. Sum(SentMap)' = Sum(SentMap) + w
    <2>1. \A j \in Item : map[o][j] \in Nat /\ map'[o][j] = map[o][j]
      BY <1>2, <1>3, <1>5 DEF Counter
    <2>2. \A j \in Item : Sent(j) \in Nat /\ Sent(j)' = Sent(j) + (IF j = i THEN w ELSE 0)
      BY <1>1, <1>6, <2>1 DEF Sent
    <2>3. SentMap \in Counter /\ SentMap' \in Counter
      BY <1>3, <2>2 DEF SentMap, Counter
    <2>4. \A j \in Item : SentMap'[j] = SentMap[j] + (IF j = i THEN w ELSE 0)
      BY <2>2 DEF SentMap
    <2>5. Sum(SentMap') = Sum(SentMap) + w
      BY <1>3, <2>3, <2>4, SumOneMore
    <2> QED BY <2>5
  <1>8. ReplayWeightInv'
    <2>1. CASE call.op = "merge"
      <3>1. /\ call.total + dropped[s].weight = Sum(truth[s]) + total_weight[o]
            /\ total_weight[s] + total_weight[o] = call.total + Sum(SentMap)
        BY <1>1, <2>1 DEF WeightInv, ReplayWeightInv
      <3>2. Sum(SentMap) \in Nat
        <4>1. SentMap \in Counter
          BY <1>3 DEF SentMap, Sent, Counter
        <4> QED BY <4>1, SumCounter
      <3>3. total_weight[s] \in Nat /\ total_weight[o] \in Nat
        BY <1>2 DEF IInv, TypeOK
      <3>4. total_weight'[s] + total_weight'[o] = call.total + (Sum(SentMap) + w)
        <4> HIDE DEF s, o, w
        <4> QED BY <1>2, <1>3, <1>5, <3>1, <3>2, <3>3
      <3>5. /\ call.total + dropped'[s].weight = Sum(truth'[s]) + total_weight'[o]
            /\ total_weight'[s] + total_weight'[o] = call.total + Sum(SentMap)'
        BY <1>1, <1>2, <1>5, <1>7, <3>1, <3>4
      <3> QED BY <1>6, <2>1, <3>5 DEF ReplayWeightInv
    <2>2. CASE call.op = "restore"
      <3>1. call.total = total_weight[o]
        BY <1>1, <2>2 DEF WeightInv, ReplayWeightInv
      <3> QED BY <1>2, <1>5, <1>6, <2>2, <3>1 DEF ReplayWeightInv
    <2> QED BY <1>2, <2>1, <2>2
  <1>9. TotalWeightExact'
    <2> SUFFICES ASSUME NEW r \in Sketch \ {s}
                 PROVE  total_weight'[r] + dropped'[r].weight = Sum(truth'[r])
      BY <1>6 DEF TotalWeightExact, Settled
    <2> QED BY <1>1, <1>5 DEF WeightInv, TotalWeightExact, Settled
  <1> QED BY <1>5, <1>8, <1>9 DEF WeightInv

\* Both sketches' weights and both offsets: what they have paid adds up.
LEMMA MergeEndWeight ==
  ASSUME IInv, WeightInv, MergeEnd
  PROVE  WeightInv'
  <1> DEFINE s == call.to
             o == call.from
  <1>1. /\ call # Idle /\ call.op = "merge" /\ call.rest = {} /\ call' = Idle
        /\ offset' = [offset EXCEPT ![s] = @ + offset[o]]
        /\ total_weight' = [total_weight EXCEPT ![s] = call.total]
        /\ truth' = [truth EXCEPT ![s] = AddTruth(@, truth[o])]
        /\ dropped' = [dropped EXCEPT ![s] = AddDropped(@, dropped[o])]
        /\ UNCHANGED <<max_size, map>>
    BY DEF MergeEnd
  <1>2. s \in Sketch /\ o \in Sketch /\ s # o /\ call.total \in Nat
    BY <1>1, CallFields DEF IInv, ReplayInv, TypeOK
  <1>3. /\ call.total + dropped[s].weight = Sum(truth[s]) + total_weight[o]
        /\ total_weight[s] + total_weight[o] = call.total + Sum(SentMap)
    BY <1>1 DEF WeightInv, ReplayWeightInv
  <1>4. \A q \in Sketch : /\ total_weight[q] \in Nat /\ dropped[q].weight \in Nat
                          /\ offset[q] \in Nat
                          /\ map[q] \in Counter /\ truth[q] \in Counter
    BY DEF IInv, TypeOK, DroppedType, Counter
  <1>5. Sum(SentMap) = Sum(map[o])
    <2>1. SentMap = map[o]
      BY <1>1, <1>2, <1>4 DEF SentMap, Sent, Counter
    <2> QED BY <2>1
  <1>6. /\ total_weight'[s] = call.total
        /\ offset'[s] = offset[s] + offset[o]
        /\ truth'[s] = AddTruth(truth[s], truth[o])
        /\ dropped'[s].weight = dropped[s].weight + dropped[o].weight
        /\ \A r \in Sketch \ {s} : /\ total_weight'[r] = total_weight[r]
                                   /\ offset'[r] = offset[r] /\ truth'[r] = truth[r]
                                   /\ dropped'[r] = dropped[r]
    BY <1>1, <1>2 DEF IInv, TypeOK, AddDropped
  <1>7. ReplayWeightInv'
    BY <1>1 DEF ReplayWeightInv
  <1>8. ASSUME NEW r \in Sketch
        PROVE  total_weight'[r] + dropped'[r].weight = Sum(truth'[r])
    <2>1. \A q \in Sketch \ {s} : total_weight[q] + dropped[q].weight = Sum(truth[q])
      BY DEF WeightInv, TotalWeightExact, Settled
    <2>2. CASE r # s
      BY <1>6, <2>1, <2>2
    <2>3. CASE r = s
      <3>1. Sum(truth'[s]) = Sum(truth[s]) + Sum(truth[o])
        BY <1>2, <1>4, <1>6, SumAddTruth
      <3>2. Sum(truth[s]) \in Nat /\ Sum(truth[o]) \in Nat
        BY <1>2, <1>4, SumCounter
      <3>3. total_weight[o] + dropped[o].weight = Sum(truth[o])
        BY <1>2, <2>1
      <3> QED BY <1>2, <1>3, <1>4, <1>6, <2>3, <3>1, <3>2, <3>3
    <2> QED BY <2>2, <2>3
  <1>9. TotalWeightExact'
    BY <1>8 DEF TotalWeightExact
  <1>10. ASSUME NEW r \in Sketch, NEW size \in MapSizes,
                \A other \in MapSizes : size <= other
         PROVE  offset'[r] * Share(size) + Sum(map'[r]) <= total_weight'[r]
    <2> DEFINE K == Share(size)
    <2>1. \A q \in Sketch : offset[q] * K + Sum(map[q]) <= total_weight[q]
      BY <1>10 DEF WeightInv, ErrorInv
    <2>2. CASE r # s
      BY <1>1, <1>6, <2>1, <2>2
    <2>3. CASE r = s
      <3>1. K \in Nat
        BY ShareMonotone, SizeAssumption
      <3>2. \A a, b, c \in Nat : (a + b) * c = a * c + b * c /\ a * c \in Nat
        OBVIOUS
      <3>3. Sum(map[s]) \in Nat /\ Sum(map[o]) \in Nat
        BY <1>2, <1>4, SumCounter
      <3> HIDE DEF K
      <3>4. (offset[s] + offset[o]) * K = offset[s] * K + offset[o] * K
        BY <1>2, <1>4, <3>1, <3>2
      <3>5. offset[s] * K \in Nat /\ offset[o] * K \in Nat
        BY <1>2, <1>4, <3>1, <3>2
      <3>6. (offset[s] + offset[o]) * K + Sum(map[s]) <= call.total
        BY <1>2, <1>3, <1>4, <1>5, <2>1, <3>3, <3>4, <3>5
      <3> QED BY <1>1, <1>6, <2>3, <3>6 DEF K
    <2> QED BY <2>2, <2>3
  <1>11. ErrorInv'
    BY <1>10 DEF ErrorInv
  <1> QED BY <1>7, <1>9, <1>11 DEF WeightInv

LEMMA RestoreEndWeight ==
  ASSUME IInv, WeightInv, RestoreEnd
  PROVE  WeightInv'
  <1> DEFINE s == call.to
             o == call.from
  <1>1. /\ call # Idle /\ call.op = "restore" /\ call.rest = {} /\ call' = Idle
        /\ offset' = [offset EXCEPT ![s] = offset[o]]
        /\ total_weight' = [total_weight EXCEPT ![s] = call.total]
        /\ truth' = [truth EXCEPT ![s] = truth[o]]
        /\ dropped' = [dropped EXCEPT ![s] = dropped[o]]
        /\ UNCHANGED <<max_size, map>>
    BY DEF RestoreEnd
  <1>2. s \in Sketch /\ o \in Sketch /\ s # o /\ call.total = total_weight[o]
    BY <1>1, CallFields DEF IInv, ReplayInv, TypeOK, WeightInv, ReplayWeightInv
  <1>3. /\ total_weight'[s] = total_weight[o] /\ offset'[s] = offset[o]
        /\ truth'[s] = truth[o] /\ dropped'[s] = dropped[o]
        /\ \A r \in Sketch \ {s} : /\ total_weight'[r] = total_weight[r]
                                   /\ offset'[r] = offset[r] /\ truth'[r] = truth[r]
                                   /\ dropped'[r] = dropped[r]
    BY <1>1, <1>2 DEF IInv, TypeOK
  <1>4. map'[s] = map[o] /\ \A r \in Sketch \ {s} : map'[r] = map[r]
    <2>1. \A j \in Item : map[s][j] = map[o][j]
      BY <1>1 DEF IInv, RestoreInv, Sent
    <2>2. map[s] \in Counter /\ map[o] \in Counter
      BY <1>2 DEF IInv, TypeOK, Counter
    <2>3. map[s] = map[o]
      BY <2>1, <2>2 DEF Counter
    <2> QED BY <1>1, <2>3
  <1>5. ReplayWeightInv'
    BY <1>1 DEF ReplayWeightInv
  <1>6. TotalWeightExact'
    <2>1. \A q \in Sketch \ {s} : total_weight[q] + dropped[q].weight = Sum(truth[q])
      BY DEF WeightInv, TotalWeightExact, Settled
    <2>2. ASSUME NEW r \in Sketch
          PROVE  total_weight'[r] + dropped'[r].weight = Sum(truth'[r])
      BY <1>2, <1>3, <2>1
    <2> QED BY <2>2 DEF TotalWeightExact
  <1>7. ASSUME NEW r \in Sketch, NEW size \in MapSizes,
               \A other \in MapSizes : size <= other
        PROVE  offset'[r] * Share(size) + Sum(map'[r]) <= total_weight'[r]
    <2>1. \A q \in Sketch : offset[q] * Share(size) + Sum(map[q]) <= total_weight[q]
      BY <1>7 DEF WeightInv, ErrorInv
    <2> QED BY <1>2, <1>3, <1>4, <2>1
  <1> QED BY <1>5, <1>6, <1>7 DEF WeightInv, ErrorInv

LEMMA NextWeight == IInv /\ WeightInv /\ [Next]_vars => WeightInv'
  <1> SUFFICES ASSUME IInv, WeightInv, [Next]_vars PROVE WeightInv'
    OBVIOUS
  <1>1. CASE \E s \in Sketch, i \in Item, w \in 1..MaxWeight : Update(s, i, w)
    BY <1>1, UpdateWeight
  <1>2. ASSUME NEW s \in Sketch, NEW o \in Sketch,
               MergeEmpty(s, o) \/ MergeBegin(s, o) \/ RestoreEmpty(s, o) \/ RestoreBegin(s, o)
        PROVE  WeightInv'
    BY <1>2, MergeEmptyWeight, MergeBeginWeight, RestoreEmptyWeight, RestoreBeginWeight
  <1>3. CASE \E i \in Item : Replay(i)
    BY <1>3, ReplayWeight
  <1>4. CASE MergeEnd
    BY <1>4, MergeEndWeight
  <1>5. CASE RestoreEnd
    BY <1>5, RestoreEndWeight
  <1>6. CASE UNCHANGED vars
    <2>1. UNCHANGED <<max_size, map, offset, total_weight, call, truth, dropped>>
      BY <1>6 DEF vars
    <2>2. TotalWeightExact' /\ ErrorInv'
      BY <2>1 DEF WeightInv, TotalWeightExact, ErrorInv, Settled
    <2>3. SentMap' = SentMap
      BY <2>1 DEF SentMap, Sent
    <2>4. ReplayWeightInv'
      BY <2>1, <2>3 DEF WeightInv, ReplayWeightInv
    <2> QED BY <2>2, <2>4 DEF WeightInv
  <1> QED BY <1>1, <1>2, <1>3, <1>4, <1>5, <1>6 DEF Next

----------------------------------------------------------------------------
(* The theorems *)

\* IInv holds in every reachable state.
THEOREM Invariance == Spec => []IInv
  BY InitIInv, NextIInv, PTL DEF Spec

\* Type correctness of the sketches, their replays and their histories.
THEOREM TypeCorrect == Spec => []TypeOK
  <1>1. IInv => TypeOK
    BY DEF IInv
  <1> QED BY <1>1, Invariance, PTL

\* The lower and upper bounds that lower_bound() and upper_bound() return hold
\* for every stream, every merge tree and every round trip, up to the offset of
\* emptied sketches.
THEOREM BoundsHold == Spec => []BoundsBracketTruth
  <1>1. IInv => BoundsBracketTruth
    BY DEF IInv
  <1> QED BY <1>1, Invariance, PTL

\* The two guarantees of frequent_items() follow from the bounds.
THEOREM FrequentItemsHold == Spec => []FrequentItemsSound
  <1>1. IInv => FrequentItemsSound
    <2> SUFFICES ASSUME IInv, NEW s \in Sketch, Settled(s), NEW t \in 0..MaxWeight,
                        NEW i \in Item
                 PROVE  /\ i \in NoFalsePositives(s, t) => truth[s][i] > t
                        /\ /\ t >= MaximumError(s)
                           /\ truth[s][i] > t + dropped[s].offset
                           => i \in NoFalseNegatives(s, t)
      BY DEF FrequentItemsSound, NoFalsePositives, Active
    <2>1. /\ map[s][i] <= truth[s][i]
          /\ truth[s][i] <= map[s][i] + offset[s] + dropped[s].offset
      BY DEF IInv, BoundsBracketTruth, LowerBound, UpperBound
    <2>2. /\ map[s][i] \in Nat /\ truth[s][i] \in Nat /\ offset[s] \in Nat
          /\ dropped[s].offset \in Nat
      BY DEF IInv, TypeOK, DroppedType
    <2>3. i \in NoFalsePositives(s, t) => truth[s][i] > t
      BY <2>1, <2>2 DEF NoFalsePositives, LowerBound
    <2>4. ASSUME t >= MaximumError(s), truth[s][i] > t + dropped[s].offset
          PROVE  i \in NoFalseNegatives(s, t)
      <3>1. map[s][i] + offset[s] > t /\ map[s][i] > 0
        BY <2>1, <2>2, <2>4 DEF MaximumError
      <3> QED BY <3>1 DEF NoFalseNegatives, UpperBound, Active
    <2> QED BY <2>3, <2>4
  <1> QED BY <1>1, Invariance, PTL

\* A deserialized sketch has the counters, the offset and the size of the one
\* that was serialized.
THEOREM RoundTrip == Spec => RestoreFaithful
  <1>1. ASSUME IInv, RestoreEnd
        PROVE  /\ map'[call.to] = map[call.from]
               /\ offset'[call.to] = offset[call.from]
               /\ max_size'[call.to] = max_size[call.from]
    <2>1. /\ call # Idle /\ call.op = "restore" /\ call.rest = {}
          /\ offset' = [offset EXCEPT ![call.to] = offset[call.from]]
          /\ UNCHANGED <<max_size, map>>
      BY <1>1 DEF RestoreEnd
    <2>2. call.to \in Sketch /\ call.from \in Sketch
      BY <1>1, <2>1, CallFields DEF IInv, TypeOK
    <2>3. map[call.to] \in Counter /\ map[call.from] \in Counter
      BY <1>1, <2>2 DEF IInv, TypeOK, Counter
    <2>4. \A i \in Item : map[call.to][i] = map[call.from][i]
      BY <1>1, <2>1 DEF IInv, RestoreInv, Sent
    <2>5. map[call.to] = map[call.from]
      BY <2>3, <2>4 DEF Counter
    <2>6. max_size[call.to] = max_size[call.from]
      BY <1>1, <2>1 DEF IInv, RestoreInv
    <2> QED BY <1>1, <2>1, <2>2, <2>5, <2>6 DEF IInv, TypeOK
  <1>2. IInv /\ [Next]_vars =>
          [RestoreEnd => /\ map'[call.to] = map[call.from]
                         /\ offset'[call.to] = offset[call.from]
                         /\ max_size'[call.to] = max_size[call.from]]_vars
    BY <1>1
  <1> QED BY <1>2, Invariance, PTL DEF Spec, RestoreFaithful

\* WeightInv holds in every reachable state.
THEOREM WeightInvariance == Spec => []WeightInv
  BY InitWeight, NextWeight, Invariance, PTL DEF Spec

\* get_total_weight() is the weight of the stream, whatever was purged, merged
\* and replayed, up to the weight of emptied sketches.
THEOREM TotalWeightHolds == Spec => []TotalWeightExact
  <1>1. WeightInv => TotalWeightExact
    BY DEF WeightInv
  <1> QED BY <1>1, WeightInvariance, PTL

\* get_maximum_error() is at most the total weight over the number of counters
\* that pay for a purge of the smallest map: the bound behind get_epsilon().
THEOREM ErrorHolds == Spec => []ErrorWithinShare
  <1>1. WeightInv => ErrorWithinShare
    <2>1. PICK size \in MapSizes : \A other \in MapSizes : size <= other
      BY SizeAssumption, LeastNatural
    <2> QED BY <2>1 DEF WeightInv, ErrorInv, ErrorWithinShare
  <1> QED BY <1>1, WeightInvariance, PTL

----------------------------------------------------------------------------
(* Count-min: what its cells promise *)


\* The cells f and the total weight n of a sketch of shape c go with the
\* histories t and m: no cell holds more than everything; the cells of an item
\* are off by the weight of the others at most, and not below it where nothing
\* negative came.
Sound(c, f, n, t, m) ==
  /\ f \in [Slots(c) -> Int] /\ n \in Nat
  /\ t \in [Counted -> Int] /\ m \in [Counted -> Nat]
  /\ EmptyString \in Counted => t[EmptyString] = 0 /\ m[EmptyString] = 0
  /\ \A l \in Slots(c) : f[l] <= n /\ -f[l] <= n
  /\ \A x \in Counted : t[x] <= m[x] /\ -t[x] <= m[x]
  /\ \A x \in Counted, r \in Rows(c) :
       /\ f[Location(c, x, r)] - t[x] <= n - m[x]
       /\ t[x] - f[Location(c, x, r)] <= n - m[x]
  /\ (\A y \in Counted : t[y] = m[y]) =>
       \A x \in Counted, r \in Rows(c) : f[Location(c, x, r)] >= t[x]

CMIInv ==
  /\ config \in [CMSketch -> CMConfig]
  /\ DOMAIN cells = CMSketch
  /\ cm_weight \in [CMSketch -> Nat]
  /\ cm_truth \in [CMSketch -> [Counted -> Int]]
  /\ mass \in [CMSketch -> [Counted -> Nat]]
  /\ \A s \in CMSketch : Sound(config[s], cells[s], cm_weight[s], cm_truth[s], mass[s])

----------------------------------------------------------------------------
(* Cells *)

LEMMA ConfigType ==
  ASSUME CountMinAssumption, NEW c \in CMConfig
  PROVE  /\ c.num_hashes \in Nat \ {0} /\ c.num_buckets \in Nat
         /\ 0 \in Rows(c) /\ Rows(c) \subseteq Nat
  BY DEF CountMinAssumption, Rows

\* The cells of an item are in the array.
LEMMA LocationInArray ==
  ASSUME CountMinAssumption, NEW c \in CMConfig, NEW x \in Counted, NEW r \in Rows(c)
  PROVE  Location(c, x, r) \in Slots(c) /\ Location(c, x, r) \in Locations(c, x)
  <1> DEFINE h == c.num_hashes
             b == c.num_buckets
             i == BucketOf[c][x][r]
  <1>1. h \in Nat /\ b \in Nat /\ r \in Nat /\ r <= h - 1
    BY ConfigType DEF Rows
  <1>2. i \in Nat /\ i <= b - 1
    BY DEF CountMinAssumption
  <1>3. r * b + i \in Nat /\ r * b + i <= h * b - 1
    <2> HIDE DEF h, b, i
    <2>1. r * b <= (h - 1) * b
      BY <1>1
    <2>2. (h - 1) * b = h * b - b /\ r * b \in Nat /\ h * b \in Nat
      BY <1>1
    <2>3. ASSUME NEW p \in Nat, NEW q \in Nat, p <= q - b
          PROVE  p + i \in Nat /\ p + i <= q - 1
      BY <1>1, <1>2, <2>3
    <2> QED BY <2>1, <2>2, <2>3
  <1>4. Location(c, x, r) \in Slots(c)
    BY <1>3 DEF Location, Slots
  <1>5. Location(c, x, r) \in Locations(c, x)
    BY DEF Locations
  <1> QED BY <1>4, <1>5

----------------------------------------------------------------------------
(* The operations keep sketches sound *)

LEMMA NewSound ==
  ASSUME CountMinAssumption, NEW c \in CMConfig
  PROVE  Sound(c, NoCells(c), 0, Nothing, Nothing)
  BY LocationInArray DEF Sound, NoCells, Nothing

LEMMA UpdateSound ==
  ASSUME CountMinAssumption, NEW c \in CMConfig, NEW f, NEW n, NEW t, NEW m,
         Sound(c, f, n, t, m), NEW x \in Counted, x # EmptyString, NEW w \in Int
  PROVE  Sound(c, [l \in Slots(c) |-> IF l \in Locations(c, x) THEN f[l] + w ELSE f[l]],
               n + Abs(w), [t EXCEPT ![x] = @ + w], [m EXCEPT ![x] = @ + Abs(w)])
  <1> DEFINE F == [l \in Slots(c) |-> IF l \in Locations(c, x) THEN f[l] + w ELSE f[l]]
             N == n + Abs(w)
             T == [t EXCEPT ![x] = @ + w]
             M == [m EXCEPT ![x] = @ + Abs(w)]
  <1>1. Abs(w) \in Nat /\ w <= Abs(w) /\ -w <= Abs(w) /\ (w < 0 => w # Abs(w) /\ Abs(w) > 0)
        /\ (w >= 0 => Abs(w) = w)
    BY DEF Abs
  <1>2. /\ f \in [Slots(c) -> Int] /\ n \in Nat
        /\ t \in [Counted -> Int] /\ m \in [Counted -> Nat]
    BY DEF Sound
  <1>3. F \in [Slots(c) -> Int] /\ N \in Nat /\ T \in [Counted -> Int] /\ M \in [Counted -> Nat]
    BY <1>1, <1>2
  <1>4. EmptyString \in Counted => T[EmptyString] = 0 /\ M[EmptyString] = 0
    BY <1>2 DEF Sound
  <1>5. \A l \in Slots(c) : F[l] <= N /\ -F[l] <= N
    <2> TAKE l \in Slots(c)
    <2>1. f[l] \in Int /\ f[l] <= n /\ -f[l] <= n
      BY <1>2 DEF Sound
    <2>2. F[l] = f[l] + w \/ F[l] = f[l]
      OBVIOUS
    <2> QED BY <1>1, <1>2, <2>1, <2>2
  <1>6. \A y \in Counted : T[y] <= M[y] /\ -T[y] <= M[y]
    <2> TAKE y \in Counted
    <2>1. t[y] \in Int /\ m[y] \in Nat /\ t[y] <= m[y] /\ -t[y] <= m[y]
      BY <1>2 DEF Sound
    <2> QED BY <1>1, <1>2, <2>1
  <1>7. ASSUME NEW y \in Counted, NEW r \in Rows(c)
        PROVE  LET l == Location(c, y, r) IN
               /\ l \in Slots(c) /\ f[l] \in Int /\ t[y] \in Int /\ m[y] \in Nat
               /\ F[l] = IF l \in Locations(c, x) THEN f[l] + w ELSE f[l]
               /\ y = x => l \in Locations(c, x)
    BY <1>2, LocationInArray
  <1>8. \A y \in Counted, r \in Rows(c) :
          /\ F[Location(c, y, r)] - T[y] <= N - M[y]
          /\ T[y] - F[Location(c, y, r)] <= N - M[y]
    <2> TAKE y \in Counted, r \in Rows(c)
    <2>1. /\ f[Location(c, y, r)] - t[y] <= n - m[y]
          /\ t[y] - f[Location(c, y, r)] <= n - m[y]
      BY DEF Sound
    <2>2. IF y = x THEN T[y] = t[y] + w /\ M[y] = m[y] + Abs(w) ELSE T[y] = t[y] /\ M[y] = m[y]
      BY <1>2
    <2> HIDE DEF F, T, M
    <2> QED BY <1>1, <1>2, <1>7, <2>1, <2>2
  <1>9. ASSUME \A y \in Counted : T[y] = M[y]
        PROVE  \A y \in Counted, r \in Rows(c) : F[Location(c, y, r)] >= T[y]
    <2>1. t[x] \in Int /\ m[x] \in Nat /\ t[x] <= m[x] /\ t[x] + w = m[x] + Abs(w)
      BY <1>2, <1>9 DEF Sound
    <2>2. w >= 0 /\ t[x] = m[x]
      BY <1>1, <2>1
    <2>3. \A y \in Counted : t[y] = m[y]
      BY <1>2, <1>9, <2>2
    <2> TAKE y \in Counted, r \in Rows(c)
    <2>4. f[Location(c, y, r)] >= t[y]
      BY <2>3 DEF Sound
    <2>5. CASE y = x
      BY <1>2, <1>7, <2>2, <2>4, <2>5
    <2>6. CASE y # x
      BY <1>2, <1>7, <2>2, <2>4, <2>6
    <2> QED BY <2>5, <2>6
  <1> HIDE DEF F, N, T, M
  <1>10. Sound(c, F, N, T, M)
    BY <1>3, <1>4, <1>5, <1>6, <1>8, <1>9 DEF Sound
  <1> QED BY <1>10 DEF F, N, T, M

LEMMA MergeSound ==
  ASSUME CountMinAssumption, NEW c \in CMConfig,
         NEW f, NEW n, NEW t, NEW m, Sound(c, f, n, t, m),
         NEW g, NEW o, NEW u, NEW q, Sound(c, g, o, u, q)
  PROVE  Sound(c, [l \in Slots(c) |-> f[l] + g[l]], n + o,
               [x \in Counted |-> t[x] + u[x]], [x \in Counted |-> m[x] + q[x]])
  <1> DEFINE F == [l \in Slots(c) |-> f[l] + g[l]]
             N == n + o
             T == [x \in Counted |-> t[x] + u[x]]
             M == [x \in Counted |-> m[x] + q[x]]
  <1>1. /\ f \in [Slots(c) -> Int] /\ n \in Nat /\ t \in [Counted -> Int] /\ m \in [Counted -> Nat]
        /\ g \in [Slots(c) -> Int] /\ o \in Nat /\ u \in [Counted -> Int] /\ q \in [Counted -> Nat]
    BY DEF Sound
  <1>2. F \in [Slots(c) -> Int] /\ N \in Nat /\ T \in [Counted -> Int] /\ M \in [Counted -> Nat]
    BY <1>1
  <1>3. EmptyString \in Counted => T[EmptyString] = 0 /\ M[EmptyString] = 0
    BY <1>1 DEF Sound
  <1>4. \A l \in Slots(c) : F[l] <= N /\ -F[l] <= N
    BY <1>1 DEF Sound
  <1>5. ASSUME NEW x \in Counted
        PROVE  /\ t[x] \in Int /\ m[x] \in Nat /\ t[x] <= m[x] /\ -t[x] <= m[x]
               /\ u[x] \in Int /\ q[x] \in Nat /\ u[x] <= q[x] /\ -u[x] <= q[x]
               /\ T[x] = t[x] + u[x] /\ M[x] = m[x] + q[x]
    BY <1>1 DEF Sound
  <1>6. \A x \in Counted : T[x] <= M[x] /\ -T[x] <= M[x]
    BY <1>5
  <1>7. ASSUME NEW x \in Counted, NEW r \in Rows(c)
        PROVE  LET l == Location(c, x, r) IN
               /\ f[l] \in Int /\ g[l] \in Int /\ F[l] = f[l] + g[l]
               /\ f[l] - t[x] <= n - m[x] /\ t[x] - f[l] <= n - m[x]
               /\ g[l] - u[x] <= o - q[x] /\ u[x] - g[l] <= o - q[x]
    BY <1>1, LocationInArray DEF Sound
  <1>8. \A x \in Counted, r \in Rows(c) :
          /\ F[Location(c, x, r)] - T[x] <= N - M[x]
          /\ T[x] - F[Location(c, x, r)] <= N - M[x]
    <2> TAKE x \in Counted, r \in Rows(c)
    <2> HIDE DEF F, T, M
    <2> QED BY <1>1, <1>5, <1>7
  <1>9. ASSUME \A x \in Counted : T[x] = M[x]
        PROVE  \A x \in Counted, r \in Rows(c) : F[Location(c, x, r)] >= T[x]
    <2>1. \A x \in Counted : t[x] = m[x] /\ u[x] = q[x]
      <3> HIDE DEF T, M
      <3> QED BY <1>5, <1>9
    <2> TAKE x \in Counted, r \in Rows(c)
    <2>2. f[Location(c, x, r)] >= t[x] /\ g[Location(c, x, r)] >= u[x]
      BY <2>1 DEF Sound
    <2> HIDE DEF F, T, M
    <2> QED BY <1>5, <1>7, <2>2
  <1> HIDE DEF F, N, T, M
  <1>10. Sound(c, F, N, T, M)
    BY <1>2, <1>3, <1>4, <1>6, <1>8, <1>9 DEF Sound
  <1> QED BY <1>10 DEF F, N, T, M
----------------------------------------------------------------------------
(* Induction *)

LEMMA InitInvariant ==
  ASSUME CountMinAssumption, CMInit
  PROVE  CMIInv
  <1>1. \A s \in CMSketch : config[s] \in CMConfig
    BY DEF CMInit
  <1>2. \A s \in CMSketch : Sound(config[s], NoCells(config[s]), 0, Nothing, Nothing)
    BY <1>1, NewSound
  <1> QED BY <1>2 DEF CMInit, CMIInv, Nothing

LEMMA UpdateInvariant ==
  ASSUME CountMinAssumption, CMIInv,
         NEW s \in CMSketch, NEW x \in Counted, NEW w \in CountedWeight, CMUpdate(s, x, w)
  PROVE  CMIInv'
  <1>1. w \in Int /\ x # EmptyString /\ Abs(w) \in Nat
    BY DEF CountMinAssumption, CMUpdate, Abs
  <1>2. \A r \in CMSketch :
          /\ config[r] \in CMConfig
          /\ Sound(config[r], cells[r], cm_weight[r], cm_truth[r], mass[r])
    BY DEF CMIInv
  <1>3. Sound(config[s],
              [l \in Slots(config[s]) |->
                 IF l \in Locations(config[s], x) THEN cells[s][l] + w ELSE cells[s][l]],
              cm_weight[s] + Abs(w),
              [cm_truth[s] EXCEPT ![x] = @ + w], [mass[s] EXCEPT ![x] = @ + Abs(w)])
    BY <1>1, <1>2, UpdateSound
  <1>4. /\ config' = config
        /\ cells' = [cells EXCEPT ![s] =
             [l \in Slots(config[s]) |->
                IF l \in Locations(config[s], x) THEN cells[s][l] + w ELSE cells[s][l]]]
        /\ cm_weight' = [cm_weight EXCEPT ![s] = @ + Abs(w)]
        /\ cm_truth' = [cm_truth EXCEPT ![s] = [cm_truth[s] EXCEPT ![x] = @ + w]]
        /\ mass' = [mass EXCEPT ![s] = [mass[s] EXCEPT ![x] = @ + Abs(w)]]
    BY DEF CMUpdate, Abs, CMIInv
  <1>5. /\ config' \in [CMSketch -> CMConfig] /\ DOMAIN cells' = CMSketch
        /\ cm_weight' \in [CMSketch -> Nat]
        /\ cm_truth' \in [CMSketch -> [Counted -> Int]] /\ mass' \in [CMSketch -> [Counted -> Nat]]
    BY <1>1, <1>4 DEF CMIInv
  <1>6. ASSUME NEW r \in CMSketch
        PROVE  Sound(config[r], cells'[r], cm_weight'[r], cm_truth'[r], mass'[r])
    <2>1. CASE r = s
      BY <1>3, <1>4, <2>1 DEF CMIInv
    <2>2. CASE r # s
      BY <1>2, <1>4, <2>2 DEF CMIInv
    <2> QED BY <2>1, <2>2
  <1> QED BY <1>4, <1>5, <1>6 DEF CMIInv

\* Sketches that may merge have one configuration.
LEMMA CompatibleSame ==
  ASSUME CountMinAssumption, CMIInv, NEW s \in CMSketch, NEW t \in CMSketch, Compatible(s, t)
  PROVE  config[s] = config[t]
  <1>1. /\ config[s] \in [num_hashes : Nat \ {0}, num_buckets : Nat, seed : Seeds]
        /\ config[t] \in [num_hashes : Nat \ {0}, num_buckets : Nat, seed : Seeds]
    BY DEF CountMinAssumption, CMIInv
  <1> QED BY <1>1 DEF Compatible

LEMMA MergeInvariant ==
  ASSUME CountMinAssumption, CMIInv, NEW s \in CMSketch, NEW t \in CMSketch, CMMerge(s, t)
  PROVE  CMIInv'
  <1>1. config[s] = config[t]
    BY CompatibleSame DEF CMMerge
  <1>2. \A r \in CMSketch :
          /\ config[r] \in CMConfig
          /\ Sound(config[r], cells[r], cm_weight[r], cm_truth[r], mass[r])
    BY DEF CMIInv
  <1>3. Sound(config[s], [l \in Slots(config[s]) |-> cells[s][l] + cells[t][l]],
              cm_weight[s] + cm_weight[t],
              [x \in Counted |-> cm_truth[s][x] + cm_truth[t][x]],
              [x \in Counted |-> mass[s][x] + mass[t][x]])
    BY <1>1, <1>2, MergeSound
  <1>4. /\ config' = config
        /\ cells' = [cells EXCEPT ![s] = [l \in Slots(config[s]) |-> cells[s][l] + cells[t][l]]]
        /\ cm_weight' = [cm_weight EXCEPT ![s] = cm_weight[s] + cm_weight[t]]
        /\ cm_truth' = [cm_truth EXCEPT ![s] = [x \in Counted |-> cm_truth[s][x] + cm_truth[t][x]]]
        /\ mass' = [mass EXCEPT ![s] = [x \in Counted |-> mass[s][x] + mass[t][x]]]
    BY DEF CMMerge, CMIInv
  <1>5. /\ config' \in [CMSketch -> CMConfig] /\ DOMAIN cells' = CMSketch
        /\ cm_weight' \in [CMSketch -> Nat]
        /\ cm_truth' \in [CMSketch -> [Counted -> Int]] /\ mass' \in [CMSketch -> [Counted -> Nat]]
    BY <1>4 DEF CMIInv
  <1>6. ASSUME NEW r \in CMSketch
        PROVE  Sound(config[r], cells'[r], cm_weight'[r], cm_truth'[r], mass'[r])
    <2>1. CASE r = s
      BY <1>3, <1>4, <2>1 DEF CMIInv
    <2>2. CASE r # s
      BY <1>2, <1>4, <2>2 DEF CMIInv
    <2> QED BY <2>1, <2>2
  <1> QED BY <1>4, <1>5, <1>6 DEF CMIInv

\* A sketch that counts as empty has nothing in its cells, so the header alone
\* brings it back.
LEMMA RestoreExact ==
  ASSUME CountMinAssumption, CMIInv, NEW t \in CMSketch, NEW s \in CMSketch,
         NEW seed \in Seeds, CMRestore(t, s, seed)
  PROVE  /\ config' = [config EXCEPT ![t] = config[s]]
         /\ cells' = [cells EXCEPT ![t] = cells[s]]
         /\ cm_weight' = [cm_weight EXCEPT ![t] = cm_weight[s]]
         /\ cm_truth' = [cm_truth EXCEPT ![t] = cm_truth[s]]
         /\ mass' = [mass EXCEPT ![t] = mass[s]]
  <1>1. config[s] \in CMConfig /\ config[s] \in [num_hashes : Nat \ {0}, num_buckets : Nat, seed : Seeds]
    BY DEF CountMinAssumption, CMIInv
  <1>2. Sound(config[s], cells[s], cm_weight[s], cm_truth[s], mass[s])
    BY DEF CMIInv
  <1>3. Payload(s).config = config[s]
    BY DEF Payload
  <1>4. seed = config[s].seed
    BY <1>1, <1>3 DEF CMRestore, CountMinAssumption, Seeds
  <1>5. [config[s] EXCEPT !.seed = seed] = config[s]
    BY <1>1, <1>4
  <1>6. Payload(s).cells = cells[s] /\ Payload(s).cm_weight = cm_weight[s]
    <2>1. CASE IsEmptyCM(s)
      <3>1. cm_weight[s] = 0
        BY <2>1 DEF IsEmptyCM
      <3>2. \A l \in Slots(config[s]) : cells[s][l] = 0
        <4> TAKE l \in Slots(config[s])
        <4>1. cells[s][l] \in Int /\ cells[s][l] <= 0 /\ -cells[s][l] <= 0
          BY <1>2, <3>1 DEF Sound
        <4> QED BY <4>1
      <3>3. cells[s] = NoCells(config[s])
        BY <1>2, <3>2 DEF Sound, NoCells
      <3> QED BY <2>1, <3>1, <3>3 DEF Payload
    <2>2. CASE ~IsEmptyCM(s)
      BY <2>2 DEF Payload
    <2> QED BY <2>1, <2>2
  <1> QED BY <1>3, <1>5, <1>6 DEF CMRestore

LEMMA RestoreInvariant ==
  ASSUME CountMinAssumption, CMIInv, NEW t \in CMSketch, NEW s \in CMSketch,
         NEW seed \in Seeds, CMRestore(t, s, seed)
  PROVE  CMIInv'
  <1>1. /\ config' = [config EXCEPT ![t] = config[s]]
        /\ cells' = [cells EXCEPT ![t] = cells[s]]
        /\ cm_weight' = [cm_weight EXCEPT ![t] = cm_weight[s]]
        /\ cm_truth' = [cm_truth EXCEPT ![t] = cm_truth[s]]
        /\ mass' = [mass EXCEPT ![t] = mass[s]]
    BY RestoreExact
  <1>2. /\ config' \in [CMSketch -> CMConfig] /\ DOMAIN cells' = CMSketch
        /\ cm_weight' \in [CMSketch -> Nat]
        /\ cm_truth' \in [CMSketch -> [Counted -> Int]] /\ mass' \in [CMSketch -> [Counted -> Nat]]
    BY <1>1 DEF CMIInv
  <1>3. ASSUME NEW r \in CMSketch
        PROVE  Sound(config'[r], cells'[r], cm_weight'[r], cm_truth'[r], mass'[r])
    BY <1>1 DEF CMIInv
  <1> QED BY <1>2, <1>3 DEF CMIInv

LEMMA NextInvariant ==
  ASSUME CountMinAssumption, CMIInv, [CMNext]_cmVars
  PROVE  CMIInv'
  <1>1. CASE \E s \in CMSketch, x \in Counted, w \in CountedWeight : CMUpdate(s, x, w)
    BY <1>1, UpdateInvariant
  <1>2. CASE \E s, t \in CMSketch : CMMerge(s, t)
    BY <1>2, MergeInvariant
  <1>3. CASE \E s, t \in CMSketch, seed \in Seeds : CMRestore(t, s, seed)
    BY <1>3, RestoreInvariant
  <1>4. CASE UNCHANGED cmVars
    BY <1>4 DEF cmVars, CMIInv
  <1> QED BY <1>1, <1>2, <1>3, <1>4 DEF CMNext

----------------------------------------------------------------------------
(* Theorems *)

\* What the cells promise is an inductive invariant.
THEOREM CMInvariance ==
  ASSUME CountMinAssumption
  PROVE  CMSpec => []CMIInv
  <1>1. CMInit => CMIInv
    BY InitInvariant
  <1>2. CMIInv /\ [CMNext]_cmVars => CMIInv'
    BY NextInvariant
  <1> QED BY <1>1, <1>2, PTL DEF CMSpec

\* Configurations, cells, weights and histories keep their types.
THEOREM CMTypeCorrect ==
  ASSUME CountMinAssumption
  PROVE  CMSpec => []CMTypeOK
  <1>1. CMIInv => CMTypeOK
    BY DEF CMIInv, CMTypeOK, Sound
  <1> QED BY <1>1, CMInvariance, PTL

\* Count-min never underestimates while no weight is negative, whatever collides,
\* merges or is restored.
THEOREM Overestimates ==
  ASSUME CountMinAssumption
  PROVE  CMSpec => []NeverUnderestimates
  <1>1. ASSUME CMIInv PROVE NeverUnderestimates
    <2> SUFFICES ASSUME NEW s \in CMSketch, \A x \in Counted : cm_truth[s][x] = mass[s][x],
                        NEW x \in Counted, NEW e \in Estimates(s, x)
                 PROVE  e >= cm_truth[s][x]
      BY DEF NeverUnderestimates
    <2>1. Sound(config[s], cells[s], cm_weight[s], cm_truth[s], mass[s])
      BY <1>1 DEF CMIInv
    <2>2. CASE x = EmptyString
      BY <2>1, <2>2 DEF Sound, Estimates
    <2>3. CASE x # EmptyString
      <3>1. PICK r \in Rows(config[s]) : e = cells[s][Location(config[s], x, r)]
        BY <2>3 DEF Estimates, Readings, Locations
      <3> QED BY <2>1, <3>1 DEF Sound
    <2> QED BY <2>2, <2>3
  <1> QED BY <1>1, CMInvariance, PTL

\* Estimates are off by the absolute weight of the other items at most, whatever
\* the signs.
THEOREM ErrorBounded ==
  ASSUME CountMinAssumption
  PROVE  CMSpec => []ErrorWithinOthers
  <1>1. ASSUME CMIInv PROVE ErrorWithinOthers
    <2> SUFFICES ASSUME NEW s \in CMSketch, NEW x \in Counted, NEW e \in Estimates(s, x)
                 PROVE  /\ e - cm_truth[s][x] <= cm_weight[s] - mass[s][x]
                        /\ cm_truth[s][x] - e <= cm_weight[s] - mass[s][x]
      BY DEF ErrorWithinOthers
    <2>1. Sound(config[s], cells[s], cm_weight[s], cm_truth[s], mass[s])
      BY <1>1 DEF CMIInv
    <2>2. CASE x = EmptyString
      BY <2>1, <2>2 DEF Sound, Estimates
    <2>3. CASE x # EmptyString
      <3>1. PICK r \in Rows(config[s]) : e = cells[s][Location(config[s], x, r)]
        BY <2>3 DEF Estimates, Readings, Locations
      <3> QED BY <2>1, <3>1 DEF Sound
    <2> QED BY <2>2, <2>3
  <1> QED BY <1>1, CMInvariance, PTL

\* An estimate brackets the truth, on both sides.
THEOREM EstimatesBracket ==
  ASSUME CountMinAssumption
  PROVE  CMSpec => []EstimatesBracketTruth
  <1>1. NeverUnderestimates /\ ErrorWithinOthers => EstimatesBracketTruth
    BY DEF EstimatesBracketTruth
  <1> QED BY <1>1, Overestimates, ErrorBounded, PTL

\* A payload brings back the sketch, cell by cell, although the cells of an
\* empty one are not written.
THEOREM RestoresExact ==
  ASSUME CountMinAssumption
  PROVE  CMSpec => CMRestoreFaithful
  <1>1. ASSUME CMIInv, NEW s \in CMSketch, NEW t \in CMSketch, NEW seed \in Seeds, CMRestore(t, s, seed)
        PROVE  /\ config'[t] = config[s]
               /\ cells'[t] = cells[s]
               /\ cm_weight'[t] = cm_weight[s]
    BY <1>1, RestoreExact DEF CMIInv
  <1>2. CMIInv /\ [CMNext]_cmVars =>
          [\A s, t \in CMSketch : \A seed \in Seeds : CMRestore(t, s, seed) =>
             /\ config'[t] = config[s]
             /\ cells'[t] = cells[s]
             /\ cm_weight'[t] = cm_weight[s]]_cmVars
    BY <1>1
  <1> QED BY <1>2, CMInvariance, PTL DEF CMSpec, CMRestoreFaithful

----------------------------------------------------------------------------
(* Both *)

\* Sketches, replays, cells and histories keep their types.
THEOREM TypesCorrect ==
  ASSUME CountMinAssumption
  PROVE  Spec /\ CMSpec => []TypesOK
  <1>1. TypeOK /\ CMTypeOK => TypesOK
    BY DEF TypesOK
  <1> QED BY <1>1, TypeCorrect, CMTypeCorrect, PTL

\* What a sketch of either family writes is what it reads back: counters, offset
\* and size, or every cell and the weight.
THEOREM RoundTrips ==
  ASSUME CountMinAssumption
  PROVE  Spec /\ CMSpec => RestoresFaithful
  <1>1. Spec => RestoreFaithful
    BY RoundTrip
  <1>2. CMSpec => CMRestoreFaithful
    BY RestoresExact
  <1> QED BY <1>1, <1>2 DEF RestoresFaithful
=============================================================================
