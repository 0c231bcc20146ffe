--------------------------- MODULE FrequentItems ---------------------------
(***************************************************************************)
(* The frequent-items sketch (datasketches/fi) as a set of weight counters *)
(* behind R's frequent_items objects.  A sketch keeps a counter per        *)
(* tracked item and one `offset`; when an insertion overflows the map,     *)
(* the median of a sample of the counters is subtracted from every counter *)
(* and added to the offset.  A counter of 0 is an item that is not in the  *)
(* map.  The probing table that stores the counters is FrequentItemsTable, *)
(* which implements this module.                                           *)
(*                                                                         *)
(* merge and deserialize replay the other sketch's counters one by one     *)
(* into the receiver: `call` is the loop in progress.                      *)
(***************************************************************************)
EXTENDS Integers, FiniteSets, Functions

CONSTANTS
  Item,             \* the strings of the stream
  Sketch,           \* native sketches, one behind each R object
  MapSizes,         \* 2^lg_max_map_size of the sketches that are created
  LOAD_NUM,         \* LOAD_FACTOR of the map is LOAD_NUM / LOAD_DEN (3/4 in
  LOAD_DEN,         \* the code; smaller instances may scale it down)
  MAX_SAMPLE_SIZE,  \* counters a purge samples (1024 in the code)
  MaxWeight         \* bound: weight of the stream a sketch has absorbed

ASSUME ItemAssumption == IsFiniteSet(Item)
ASSUME SizeAssumption == MapSizes \subseteq Nat \ {0} /\ MapSizes # {}
ASSUME LoadAssumption == LOAD_NUM \in Nat /\ LOAD_DEN \in Nat \ {0}
ASSUME BoundAssumption == MAX_SAMPLE_SIZE \in Nat \ {0} /\ MaxWeight \in Nat

VARIABLES
  max_size,      \* 1 << lg_max_size_ of the sketch's map
  map,           \* counters: Item -> Nat per sketch, 0 when not active
  offset,
  total_weight,
  call,          \* the replay loop in progress
  truth,         \* history: weight of each item in the stream absorbed
  dropped        \* history: offset and weight lost with emptied sketches

vars == <<max_size, map, offset, total_weight, call, truth, dropped>>

----------------------------------------------------------------------------
(* The counter map *)

Zero == [i \in Item |-> 0]
Active(f) == {i \in Item : f[i] > 0}
IsEmpty(f) == Active(f) = {}
Sum(f) == FoldFunctionOnSet(+, 0, f, Item)

\* get_capacity: LOAD_FACTOR of the table, rounded down.
Capacity(size) == (LOAD_NUM * size) \div LOAD_DEN

\* std::nth_element at rank num_samples / 2 of the sampled counters.
IsMedian(m, f, S) ==
  /\ Cardinality({i \in S : f[i] < m}) <= Cardinality(S) \div 2
  /\ Cardinality({i \in S : f[i] <= m}) > Cardinality(S) \div 2

Samples(f) ==
  {S \in SUBSET Active(f) :
     \/ Cardinality(S) = MAX_SAMPLE_SIZE
     \/ Cardinality(S) <= MAX_SAMPLE_SIZE /\ S = Active(f)}

Medians(f) ==
  {m \in {f[i] : i \in Active(f)} : \E S \in Samples(f) : IsMedian(m, f, S)}

Subtract_KeepsAll(f, m) == [i \in Item |-> IF f[i] > 0 THEN f[i] - m ELSE 0]

\* subtract_and_keep_positive_only
Subtract(f, m) == [i \in Item |-> IF f[i] > m THEN f[i] - m ELSE 0]

Adjust(f, i, w) == [f EXCEPT ![i] = @ + w]

\* What resize_or_purge_if_needed subtracts after i was adjusted or inserted;
\* the map is purged only at its largest size, where it first overflows.
PurgeAmounts(f, i, w, size) ==
  LET g == Adjust(f, i, w) IN
  IF f[i] = 0 /\ Cardinality(Active(g)) > Capacity(size) THEN Medians(g) ELSE {0}

----------------------------------------------------------------------------
(* Answers *)

LowerBound(s, i) == map[s][i]
UpperBound(s, i) == map[s][i] + offset[s]
Estimate(s, i) == IF map[s][i] > 0 THEN map[s][i] + offset[s] ELSE 0
MaximumError(s) == offset[s]

NoFalseNegatives_ByLowerBound(s, threshold) ==
  {i \in Active(map[s]) : LowerBound(s, i) > threshold}

\* get_frequent_items
NoFalseNegatives(s, threshold) ==
  {i \in Active(map[s]) : UpperBound(s, i) > threshold}
NoFalsePositives(s, threshold) ==
  {i \in Active(map[s]) : LowerBound(s, i) > threshold}

----------------------------------------------------------------------------
(* Operations *)

Idle == [op |-> "idle"]
Calls ==
  {Idle} \cup [op : {"merge", "restore"}, to : Sketch, from : Sketch,
               rest : SUBSET Item, total : Nat]

NothingDropped == [offset |-> 0, weight |-> 0]

Init ==
  /\ max_size \in [Sketch -> MapSizes]
  /\ map = [s \in Sketch |-> Zero]
  /\ offset = [s \in Sketch |-> 0]
  /\ total_weight = [s \in Sketch |-> 0]
  /\ call = Idle
  /\ truth = [s \in Sketch |-> Zero]
  /\ dropped = [s \in Sketch |-> NothingDropped]

\* sketch.update(item, weight)
Feed(s, i, w) ==
  \E m \in PurgeAmounts(map[s], i, w, max_size[s]) :
    /\ map' = [map EXCEPT ![s] = Subtract(Adjust(@, i, w), m)]
    /\ offset' = [offset EXCEPT ![s] = @ + m]
    /\ total_weight' = [total_weight EXCEPT ![s] = @ + w]

StreamWeight(s) == total_weight[s] + dropped[s].weight

\* One element of fi_update_cpp's loop; a zero weight returns at once.
Update(s, i, w) ==
  /\ call = Idle
  /\ w > 0
  /\ StreamWeight(s) + w <= MaxWeight
  /\ truth' = [truth EXCEPT ![s][i] = @ + w]
  /\ Feed(s, i, w)
  /\ UNCHANGED <<max_size, call, dropped>>

\* What a sketch with no active item takes out of an exchange: merge returns
\* before adding its offset and weight, serialize does not write them.
DroppedWith(o) == [offset |-> dropped[o].offset + offset[o],
                   weight |-> dropped[o].weight + total_weight[o]]

AddDropped(a, b) == [offset |-> a.offset + b.offset, weight |-> a.weight + b.weight]
AddTruth(f, g) == [i \in Item |-> f[i] + g[i]]

\* merge: the early return for an empty other
MergeEmpty(s, o) ==
  /\ call = Idle
  /\ s # o
  /\ IsEmpty(map[o])
  /\ StreamWeight(s) + StreamWeight(o) <= MaxWeight
  /\ truth' = [truth EXCEPT ![s] = AddTruth(@, truth[o])]
  /\ dropped' = [dropped EXCEPT ![s] = AddDropped(@, DroppedWith(o))]
  /\ UNCHANGED <<max_size, map, offset, total_weight, call>>

MergeBegin(s, o) ==
  /\ call = Idle
  /\ s # o
  /\ ~IsEmpty(map[o])
  /\ StreamWeight(s) + StreamWeight(o) <= MaxWeight
  /\ call' = [op |-> "merge", to |-> s, from |-> o, rest |-> Active(map[o]),
              total |-> total_weight[s] + total_weight[o]]
  /\ UNCHANGED <<max_size, map, offset, total_weight, truth, dropped>>

\* The body of the loops over other.map and over the deserialized items
Replay(i) ==
  /\ call # Idle
  /\ i \in call.rest
  /\ call' = [call EXCEPT !.rest = @ \ {i}]
  /\ Feed(call.to, i, map[call.from][i])
  /\ UNCHANGED <<max_size, truth, dropped>>

MergeEnd_NoOffset ==
  /\ call # Idle
  /\ call.op = "merge"
  /\ call.rest = {}
  /\ LET s == call.to
         o == call.from
     IN /\ total_weight' = [total_weight EXCEPT ![s] = call.total]
        /\ truth' = [truth EXCEPT ![s] = AddTruth(@, truth[o])]
        /\ dropped' = [dropped EXCEPT ![s] = AddDropped(@, dropped[o])]
  /\ call' = Idle
  /\ UNCHANGED <<max_size, map, offset>>

MergeEnd_NoCorrection ==
  /\ call # Idle
  /\ call.op = "merge"
  /\ call.rest = {}
  /\ LET s == call.to
         o == call.from
     IN /\ offset' = [offset EXCEPT ![s] = @ + offset[o]]
        /\ truth' = [truth EXCEPT ![s] = AddTruth(@, truth[o])]
        /\ dropped' = [dropped EXCEPT ![s] = AddDropped(@, dropped[o])]
  /\ call' = Idle
  /\ UNCHANGED <<max_size, map, total_weight>>

\* The end of merge: the offsets add up, the weight is corrected.
MergeEnd ==
  /\ call # Idle
  /\ call.op = "merge"
  /\ call.rest = {}
  /\ LET s == call.to
         o == call.from
     IN /\ offset' = [offset EXCEPT ![s] = @ + offset[o]]
        /\ total_weight' = [total_weight EXCEPT ![s] = call.total]
        /\ truth' = [truth EXCEPT ![s] = AddTruth(@, truth[o])]
        /\ dropped' = [dropped EXCEPT ![s] = AddDropped(@, dropped[o])]
  /\ call' = Idle
  /\ UNCHANGED <<max_size, map>>

\* s becomes the sketch deserialized from o's payload: a fresh map of the same
\* largest size, filled by update, then the stored weight and offset.
Fresh(s, size) ==
  /\ max_size' = [max_size EXCEPT ![s] = size]
  /\ map' = [map EXCEPT ![s] = Zero]
  /\ offset' = [offset EXCEPT ![s] = 0]
  /\ total_weight' = [total_weight EXCEPT ![s] = 0]

RestoreEmpty(s, o) ==
  /\ call = Idle
  /\ s # o
  /\ IsEmpty(map[o])
  /\ Fresh(s, max_size[o])
  /\ truth' = [truth EXCEPT ![s] = truth[o]]
  /\ dropped' = [dropped EXCEPT ![s] = DroppedWith(o)]
  /\ UNCHANGED call

RestoreBegin_SmallestMap(s, o) ==
  /\ call = Idle
  /\ s # o
  /\ ~IsEmpty(map[o])
  /\ \E z \in MapSizes : (\A y \in MapSizes : z <= y) /\ Fresh(s, z)
  /\ call' = [op |-> "restore", to |-> s, from |-> o, rest |-> Active(map[o]),
              total |-> total_weight[o]]
  /\ UNCHANGED <<truth, dropped>>

RestoreBegin(s, o) ==
  /\ call = Idle
  /\ s # o
  /\ ~IsEmpty(map[o])
  /\ Fresh(s, max_size[o])
  /\ call' = [op |-> "restore", to |-> s, from |-> o, rest |-> Active(map[o]),
              total |-> total_weight[o]]
  /\ UNCHANGED <<truth, dropped>>

RestoreEnd_ReplayedTotal ==
  /\ call # Idle
  /\ call.op = "restore"
  /\ call.rest = {}
  /\ LET s == call.to
         o == call.from
     IN /\ offset' = [offset EXCEPT ![s] = offset[o]]
        /\ truth' = [truth EXCEPT ![s] = truth[o]]
        /\ dropped' = [dropped EXCEPT ![s] = dropped[o]]
  /\ call' = Idle
  /\ UNCHANGED <<max_size, map, total_weight>>

RestoreEnd ==
  /\ call # Idle
  /\ call.op = "restore"
  /\ call.rest = {}
  /\ LET s == call.to
         o == call.from
     IN /\ offset' = [offset EXCEPT ![s] = offset[o]]
        /\ total_weight' = [total_weight EXCEPT ![s] = call.total]
        /\ truth' = [truth EXCEPT ![s] = truth[o]]
        /\ dropped' = [dropped EXCEPT ![s] = dropped[o]]
  /\ call' = Idle
  /\ UNCHANGED <<max_size, map>>

Next ==
  \/ \E s \in Sketch, i \in Item, w \in 1..MaxWeight : Update(s, i, w)
  \/ \E s, o \in Sketch :
       \/ MergeEmpty(s, o)
       \/ MergeBegin(s, o)
       \/ RestoreEmpty(s, o)
       \/ RestoreBegin(s, o)
  \/ \E i \in Item : Replay(i)
  \/ MergeEnd
  \/ RestoreEnd

Spec == Init /\ [][Next]_vars

----------------------------------------------------------------------------
(* Properties *)

DroppedType == [offset : Nat, weight : Nat]

\* Counters, offset and weights never go below zero (they are unsigned in the
\* code), sketch sizes are legal and a replay is between two sketches.
TypeOK ==
  /\ max_size \in [Sketch -> MapSizes]
  /\ map \in [Sketch -> [Item -> Nat]]
  /\ offset \in [Sketch -> Nat]
  /\ total_weight \in [Sketch -> Nat]
  /\ call \in Calls
  /\ truth \in [Sketch -> [Item -> Nat]]
  /\ dropped \in [Sketch -> DroppedType]

\* s is not being written by a merge or a deserialization.
Settled(s) == call = Idle \/ call.to # s

\* "Guaranteed lower/upper bound on the frequency of item": whatever updates,
\* purges, merges and round trips led to a sketch, the true weight of an item
\* is between its lower and its upper bound, short only of the offsets that
\* were dropped when an emptied sketch was merged or serialized.
BoundsBracketTruth ==
  \A s \in Sketch : Settled(s) =>
    \A i \in Item :
      /\ LowerBound(s, i) <= truth[s][i]
      /\ truth[s][i] <= UpperBound(s, i) + dropped[s].offset

\* Counters that lose the whole median in one purge of a map of this size.
Share(size) ==
  LET n == Capacity(size) + 1
      k == IF MAX_SAMPLE_SIZE < n THEN MAX_SAMPLE_SIZE ELSE n
  IN k - k \div 2

\* The maximum error is at most the share of the weight that the purges spent:
\* every unit of offset was paid for by Share counters.  This is the bound
\* behind get_epsilon (Share(size) >= size / 3.5 while the sample holds the whole
\* map), for the smallest map among the sketches merged.
ErrorWithinShare ==
  \A s \in Sketch : Settled(s) =>
    \E size \in MapSizes :
      /\ \A other \in MapSizes : size <= other
      /\ offset[s] * Share(size) + Sum(map[s]) <= total_weight[s]

\* "Sum of all weights seen so far": purging and replaying counters does not
\* change the total weight, which lacks only that of emptied sketches.
TotalWeightExact ==
  \A s \in Sketch : Settled(s) =>
    total_weight[s] + dropped[s].weight = Sum(truth[s])

\* Of frequent_items: with no_false_positives every row exceeds the threshold;
\* with no_false_negatives and a threshold of at least the maximum error (the
\* default) every item that exceeds it is in the rows.
FrequentItemsSound ==
  \A s \in Sketch : Settled(s) =>
    \A t \in 0..MaxWeight :
      LET Exceeding == {i \in Item : truth[s][i] > t} IN
      /\ NoFalsePositives(s, t) \subseteq Exceeding
      /\ t >= MaximumError(s) =>
           {i \in Exceeding : truth[s][i] > t + dropped[s].offset}
             \subseteq NoFalseNegatives(s, t)

\* A round trip through bytes gives back the same counters: replaying them
\* into a fresh map never purges, so no estimate changes.
RestoreFaithful ==
  [][RestoreEnd => /\ map'[call.to] = map[call.from]
                   /\ offset'[call.to] = offset[call.from]
                   /\ max_size'[call.to] = max_size[call.from]]_vars

\* The claim of the documentation that the code does not keep:
\* "get_upper_bound ... guaranteed to be no smaller than the real frequency"
UpperBoundGuaranteed ==
  \A s \in Sketch : Settled(s) =>
    \A i \in Item : truth[s][i] <= UpperBound(s, i)
============================================================================
