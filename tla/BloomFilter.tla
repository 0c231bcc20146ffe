---------------------------- MODULE BloomFilter ----------------------------
(***************************************************************************)
(* The Bloom filter (datasketches/filters) behind R's bloom_filter         *)
(* objects: an array of bits, and a count of the set ones that is cached   *)
(* and marked dirty by updates.  Whether the filter is empty is read off   *)
(* the cache, and queries and serialize ask that first.                    *)
(*                                                                         *)
(* The bit array is the set of its 1 bits.  An item is the set of bits its *)
(* hashes select.  Wrapped and read-only filters cannot be reached from R. *)
(***************************************************************************)
EXTENDS Integers, FiniteSets

CONSTANTS
  Filter,       \* native filters, one behind each R object
  Value,        \* values that are added and queried
  Capacity,     \* capacity_bits_
  DIRTY_BITS_VALUE, \* 2^64 - 1, the greatest count
  FilterConfig, \* num_hashes and seed of the filters created
  BitsOf        \* BitsOf[c][v]: the bits internal_update sets for v

Bit == 0 .. Capacity - 1

\* num_hashes >= 1 and capacity > 0 are checked by the constructor, so each
\* value selects a bit.  The empty string is no Value: update and
\* query_and_update return before they touch the filter, and query denies it.
\* deserialize computes the capacity as num_longs << 6 in 32 bits: a filter
\* of 2^32 bits or more (512 MB) is out of the model.
FilterAssumption ==
  /\ Capacity \in Nat \ {0}
  /\ DIRTY_BITS_VALUE \in Nat /\ Capacity < DIRTY_BITS_VALUE
  /\ \A c \in FilterConfig, v \in Value :
       BitsOf[c][v] \subseteq Bit /\ BitsOf[c][v] # {}

VARIABLES
  setting,  \* num_hashes_ and seed_ of each filter
  bits,     \* bit_array_: the 1 bits
  count,    \* num_bits_set_
  dirty,    \* is_dirty_
  members,  \* history: values the filter must recognise
  lapsed    \* history: query_and_update took a dirty count for a clean one

filterVars == <<setting, bits, count, dirty, members, lapsed>>

----------------------------------------------------------------------------
(* Answers *)

IsEmptyFilter(f) == ~dirty[f] /\ count[f] = 0

\* internal_query
Query(f, v) == ~IsEmptyFilter(f) /\ BitsOf[setting[f]][v] \subseteq bits[f]

IsCompatible(f, g) == setting[f] = setting[g]

\* c + n in 64 bits
Counted(c, n) ==
  IF c + n <= DIRTY_BITS_VALUE THEN c + n ELSE c + n - (DIRTY_BITS_VALUE + 1)

----------------------------------------------------------------------------
(* Operations *)

FilterInit ==
  /\ setting \in [Filter -> FilterConfig]
  /\ bits = [f \in Filter |-> {}]
  /\ count = [f \in Filter |-> 0]
  /\ dirty = [f \in Filter |-> FALSE]
  /\ members = [f \in Filter |-> {}]
  /\ lapsed = [f \in Filter |-> FALSE]

\* update: the count is left behind, and marked so
Add(f, v) ==
  /\ bits' = [bits EXCEPT ![f] = @ \cup BitsOf[setting[f]][v]]
  /\ dirty' = [dirty EXCEPT ![f] = TRUE]
  /\ members' = [members EXCEPT ![f] = @ \cup {v}]
  /\ UNCHANGED <<setting, count, lapsed>>

\* query_and_update: each bit that was 0 is counted, through
\* update_num_bits_set, which clears is_dirty_ whatever the count was
QueryAndUpdate(f, v) ==
  LET new == BitsOf[setting[f]][v] \ bits[f] IN
  /\ bits' = [bits EXCEPT ![f] = @ \cup new]
  /\ count' = [count EXCEPT ![f] = Counted(@, Cardinality(new))]
  /\ dirty' = [dirty EXCEPT ![f] = FALSE]
  /\ members' = [members EXCEPT ![f] = @ \cup {v}]
  /\ lapsed' = [lapsed EXCEPT ![f] = @ \/ dirty[f]]
  /\ UNCHANGED setting

\* What union_with, intersect, invert and reset leave: their bits, counted
Recount_Cached(f, B) ==
  /\ bits' = [bits EXCEPT ![f] = B]
  /\ dirty' = [dirty EXCEPT ![f] = FALSE]
  /\ lapsed' = [lapsed EXCEPT ![f] = FALSE]
  /\ UNCHANGED <<setting, count>>

Recount(f, B) ==
  /\ bits' = [bits EXCEPT ![f] = B]
  /\ count' = [count EXCEPT ![f] = Cardinality(B)]
  /\ dirty' = [dirty EXCEPT ![f] = FALSE]
  /\ lapsed' = [lapsed EXCEPT ![f] = FALSE]
  /\ UNCHANGED setting

\* f$merge(g)
UnionWith(f, g) ==
  /\ f # g
  /\ IsCompatible(f, g)
  /\ Recount(f, bits[f] \cup bits[g])
  /\ members' = [members EXCEPT ![f] = @ \cup members[g]]

\* f$intersect(g)
Intersect(f, g) ==
  /\ f # g
  /\ IsCompatible(f, g)
  /\ Recount(f, bits[f] \cap bits[g])
  /\ members' = [members EXCEPT ![f] = @ \cap members[g]]

\* Only approximately the complement: nothing is promised of any value.
Invert(f) ==
  /\ Recount(f, Bit \ bits[f])
  /\ members' = [members EXCEPT ![f] = {}]

Reset(f) ==
  /\ Recount(f, {})
  /\ members' = [members EXCEPT ![f] = {}]

\* get_bits_used refreshes a dirty count.
BitsUsed(f) ==
  /\ dirty[f]
  /\ count' = [count EXCEPT ![f] = Cardinality(bits[f])]
  /\ dirty' = [dirty EXCEPT ![f] = FALSE]
  /\ lapsed' = [lapsed EXCEPT ![f] = FALSE]
  /\ UNCHANGED <<setting, bits, members>>

\* An empty filter is its header alone.
PayloadBits(f) == IF IsEmptyFilter(f) THEN {} ELSE bits[f]
PayloadCount(f) == IF dirty[f] THEN DIRTY_BITS_VALUE ELSE count[f]

\* g <- bloom_filter(bytes = f$serialize()): a dirty count travels as
\* DIRTY_BITS_VALUE, is known by it and kept.  Of a filter that counts 0 bits
\* but has some, the members are lost.
RestoreFilter(g, f) ==
  /\ setting' = [setting EXCEPT ![g] = setting[f]]
  /\ bits' = [bits EXCEPT ![g] = PayloadBits(f)]
  /\ count' = [count EXCEPT ![g] = PayloadCount(f)]
  /\ dirty' = [dirty EXCEPT ![g] = PayloadCount(f) = DIRTY_BITS_VALUE]
  /\ members' = [members EXCEPT ![g] = IF IsEmptyFilter(f) THEN {} ELSE members[f]]
  /\ lapsed' = [lapsed EXCEPT ![g] = lapsed[f]]

FilterNext ==
  \/ \E f \in Filter, v \in Value : Add(f, v) \/ QueryAndUpdate(f, v)
  \/ \E f, g \in Filter :
       UnionWith(f, g) \/ Intersect(f, g) \/ RestoreFilter(g, f)
  \/ \E f \in Filter : Invert(f) \/ Reset(f) \/ BitsUsed(f)

FilterSpec == FilterInit /\ [][FilterNext]_filterVars

----------------------------------------------------------------------------
(* Properties *)

FilterTypeOK ==
  /\ setting \in [Filter -> FilterConfig]
  /\ bits \in [Filter -> SUBSET Bit]
  /\ count \in [Filter -> 0 .. DIRTY_BITS_VALUE]
  /\ dirty \in [Filter -> BOOLEAN]
  /\ members \in [Filter -> SUBSET Value]
  /\ lapsed \in [Filter -> BOOLEAN]

\* The cached count is the number of 1 bits whenever it is not marked dirty,
\* unless query_and_update met a dirty count.
CountHonest ==
  \A f \in Filter : dirty[f] \/ lapsed[f] \/ count[f] = Cardinality(bits[f])

\* A filter whose count did not lapse recognises every value it was given,
\* alone or through a merge, and every value both arguments of an
\* intersection had; the empty shortcut of queries and payloads included.
RecognisesMembers ==
  \A f \in Filter : (dirty[f] \/ ~lapsed[f]) =>
    \A v \in members[f] : Query(f, v)

\* A payload loses no bit of a filter whose count did not lapse.
FilterRestored == \A f \in Filter : ~lapsed[f] => PayloadBits(f) = bits[f]

\* The cached count is right unless it is known not to be, and then every value
\* is recognised and every payload complete.
MembersRecognised == CountHonest /\ RecognisesMembers /\ FilterRestored

\* "There are no false negatives" (R/filters-bloom.R, method query).
NoFalseNegatives ==
  \A f \in Filter : \A v \in members[f] : Query(f, v)
=============================================================================
