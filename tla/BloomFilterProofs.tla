------------------------- MODULE BloomFilterProofs -------------------------
(***************************************************************************)
(* What holds of Bloom filters for every capacity, every choice of bits by *)
(* the hashes and every sequence of operations: unless query_and_update    *)
(* took a stale count for a right one, the cached count is right or marked *)
(* dirty, every value is recognised, and a payload loses nothing.          *)
(***************************************************************************)
EXTENDS BloomFilter, FiniteSetTheorems, TLAPS

\* The bits of the members are set; nothing but the empty shortcut can then
\* deny them, and the count says when it is taken.
Honest(f) == dirty[f] \/ lapsed[f] \/ count[f] = Cardinality(bits[f])
Covering(f) == \A v \in members[f] : BitsOf[setting[f]][v] \subseteq bits[f]

IInv ==
  /\ FilterTypeOK
  /\ \A f \in Filter : Honest(f) /\ Covering(f)

----------------------------------------------------------------------------
(* Sets of bits *)

LEMMA BitsFinite ==
  ASSUME FilterAssumption, NEW B \in SUBSET Bit
  PROVE  /\ IsFiniteSet(B) /\ Cardinality(B) \in 0 .. DIRTY_BITS_VALUE
         /\ Cardinality(B) = 0 <=> B = {}
  <1>1. 0 \in Int /\ Capacity - 1 \in Int
    BY DEF FilterAssumption
  <1>2. IsFiniteSet(Bit) /\ Cardinality(Bit) = Capacity
    BY <1>1, FS_Interval DEF Bit, FilterAssumption
  <1>3. IsFiniteSet(B) /\ Cardinality(B) <= Capacity
    BY <1>2, FS_Subset
  <1>4. Cardinality(B) \in Nat
    BY <1>3, FS_CardinalityType
  <1>5. Cardinality(B) \in 0 .. DIRTY_BITS_VALUE
    BY <1>3, <1>4 DEF FilterAssumption
  <1> QED BY <1>3, <1>5, FS_EmptySet

\* Counting wraps around, but not before every bit is counted.
LEMMA CountedWithin ==
  ASSUME FilterAssumption, NEW c \in 0 .. DIRTY_BITS_VALUE, NEW n \in 0 .. DIRTY_BITS_VALUE
  PROVE  /\ Counted(c, n) \in 0 .. DIRTY_BITS_VALUE
         /\ c + n \in 0 .. DIRTY_BITS_VALUE => Counted(c, n) = c + n
  BY DEF FilterAssumption, Counted

\* Bits that were 0 add to the count, each once.
LEMMA NewBitsCounted ==
  ASSUME FilterAssumption, NEW B \in SUBSET Bit, NEW C \in SUBSET Bit
  PROVE  Cardinality(B \cup (C \ B)) = Cardinality(B) + Cardinality(C \ B)
  <1>1. IsFiniteSet(B) /\ IsFiniteSet(C \ B) /\ Cardinality(B) \in Nat /\ Cardinality(C \ B) \in Nat
    BY BitsFinite
  <1>2. B \cap (C \ B) = {}
    OBVIOUS
  <1>3. Cardinality(B \cup (C \ B)) =
          Cardinality(B) + Cardinality(C \ B) - Cardinality(B \cap (C \ B))
    BY <1>1, FS_Union
  <1>4. Cardinality({}) = 0
    BY FS_EmptySet
  <1> DEFINE n == Cardinality(B \cup (C \ B))
  <1>5. n = Cardinality(B) + Cardinality(C \ B) - 0
    BY <1>2, <1>3, <1>4
  <1> HIDE DEF n
  <1>6. n = Cardinality(B) + Cardinality(C \ B)
    BY <1>1, <1>5
  <1> QED BY <1>6 DEF n

LEMMA ItemBits ==
  ASSUME FilterAssumption, FilterTypeOK, NEW f \in Filter, NEW v \in Value
  PROVE  BitsOf[setting[f]][v] \in SUBSET Bit /\ BitsOf[setting[f]][v] # {}
  BY DEF FilterAssumption, FilterTypeOK

----------------------------------------------------------------------------
(* Induction *)

LEMMA InitInvariant ==
  ASSUME FilterAssumption, FilterInit
  PROVE  IInv
  <1>1. Cardinality({}) = 0
    BY FS_EmptySet
  <1>2. 0 \in 0 .. DIRTY_BITS_VALUE
    BY DEF FilterAssumption
  <1> QED BY <1>1, <1>2 DEF FilterInit, IInv, FilterTypeOK, Honest, Covering

LEMMA AddInvariant ==
  ASSUME FilterAssumption, IInv, NEW f \in Filter, NEW v \in Value, Add(f, v)
  PROVE  IInv'
  <1>1. BitsOf[setting[f]][v] \in SUBSET Bit
    BY ItemBits DEF IInv
  <1>2. FilterTypeOK'
    BY <1>1 DEF IInv, FilterTypeOK, Add
  <1>3. ASSUME NEW g \in Filter PROVE Honest(g)'
    BY DEF IInv, FilterTypeOK, Honest, Add
  <1>4. ASSUME NEW g \in Filter PROVE Covering(g)'
    BY DEF IInv, FilterTypeOK, Covering, Add
  <1> QED BY <1>2, <1>3, <1>4 DEF IInv

LEMMA QueryAndUpdateInvariant ==
  ASSUME FilterAssumption, IInv, NEW f \in Filter, NEW v \in Value, QueryAndUpdate(f, v)
  PROVE  IInv'
  <1> DEFINE new == BitsOf[setting[f]][v] \ bits[f]
  <1>1. /\ BitsOf[setting[f]][v] \in SUBSET Bit /\ bits[f] \in SUBSET Bit
        /\ new \in SUBSET Bit /\ Cardinality(new) \in 0 .. DIRTY_BITS_VALUE
        /\ Cardinality(bits[f] \cup new) \in 0 .. DIRTY_BITS_VALUE
    BY ItemBits, BitsFinite DEF IInv, FilterTypeOK
  <1>2. Cardinality(bits[f] \cup new) = Cardinality(bits[f]) + Cardinality(new)
    BY <1>1, NewBitsCounted
  <1>3. /\ bits' = [bits EXCEPT ![f] = @ \cup new]
        /\ count' = [count EXCEPT ![f] = Counted(@, Cardinality(new))]
        /\ dirty' = [dirty EXCEPT ![f] = FALSE]
        /\ members' = [members EXCEPT ![f] = @ \cup {v}]
        /\ lapsed' = [lapsed EXCEPT ![f] = @ \/ dirty[f]]
        /\ setting' = setting
    BY DEF QueryAndUpdate
  <1>4. FilterTypeOK'
    <2>1. count[f] \in 0 .. DIRTY_BITS_VALUE
      BY DEF IInv, FilterTypeOK
    <2>2. Counted(count[f], Cardinality(new)) \in 0 .. DIRTY_BITS_VALUE
      BY <1>1, <2>1, CountedWithin
    <2> HIDE DEF new
    <2> QED BY <1>1, <1>3, <2>2 DEF IInv, FilterTypeOK
  <1>5. ASSUME NEW g \in Filter PROVE Honest(g)'
    <2>1. CASE g = f
      <3>1. ASSUME ~dirty[f], ~lapsed[f]
            PROVE  Counted(count[f], Cardinality(new)) = Cardinality(bits[f] \cup new)
        <4>1. count[f] = Cardinality(bits[f]) /\ count[f] \in 0 .. DIRTY_BITS_VALUE
          BY <3>1 DEF IInv, FilterTypeOK, Honest
        <4> QED BY <1>1, <1>2, <4>1, CountedWithin
      <3> HIDE DEF new
      <3> QED BY <1>3, <2>1, <3>1 DEF IInv, FilterTypeOK, Honest
    <2>2. CASE g # f
      BY <1>3, <2>2 DEF IInv, FilterTypeOK, Honest
    <2> QED BY <2>1, <2>2
  <1>6. ASSUME NEW g \in Filter PROVE Covering(g)'
    BY <1>3 DEF IInv, FilterTypeOK, Covering
  <1> QED BY <1>4, <1>5, <1>6 DEF IInv

\* Union, intersection, inversion and reset count what they leave.
LEMMA RecountInvariant ==
  ASSUME FilterAssumption, IInv, NEW f \in Filter, NEW B \in SUBSET Bit, Recount(f, B),
         NEW M \in SUBSET Value, members' = [members EXCEPT ![f] = M],
         \A v \in M : BitsOf[setting[f]][v] \subseteq B
  PROVE  IInv'
  <1>1. Cardinality(B) \in 0 .. DIRTY_BITS_VALUE
    BY BitsFinite
  <1>2. FilterTypeOK'
    BY <1>1 DEF IInv, FilterTypeOK, Recount
  <1>3. ASSUME NEW g \in Filter PROVE Honest(g)'
    BY DEF IInv, FilterTypeOK, Honest, Recount
  <1>4. ASSUME NEW g \in Filter PROVE Covering(g)'
    BY DEF IInv, FilterTypeOK, Covering, Recount
  <1> QED BY <1>2, <1>3, <1>4 DEF IInv

LEMMA SetOperationInvariant ==
  ASSUME FilterAssumption, IInv, NEW f \in Filter, NEW g \in Filter,
         UnionWith(f, g) \/ Intersect(f, g) \/ Invert(f) \/ Reset(f)
  PROVE  IInv'
  <1>1. /\ bits[f] \in SUBSET Bit /\ bits[g] \in SUBSET Bit
        /\ members[f] \in SUBSET Value /\ members[g] \in SUBSET Value
        /\ Covering(f) /\ Covering(g)
    BY DEF IInv, FilterTypeOK
  <1>2. CASE UnionWith(f, g)
    <2>1. \A v \in members[f] \cup members[g] : BitsOf[setting[f]][v] \subseteq bits[f] \cup bits[g]
      BY <1>1, <1>2 DEF UnionWith, IsCompatible, Covering
    <2> QED BY <1>1, <1>2, <2>1, RecountInvariant DEF UnionWith
  <1>3. CASE Intersect(f, g)
    <2>1. \A v \in members[f] \cap members[g] : BitsOf[setting[f]][v] \subseteq bits[f] \cap bits[g]
      BY <1>1, <1>3 DEF Intersect, IsCompatible, Covering
    <2> QED BY <1>1, <1>3, <2>1, RecountInvariant DEF Intersect
  <1>4. ASSUME NEW B \in SUBSET Bit, Recount(f, B), members' = [members EXCEPT ![f] = {}]
        PROVE  IInv'
    <2>1. \A v \in {} : BitsOf[setting[f]][v] \subseteq B
      OBVIOUS
    <2>2. {} \in SUBSET Value
      OBVIOUS
    <2> QED BY <1>4, <2>1, <2>2, RecountInvariant
  <1>5. CASE Invert(f)
    BY <1>4, <1>5 DEF Invert
  <1>6. CASE Reset(f)
    BY <1>4, <1>6 DEF Reset
  <1> QED BY <1>2, <1>3, <1>5, <1>6

LEMMA BitsUsedInvariant ==
  ASSUME FilterAssumption, IInv, NEW f \in Filter, BitsUsed(f)
  PROVE  IInv'
  <1>1. Cardinality(bits[f]) \in 0 .. DIRTY_BITS_VALUE
    BY BitsFinite DEF IInv, FilterTypeOK
  <1>2. FilterTypeOK'
    BY <1>1 DEF IInv, FilterTypeOK, BitsUsed
  <1>3. ASSUME NEW g \in Filter PROVE Honest(g)'
    BY DEF IInv, FilterTypeOK, Honest, BitsUsed
  <1>4. ASSUME NEW g \in Filter PROVE Covering(g)'
    BY DEF IInv, FilterTypeOK, Covering, BitsUsed
  <1> QED BY <1>2, <1>3, <1>4 DEF IInv

\* An empty filter that did not lapse has no bits: its header is all of it.
LEMMA PayloadWhole ==
  ASSUME FilterAssumption, IInv, NEW f \in Filter, ~lapsed[f]
  PROVE  PayloadBits(f) = bits[f]
  <1>1. CASE IsEmptyFilter(f)
    <2>1. Cardinality(bits[f]) = 0
      BY <1>1 DEF IInv, Honest, IsEmptyFilter
    <2>2. bits[f] = {}
      BY <2>1, BitsFinite DEF IInv, FilterTypeOK
    <2> QED BY <1>1, <2>2 DEF PayloadBits
  <1>2. CASE ~IsEmptyFilter(f)
    BY <1>2 DEF PayloadBits
  <1> QED BY <1>1, <1>2

LEMMA RestoreInvariant ==
  ASSUME FilterAssumption, IInv, NEW g \in Filter, NEW f \in Filter, RestoreFilter(g, f)
  PROVE  IInv'
  <1>1. PayloadBits(f) \in SUBSET Bit /\ PayloadCount(f) \in 0 .. DIRTY_BITS_VALUE
    BY DEF IInv, FilterTypeOK, PayloadBits, PayloadCount, FilterAssumption
  <1>2. FilterTypeOK'
    BY <1>1 DEF IInv, FilterTypeOK, RestoreFilter
  <1>3. ASSUME NEW h \in Filter PROVE Honest(h)'
    <2>1. CASE h = g
      <3>1. PayloadCount(f) = DIRTY_BITS_VALUE \/ (PayloadCount(f) = count[f] /\ ~dirty[f])
        BY DEF PayloadCount
      <3> QED BY <2>1, <3>1, PayloadWhole DEF IInv, FilterTypeOK, Honest, RestoreFilter
    <2>2. CASE h # g
      BY <2>2 DEF IInv, FilterTypeOK, Honest, RestoreFilter
    <2> QED BY <2>1, <2>2
  <1>4. ASSUME NEW h \in Filter PROVE Covering(h)'
    <2>1. CASE h = g
      BY <2>1 DEF IInv, FilterTypeOK, Covering, RestoreFilter, PayloadBits
    <2>2. CASE h # g
      BY <2>2 DEF IInv, FilterTypeOK, Covering, RestoreFilter
    <2> QED BY <2>1, <2>2
  <1> QED BY <1>2, <1>3, <1>4 DEF IInv

LEMMA NextInvariant ==
  ASSUME FilterAssumption, IInv, [FilterNext]_filterVars
  PROVE  IInv'
  <1>1. CASE UNCHANGED filterVars
    BY <1>1 DEF filterVars, IInv, FilterTypeOK, Honest, Covering
  <1>2. CASE \E f \in Filter, v \in Value : Add(f, v) \/ QueryAndUpdate(f, v)
    BY <1>2, AddInvariant, QueryAndUpdateInvariant
  <1>3. CASE \E f, g \in Filter : UnionWith(f, g) \/ Intersect(f, g) \/ RestoreFilter(g, f)
    BY <1>3, SetOperationInvariant, RestoreInvariant
  <1>4. CASE \E f \in Filter : Invert(f) \/ Reset(f) \/ BitsUsed(f)
    BY <1>4, SetOperationInvariant, BitsUsedInvariant
  <1> QED BY <1>1, <1>2, <1>3, <1>4 DEF FilterNext

----------------------------------------------------------------------------
(* Theorems *)

\* Bits, counts and histories keep their types, members have their bits set, and
\* the count is right, dirty or known to have lapsed.
THEOREM Invariance ==
  ASSUME FilterAssumption
  PROVE  FilterSpec => []IInv
  <1>1. FilterInit => IInv
    BY InitInvariant
  <1>2. IInv /\ [FilterNext]_filterVars => IInv'
    BY NextInvariant
  <1> QED BY <1>1, <1>2, PTL DEF FilterSpec

\* The cached count is honest.
THEOREM CountsHonest ==
  ASSUME FilterAssumption
  PROVE  FilterSpec => []CountHonest
  <1>1. IInv => CountHonest
    BY DEF IInv, CountHonest, Honest
  <1> QED BY <1>1, Invariance, PTL

\* No false negatives, of filters whose count did not lapse: the empty shortcut
\* never hides a member, whose bits are at least one.
THEOREM MembersFound ==
  ASSUME FilterAssumption
  PROVE  FilterSpec => []RecognisesMembers
  <1>1. ASSUME IInv PROVE RecognisesMembers
    <2> SUFFICES ASSUME NEW f \in Filter, dirty[f] \/ ~lapsed[f], NEW v \in members[f]
                 PROVE  Query(f, v)
      BY DEF RecognisesMembers
    <2>1. v \in Value /\ BitsOf[setting[f]][v] \subseteq bits[f] /\ bits[f] \in SUBSET Bit
      BY <1>1 DEF IInv, FilterTypeOK, Covering
    <2>2. bits[f] # {}
      BY <1>1, <2>1, ItemBits DEF IInv
    <2>3. Cardinality(bits[f]) # 0
      BY <2>1, <2>2, BitsFinite
    <2>4. ~IsEmptyFilter(f)
      BY <1>1, <2>3 DEF IInv, Honest, IsEmptyFilter
    <2> QED BY <2>1, <2>4 DEF Query
  <1> QED BY <1>1, Invariance, PTL

\* A payload is the whole filter, unless its count lapsed.
THEOREM PayloadsWhole ==
  ASSUME FilterAssumption
  PROVE  FilterSpec => []FilterRestored
  <1>1. ASSUME IInv PROVE FilterRestored
    BY <1>1, PayloadWhole DEF FilterRestored
  <1> QED BY <1>1, Invariance, PTL

\* What a filter is for: its count may be trusted, members are recognised, and
\* its payload is the whole filter.
THEOREM FilterRecognisesMembers ==
  ASSUME FilterAssumption
  PROVE  FilterSpec => []MembersRecognised
  <1>1. CountHonest /\ RecognisesMembers /\ FilterRestored => MembersRecognised
    BY DEF MembersRecognised
  <1> QED BY <1>1, CountsHonest, MembersFound, PayloadsWhole, PTL
=============================================================================
