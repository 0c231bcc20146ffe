----------------------------- MODULE HLLTables -----------------------------
(***************************************************************************)
(* The two open-addressing tables of HLL, which HLL sees as a map and as a *)
(* set: the exceptions of a 4-bit array by slot, and the coupons of a      *)
(* sketch before it has an array.  A search steps by an odd stride that    *)
(* depends on the key and on the size, so a table that grows moves all.    *)
(***************************************************************************)
EXTENDS Integers, Sequences, SequencesExt, FiniteSetsExt

CONSTANTS
  Address,      \* the slots of the array, and the address bits of the coupons
  Exceptional,  \* the values that come as exceptions
  Coupon,       \* pairs of an address and a value
  AUX_SIZE,     \* 2^LG_AUX_ARR_INTS[lgConfigK]
  SET_SIZE,     \* 2^LG_INIT_SET_SIZE
  MAX_SET_SIZE  \* 2^(lgConfigK - 3)

VARIABLES
  entries,     \* AuxHashMap: by place from 0, a pair of slot and value or EMPTY
  auxCount,
  least,       \* the least value that is an exception, curMin + AUX_TOKEN
  exceptions,  \* history: the exceptions by slot
  coupons,     \* CouponHashSet: by place from 0, a coupon or EMPTY
  couponCount,
  came         \* history: the coupons that came since the set was made

auxVars == <<entries, auxCount, least, exceptions>>
setVars == <<coupons, couponCount, came>>

EMPTY == <<>>

HLLTablesAssumption ==
  /\ Address \subseteq Nat /\ Exceptional \subseteq Nat
  /\ Coupon \subseteq Address \X Nat
  /\ \E n, s, m \in 0 .. 26 :
       AUX_SIZE = 2^n /\ SET_SIZE = 2^s /\ MAX_SET_SIZE = 2^m /\ s <= m

----------------------------------------------------------------------------
(* Probing *)

NewTable(size) == [i \in 0 .. size - 1 |-> EMPTY]
Size(t) == Cardinality(DOMAIN t)
Full(t) == {i \in DOMAIN t : t[i] # EMPTY}
InOrder(t) == SelectSeq([i \in 1 .. Size(t) |-> t[i - 1]], LAMBDA e : e # EMPTY)

\* The first place on the way of an address that is free or holds one of the
\* sought; NONE: back where it began, which throws
NONE == -1

Find(t, address, sought) ==
  LET size == Size(t)
      high == address \div size
      stride == IF high % 2 = 0 THEN high + 1 ELSE high
      way(n) == (address + n * stride) % size
      ends == {n \in 0 .. size - 1 : t[way(n)] \in {EMPTY} \cup sought}
  IN IF ends = {} THEN NONE ELSE way(Min(ends))

\* The exceptions are found by slot, whatever value is with it.
FindSlot(t, slot) == Find(t, slot, {slot} \X Exceptional)
FindCoupon(t, c) == Find(t, c[1], {c})

Crowded(n, t) == 4 * n > 3 * Size(t)

----------------------------------------------------------------------------
(* AuxHashMap *)

GrowAuxSpace(t) ==
  FoldLeft(LAMBDA u, e : [u EXCEPT ![FindSlot(u, e[1])] = e],
           NewTable(2 * Size(t)), InOrder(t))

\* The table after mustAdd; what counts its entries is the table itself.
MustAdd(t, e) ==
  LET added == [t EXCEPT ![FindSlot(t, e[1])] = e] IN
  IF Crowded(Cardinality(Full(added)), added) THEN GrowAuxSpace(added) ELSE added

ComputeSize(n) ==
  LET power == CHOOSE p \in {2^i : i \in 0 .. 26} : n <= p /\ p < 2 * n
  IN Max({AUX_SIZE, IF 4 * n > 3 * power THEN 2 * power ELSE power})

AuxInit ==
  /\ entries = NewTable(AUX_SIZE) /\ auxCount = 0
  /\ least = Min(Exceptional) /\ exceptions = [s \in {} |-> 0]

\* A greater value for a slot whose value is an exception, or becomes one.  The map
\* is made at the first of them; here an empty table stands for none.
Except(slot, value) ==
  LET place == FindSlot(entries, slot) IN
  /\ value >= least
  /\ exceptions' = [s \in DOMAIN exceptions \cup {slot} |->
                      IF s = slot THEN value ELSE exceptions[s]]
  /\ \/ /\ slot \in DOMAIN exceptions /\ value > exceptions[slot]
        /\ place # NONE /\ entries[place] # EMPTY
        /\ entries' = [entries EXCEPT ![place] = <<slot, value>>]
        /\ UNCHANGED auxCount
     \/ /\ slot \notin DOMAIN exceptions
        /\ place # NONE /\ entries[place] = EMPTY
        /\ entries' = MustAdd(entries, <<slot, value>>)
        /\ auxCount' = auxCount + 1
  /\ UNCHANGED least

\* shiftToBiggerCurMin: a new map of the exceptions that remain
Shift ==
  LET remain == SelectSeq(InOrder(entries), LAMBDA e : e[2] > least) IN
  /\ least < Max(Exceptional)
  /\ least' = least + 1
  /\ exceptions' = Restrict(exceptions, {s \in DOMAIN exceptions : exceptions[s] > least})
  /\ entries' = FoldLeft(MustAdd, NewTable(AUX_SIZE), remain)
  /\ auxCount' = Len(remain)

\* A payload carries the entries in the order of the places, the size is computed.
ReloadAux ==
  LET written == InOrder(entries) IN
  /\ written # <<>>
  /\ entries' = FoldLeft(MustAdd, NewTable(ComputeSize(Len(written))), written)
  /\ auxCount' = Len(written)
  /\ UNCHANGED <<least, exceptions>>

AuxNext ==
  \/ \E slot \in Address, value \in Exceptional : Except(slot, value)
  \/ Shift
  \/ ReloadAux

----------------------------------------------------------------------------
(* CouponHashSet *)

GrowHashSet(t) ==
  FoldLeft(LAMBDA u, c : [u EXCEPT ![FindCoupon(u, c)] = c],
           NewTable(2 * Size(t)), InOrder(t))

\* couponUpdate short of the promotion: a table at its greatest size is left to it.
CouponUpdate(t, c) ==
  LET place == FindCoupon(t, c)
      added == [t EXCEPT ![place] = c]
  IN IF Crowded(Cardinality(Full(added)), added) /\ Size(t) < MAX_SET_SIZE
     THEN GrowHashSet(added) ELSE added

SetInit ==
  coupons = NewTable(SET_SIZE) /\ couponCount = 0 /\ came = {}

\* A set that is crowded at its greatest size becomes an array; another set begins.
Collect(c) ==
  LET place == FindCoupon(coupons, c)
      more == couponCount + 1
  IN /\ place # NONE
     /\ \/ coupons[place] = c /\ came' = came \cup {c} /\ UNCHANGED <<coupons, couponCount>>
        \/ /\ coupons[place] = EMPTY
           /\ IF Crowded(more, coupons) /\ Size(coupons) = MAX_SET_SIZE
              THEN coupons' = NewTable(SET_SIZE) /\ couponCount' = 0 /\ came' = {}
              ELSE /\ coupons' = CouponUpdate(coupons, c)
                   /\ couponCount' = more /\ came' = came \cup {c}

\* A payload carries the coupons in the order of the places; the set that reads it
\* begins at its first size and grows.
ReloadSet ==
  /\ coupons' = FoldLeft(CouponUpdate, NewTable(SET_SIZE), InOrder(coupons))
  /\ UNCHANGED <<couponCount, came>>

SetNext == (\E c \in Coupon : Collect(c)) \/ ReloadSet

----------------------------------------------------------------------------
(* Properties *)

\* Whatever replaced, grew, dropped or restored them, the exceptions are found by
\* their slots with their last values, no slot twice, and a search for another slot
\* ends at a free place.
ExceptionsFound ==
  /\ auxCount = Cardinality(Full(entries)) /\ auxCount = Cardinality(DOMAIN exceptions)
  /\ \A slot \in Address :
       LET place == FindSlot(entries, slot) IN
       /\ place # NONE
       /\ entries[place] = IF slot \in DOMAIN exceptions
                           THEN <<slot, exceptions[slot]>> ELSE EMPTY

\* The coupons that came are in the set, once each, and a search for another ends.
CouponsFound ==
  /\ {coupons[i] : i \in Full(coupons)} = came
  /\ couponCount = Cardinality(Full(coupons)) /\ couponCount = Cardinality(came)
  /\ \A c \in Coupon :
       LET place == FindCoupon(coupons, c) IN
       place # NONE /\ coupons[place] = IF c \in came THEN c ELSE EMPTY
=============================================================================
