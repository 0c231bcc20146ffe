--------------------------------- MODULE HLL ---------------------------------
(***************************************************************************)
(* The HyperLogLog sketch.  An item is hashed to a coupon, an address and  *)
(* a value.  A sketch keeps the coupons themselves, first in a LIST, then  *)
(* in a hash SET, and is at last promoted to an array of 2^lgK registers,  *)
(* each the greatest value of the coupons whose address ends in its slot.  *)
(* HLL_4 stores a register as its excess over curMin, and the registers    *)
(* that do not fit in an exceptions map.  Two sketches are merged through  *)
(* a union whose gadget is an HLL_8 sketch.                                *)
(*                                                                         *)
(* Reals: kxq0 and kxq1 are scaled by 2^MAX_VALUE; of the HIP accumulator  *)
(* only whether it is positive is kept.  The order in which a table is     *)
(* walked is left open.                                                    *)
(***************************************************************************)
EXTENDS Integers, FiniteSets, FiniteSetsExt, Functions

CONSTANTS
  HllSketch,          \* R objects
  Coupon,             \* <<address, value>>: the coupons of the stream
  Config,             \* <<lgK, type>>: the configurations sketches start with
  LG_INIT_LIST_SIZE, LG_INIT_SET_SIZE,
  MIN_SET_LG_K,       \* narrower sketches skip the SET (8)
  SET_MARGIN,         \* a SET has at most 2^(lgK - SET_MARGIN) places (3)
  AUX_TOKEN,          \* the stored value of an exception (15)
  SPLIT,              \* values from here on are summed in kxq1 (32)
  MAX_VALUE           \* the greatest value of a coupon (63)

HllTypes == {"HLL_4", "HLL_6", "HLL_8"}

ASSUME HLLAssumption ==
  /\ Coupon \subseteq Nat \X (1..MAX_VALUE)
  /\ Config \subseteq (Nat \ {0}) \X HllTypes
  /\ {LG_INIT_LIST_SIZE, LG_INIT_SET_SIZE, MIN_SET_LG_K, SET_MARGIN, SPLIT, MAX_VALUE} \subseteq Nat
  /\ AUX_TOKEN \in Nat \ {0, 1} /\ SPLIT # 0
  /\ LG_INIT_LIST_SIZE <= LG_INIT_SET_SIZE /\ LG_INIT_SET_SIZE + SET_MARGIN <= MIN_SET_LG_K

VARIABLES
  hll,   \* the sketches
  seen,  \* history: by address, the greatest value a sketch has absorbed
  mixed  \* history: the sketches whose registers come from two arrays

hllVars == <<hll, seen, mixed>>

\* 1 << e
Power2(e) == LET p[i \in 0..e] == IF i = 0 THEN 1 ELSE 2 * p[i - 1] IN p[e]

Addr == {c[1] : c \in Coupon}
Slots(k) == 0..(Power2(k) - 1)
Inverse2(v) == Power2(MAX_VALUE - v)

----------------------------------------------------------------------------
(* New objects *)

NewList(k, type) ==
  [mode |-> "LIST", lgK |-> k, type |-> type, coupons |-> {}, lgArr |-> LG_INIT_LIST_SIZE,
   array |-> <<>>, aux |-> <<>>, curMin |-> 0, numAtCurMin |-> 0, kxq0 |-> 0, kxq1 |-> 0,
   hip |-> FALSE, ooo |-> FALSE, rebuild |-> FALSE, err |-> FALSE]

NewSet(k, type) == [NewList(k, type) EXCEPT !.mode = "SET", !.lgArr = LG_INIT_SET_SIZE]

NewArray(k, type) ==
  [NewList(k, type) EXCEPT !.mode = "HLL", !.lgArr = 0, !.array = [s \in Slots(k) |-> 0],
                           !.numAtCurMin = Power2(k), !.kxq0 = Power2(k) * Inverse2(0)]

Throw(h) == [h EXCEPT !.err = TRUE]

IsEmpty(h) ==
  IF h.mode = "HLL" THEN h.curMin = 0 /\ h.numAtCurMin = Power2(h.lgK) ELSE h.coupons = {}

----------------------------------------------------------------------------
(* Registers *)

Tokens(h) == IF h.type = "HLL_4" THEN {s \in DOMAIN h.array : h.array[s] = AUX_TOKEN} ELSE {}

\* An exception that is in the array but not in the map: mustFindValueFor throws.
Lost(h) == Tokens(h) \ DOMAIN h.aux

ValueOf(h, s) ==
  IF s \in Tokens(h) \cap DOMAIN h.aux THEN h.aux[s] ELSE h.array[s] + h.curMin

\* A register's share of kxq0 or kxq1
Share(v, low, high) == IF v \in low..high THEN Inverse2(v) ELSE 0

\* hipAndKxQIncrementalUpdate
KxQ(h, old, new) ==
  LET Change(low, high) == Share(new, low, high) - Share(old, low, high)
  IN [h EXCEPT !.hip = @ \/ ~h.ooo,
               !.kxq0 = @ + Change(0, SPLIT - 1), !.kxq1 = @ + Change(SPLIT, MAX_VALUE)]

Update8(h, c) ==
  LET s == c[1] % Power2(h.lgK)
      old == h.array[s]
  IN IF c[2] <= old THEN h
     ELSE [KxQ(h, old, c[2]) EXCEPT !.array[s] = c[2],
                                    !.numAtCurMin = IF old = 0 THEN @ - 1 ELSE @]

\* The register of slot s becomes v, more than it was.
Stored(h, s, v) ==
  LET shifted == v - h.curMin IN
  CASE shifted < AUX_TOKEN /\ s \in Tokens(h) -> h
    [] shifted < AUX_TOKEN /\ s \notin Tokens(h) -> [h EXCEPT !.array[s] = shifted]
    [] shifted >= AUX_TOKEN /\ s \in Tokens(h) -> [h EXCEPT !.aux[s] = v]
    [] OTHER -> IF s \in DOMAIN h.aux THEN Throw(h)
                ELSE [h EXCEPT !.array[s] = AUX_TOKEN,
                               !.aux = [i \in {s} \cup DOMAIN @ |-> IF i = s THEN v ELSE @[i]]]

ShiftIsSound(h, released) ==
  /\ \A s \in DOMAIN h.array : h.array[s] # 0
  /\ Tokens(h) # {} => h.aux # <<>>
  /\ \A s \in DOMAIN h.aux : h.aux[s] > h.curMin /\ s \in Tokens(h)
  /\ \A s \in released : h.aux[s] - h.curMin = AUX_TOKEN
  /\ released # DOMAIN h.aux => DOMAIN h.aux \ released = Tokens(h) \ released

ShiftToBiggerCurMin_KeepsReleased(h) ==
  LET released == {s \in DOMAIN h.aux : h.aux[s] - (h.curMin + 1) < AUX_TOKEN}
      lowered == [s \in DOMAIN h.array |->
                    IF s \in Tokens(h) \ released THEN AUX_TOKEN ELSE h.array[s] - 1]
  IN IF ~ShiftIsSound(h, released) THEN Throw(h)
     ELSE [h EXCEPT !.curMin = @ + 1, !.array = lowered,
                    !.numAtCurMin = Cardinality({s \in DOMAIN lowered : lowered[s] = 0})]

ShiftToBiggerCurMin(h) ==
  LET released == {s \in DOMAIN h.aux : h.aux[s] - (h.curMin + 1) < AUX_TOKEN}
      kept == DOMAIN h.aux \ released
      lowered == [s \in DOMAIN h.array |->
                    IF s \in Tokens(h) \ released THEN AUX_TOKEN ELSE h.array[s] - 1]
  IN IF ~ShiftIsSound(h, released) THEN Throw(h)
     ELSE [h EXCEPT !.curMin = @ + 1, !.array = lowered,
                    !.aux = [s \in kept |-> h.aux[s]],
                    !.numAtCurMin = Cardinality({s \in DOMAIN lowered : lowered[s] = 0})]

ShiftWhileNoneAtCurMin(h) ==
  LET turns[n \in 0..MAX_VALUE] ==
        IF n = 0 THEN h
        ELSE LET g == turns[n - 1] IN
             IF g.numAtCurMin = 0 /\ ~g.err THEN ShiftToBiggerCurMin(g) ELSE g
  IN turns[MAX_VALUE]

Update4(h, c) ==
  LET s == c[1] % Power2(h.lgK)
      old == ValueOf(h, s)
      g == Stored(KxQ(h, old, c[2]), s, c[2])
  IN IF c[2] <= h.curMin \/ c[2] <= h.array[s] + h.curMin THEN h
     ELSE CASE s \in Lost(h) -> Throw(h)
            [] s \notin Lost(h) /\ c[2] <= old -> h
            [] s \notin Lost(h) /\ c[2] > old /\ old # h.curMin -> g
            [] OTHER -> ShiftWhileNoneAtCurMin([g EXCEPT !.numAtCurMin = @ - 1])

ArrayUpdate(h, c) ==
  CASE h.err -> h
    [] ~h.err /\ h.type = "HLL_4" -> Update4(h, c)
    [] OTHER -> Update8(h, c)

ArrayUpdates(h, C) == FoldSet(LAMBDA c, g : ArrayUpdate(g, c), h, C)

----------------------------------------------------------------------------
(* Coupons *)

Crowded(h) == 4 * Cardinality(h.coupons) > 3 * Power2(h.lgArr)

\* A coupon put into the SET, whose table may grow.
Inserted(h, c) ==
  LET g == [h EXCEPT !.coupons = @ \cup {c}]
  IN IF c \notin h.coupons /\ Crowded(g) /\ g.lgArr # g.lgK - SET_MARGIN
     THEN [g EXCEPT !.lgArr = @ + 1] ELSE g

Insertions(h, C) == FoldSet(LAMBDA c, g : Inserted(g, c), h, C)

PromoteListToSet(list) == Insertions(NewSet(list.lgK, list.type), list.coupons)

PromoteListOrSetToHll(src) ==
  [ArrayUpdates(NewArray(src.lgK, src.type), src.coupons)
     EXCEPT !.hip = src.coupons # {}, !.ooo = FALSE]

ListUpdate(h, c) ==
  LET g == [h EXCEPT !.coupons = @ \cup {c}]
  IN IF c \in h.coupons \/ Cardinality(g.coupons) < Power2(LG_INIT_LIST_SIZE) THEN g
     ELSE IF h.lgK < MIN_SET_LG_K THEN PromoteListOrSetToHll(g)
     ELSE PromoteListToSet(g)

SetUpdate(h, c) ==
  LET g == Inserted(h, c)
  IN IF c \notin h.coupons /\ Crowded(g) THEN PromoteListOrSetToHll(g) ELSE g

CouponUpdate(h, c) ==
  CASE h.mode = "HLL" -> ArrayUpdate(h, c)
    [] h.mode = "LIST" -> ListUpdate(h, c)
    [] h.mode = "SET" -> SetUpdate(h, c)

CouponUpdates(h, C) == FoldSet(LAMBDA c, g : CouponUpdate(g, c), h, C)

----------------------------------------------------------------------------
(* Copies and unions *)

\* The array rebuilt in another type by replaying its registers as coupons.
Convert(h, type) ==
  LET filled == {s \in DOMAIN h.array : ValueOf(h, s) # 0}
      g == ArrayUpdates([NewArray(h.lgK, type) EXCEPT !.ooo = h.ooo],
                        {<<s, ValueOf(h, s)>> : s \in filled})
  IN [g EXCEPT !.numAtCurMin = IF type = "HLL_4" THEN @ ELSE Power2(h.lgK) - Cardinality(filled),
               !.hip = h.hip, !.err = @ \/ h.err \/ Lost(h) # {}]

CopyAs_IgnoresRebuild(h, type) ==
  CASE h.mode # "HLL" -> [h EXCEPT !.type = type]
    [] h.mode = "HLL" /\ h.type = type -> h
    [] OTHER -> Convert(h, type)

CopyAs(h, type) ==
  CASE h.mode # "HLL" -> [h EXCEPT !.type = type]
    [] h.mode = "HLL" /\ h.type = type /\ ~h.rebuild -> h
    [] OTHER -> Convert(h, type)

MergeHll_Unmasked(dst, src) ==
  [dst EXCEPT !.array = [s \in DOMAIN dst.array |->
                           IF s \in DOMAIN src.array THEN Max({dst.array[s], ValueOf(src, s)}) ELSE dst.array[s]],
              !.rebuild = TRUE, !.err = @ \/ src.err \/ Lost(src) # {}]

\* The greater register per slot; kxq0, kxq1 and numAtCurMin are left for a rebuild.
MergeHll(dst, src) ==
  [dst EXCEPT !.array = [s \in DOMAIN dst.array |->
                           Max({dst.array[s]} \cup
                               {ValueOf(src, i) : i \in {j \in DOMAIN src.array : j % Power2(dst.lgK) = s}})],
              !.rebuild = TRUE, !.err = @ \/ src.err \/ Lost(src) # {}]

CopyOrDownsample(src, k) ==
  IF src.lgK <= k THEN CopyAs(src, "HLL_8")
  ELSE [MergeHll(NewArray(k, "HLL_8"), src) EXCEPT !.hip = src.hip, !.ooo = src.ooo]

UnionCoupons(g, src) ==
  IF IsEmpty(g) /\ src.lgK = g.lgK THEN CopyAs(src, "HLL_8")
  ELSE CouponUpdates(g, src.coupons)

UnionArrays_NoDownsample(g, src) == [MergeHll(g, src) EXCEPT !.ooo = TRUE, !.hip = FALSE]

UnionArrays_InOrder(g, src) ==
  MergeHll(IF src.lgK < g.lgK THEN CopyOrDownsample(g, src.lgK) ELSE g, src)

UnionArrays(g, src) ==
  [MergeHll(IF src.lgK < g.lgK THEN CopyOrDownsample(g, src.lgK) ELSE g, src)
     EXCEPT !.ooo = TRUE, !.hip = FALSE]

UnionImpl(g, src, lgMaxK) ==
  CASE src.mode # "HLL" -> UnionCoupons(g, src)
    [] src.mode = "HLL" /\ IsEmpty(g) -> CopyOrDownsample(src, lgMaxK)
    [] src.mode = "HLL" /\ ~IsEmpty(g) /\ g.mode # "HLL" ->
         ArrayUpdates(CopyOrDownsample(src, lgMaxK), g.coupons)
    [] OTHER -> UnionArrays(g, src)

UnionUpdate(g, src, lgMaxK) == IF IsEmpty(src) THEN g ELSE UnionImpl(g, src, lgMaxK)

Merged(h, other) ==
  LET lgMaxK == Max({h.lgK, other.lgK})
      first == UnionUpdate(NewList(lgMaxK, "HLL_8"), h, lgMaxK)
  IN CopyAs(UnionUpdate(first, other, lgMaxK), h.type)

Restored_NoKxQ1(h) ==
  CASE h.mode = "LIST" -> h
    [] h.mode = "SET" -> Insertions(NewSet(h.lgK, h.type), h.coupons)
    [] h.mode = "HLL" -> [h EXCEPT !.hip = @ /\ ~h.ooo, !.rebuild = FALSE, !.kxq1 = 0]

\* deserialize(serialize_compact()).  The aux map is read back pair by pair.
Restored(h) ==
  CASE h.mode = "LIST" -> h
    [] h.mode = "SET" -> Insertions(NewSet(h.lgK, h.type), h.coupons)
    [] h.mode = "HLL" ->
         [h EXCEPT !.hip = @ /\ ~h.ooo, !.rebuild = FALSE]

----------------------------------------------------------------------------
(* R operations *)

Greater(f, g) == [a \in Addr |-> Max({f[a], g[a]})]

HllInit ==
  /\ hll \in [HllSketch -> {NewList(cfg[1], cfg[2]) : cfg \in Config}]
  /\ seen = [s \in HllSketch |-> [a \in Addr |-> 0]]
  /\ mixed = {}

HllUpdate(s, c) ==
  /\ hll' = [hll EXCEPT ![s] = CouponUpdate(@, c)]
  /\ seen' = [seen EXCEPT ![s][c[1]] = Max({@, c[2]})]
  /\ UNCHANGED mixed

\* R refuses to merge a sketch into itself.
HllMerge(s, other) ==
  /\ s # other
  /\ hll' = [hll EXCEPT ![s] = Merged(@, hll[other])]
  /\ seen' = [seen EXCEPT ![s] = Greater(@, seen[other])]
  /\ mixed' = IF other \in mixed \/ (hll[s].mode = "HLL" /\ hll[other].mode = "HLL")
              THEN mixed \cup {s} ELSE mixed

\* t <- hll(bytes = s$serialize())
HllRestore(s, t) ==
  /\ hll' = [hll EXCEPT ![t] = Restored(hll[s])]
  /\ seen' = [seen EXCEPT ![t] = seen[s]]
  /\ mixed' = IF s \in mixed THEN mixed \cup {t} ELSE mixed \ {t}

HllNext ==
  \/ \E s \in HllSketch, c \in Coupon : HllUpdate(s, c)
  \/ \E s, other \in HllSketch : HllMerge(s, other) \/ HllRestore(s, other)

HllSpec == HllInit /\ [][HllNext]_hllVars

----------------------------------------------------------------------------
(* Properties *)

HllTypeOK ==
  \A s \in HllSketch : LET h == hll[s] IN
    /\ h.mode \in {"LIST", "SET", "HLL"} /\ h.type \in HllTypes
    /\ h.lgK \in {cfg[1] : cfg \in Config} /\ h.coupons \subseteq Coupon
    /\ h.mode = "HLL" => h.array \in [Slots(h.lgK) -> 0..MAX_VALUE]
    /\ h.type = "HLL_4" => \A i \in DOMAIN h.array : h.array[i] <= AUX_TOKEN
    /\ DOMAIN h.aux \subseteq DOMAIN h.array
    /\ seen[s] \in [Addr -> 0..MAX_VALUE]

Absorbed(s, k, slot) == Max({0} \cup {seen[s][a] : a \in {b \in Addr : b % Power2(k) = slot}})

\* Whatever the types, widths and modes of the sketches that were merged into
\* it, a register is the greatest value absorbed at its addresses, a LIST or a
\* SET has lost no coupon that matters, and a sketch is empty only if it has
\* absorbed nothing.
RegistersExact ==
  \A s \in HllSketch : LET h == hll[s] IN
    /\ IsEmpty(h) <=> \A a \in Addr : seen[s][a] = 0
    /\ IF h.mode = "HLL" THEN \A i \in Slots(h.lgK) : ValueOf(h, i) = Absorbed(s, h.lgK, i)
       ELSE \A a \in Addr :
              seen[s][a] = Max({0} \cup {c[2] : c \in {d \in h.coupons : d[1] = a}})

KxQOver(h, low, high) ==
  SumFunction([i \in Slots(h.lgK) |-> Share(ValueOf(h, i), low, high)])

\* The incremental summaries agree with the registers: curMin and the count of
\* slots at it, the two sums of inverse powers, and the exceptions map.  None of
\* the throws of the array code is reached: an exception that the map lost or
\* holds twice, a shift of curMin over an empty slot or over entries that
\* disagree with the array.  No sketch in R's hands still waits for a rebuild.
SummariesExact ==
  \A s \in HllSketch : LET h == hll[s] IN ~h.err /\ (h.mode = "HLL" =>
    LET values == {ValueOf(h, i) : i \in Slots(h.lgK)} IN
    /\ h.curMin = IF h.type = "HLL_4" THEN Min(values) ELSE 0
    /\ h.numAtCurMin = Cardinality({i \in Slots(h.lgK) : ValueOf(h, i) = h.curMin})
    /\ h.kxq0 = KxQOver(h, 0, SPLIT - 1) /\ h.kxq1 = KxQOver(h, SPLIT, MAX_VALUE)
    /\ DOMAIN h.aux = Tokens(h)
    /\ \A i \in DOMAIN h.aux : h.aux[i] - h.curMin >= AUX_TOKEN
    /\ ~h.rebuild)

\* getEstimate returns the HIP accumulator unless the out-of-order flag is up.
\* The accumulator counts the changes of one array, so the flag is up exactly
\* when registers of two arrays were put together, and the accumulator is
\* positive exactly when the flag is down, whichever promotions, conversions,
\* merges and restores a sketch went through.
HipOnlyInOrder ==
  \A s \in HllSketch : hll[s].mode = "HLL" =>
    (hll[s].ooo <=> s \in mixed) /\ (hll[s].hip <=> ~hll[s].ooo)

Answers(h) ==
  [mode |-> h.mode, lgK |-> h.lgK, ooo |-> h.ooo, empty |-> IsEmpty(h), coupons |-> h.coupons,
   values |-> [i \in DOMAIN h.array |-> ValueOf(h, i)]]

\* Which of two sketches receives the other does not change what the result
\* holds, its width or its estimator: only its type is the receiver's.
MergeCommutes ==
  \A s, other \in HllSketch :
    Answers(Merged(hll[s], hll[other])) = Answers(Merged(hll[other], hll[s]))

\* A sketch restored from its bytes is the sketch that was written.
HllRestored == \A s \in HllSketch : Restored(hll[s]) = hll[s]
=============================================================================
