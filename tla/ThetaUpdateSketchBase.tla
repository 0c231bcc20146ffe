----------------------- MODULE ThetaUpdateSketchBase -----------------------
(***************************************************************************)
(* theta_update_sketch_base: an open-addressing table of hashes with       *)
(* double hashing (an odd stride taken from the bits above the index).     *)
(* The table grows by the resize factor while it is at most half full, up  *)
(* to twice the nominal size, and is then rebuilt: the nominal number of   *)
(* smallest hashes stays and the next one becomes theta.  A table is a     *)
(* record; a method is an operator.  What std::nth_element leaves          *)
(* unspecified makes the methods that may rebuild set-valued.              *)
(***************************************************************************)
EXTENDS Integers, FiniteSets, Sequences, SequencesExt

CONSTANTS
  MAX_THETA,
  MIN_LG_K,        \* 5 in the code
  RESIZE_FACTOR    \* log2 of the factor the tables of sketches and unions grow by

STRIDE_MASK == 127

NewTable(lg_cur, lg_nom, rf, theta, empty) ==
  [lg_cur |-> lg_cur, lg_nom |-> lg_nom, rf |-> rf, theta |-> theta, empty |-> empty,
   num |-> 0, slot |-> [p \in 0..2^lg_cur - 1 |-> 0]]

\* starting_sub_multiple
StartingLgSize(lg_nom) ==
  IF lg_nom + 1 <= MIN_LG_K THEN MIN_LG_K
  ELSE IF RESIZE_FACTOR = 0 THEN lg_nom + 1
  ELSE ((lg_nom + 1 - MIN_LG_K) % RESIZE_FACTOR) + MIN_LG_K

\* The builder, for sketches and for unions; the sampling probability is 1.
Build(lg_k) == NewTable(StartingLgSize(lg_k), lg_k, RESIZE_FACTOR, MAX_THETA, TRUE)

\* RESIZE_THRESHOLD 1/2 while the table can grow, then REBUILD_THRESHOLD 15/16.
GetCapacity(lg_cur, lg_nom) ==
  IF lg_cur <= lg_nom THEN 2^lg_cur \div 2 ELSE (15 * 2^lg_cur) \div 16

GetStride(key, lg) == 2 * ((key \div 2^lg) % (STRIDE_MASK + 1)) + 1

\* The slot where the search for key ends: it holds the key or is free.
Find(slot, lg, key) ==
  LET At(d) == (key + d * GetStride(key, lg)) % 2^lg
      d == CHOOSE d \in 0..2^lg - 1 :
             /\ slot[At(d)] \in {0, key}
             /\ \A c \in 0..d - 1 : slot[At(c)] \notin {0, key}
  IN At(d)

Holds(t, key) == t.slot[Find(t.slot, t.lg_cur, key)] = key
Place(slot, lg, key) == [slot EXCEPT ![Find(slot, lg, key)] = key]

KeysOf(t) == {t.slot[p] : p \in DOMAIN t.slot} \ {0}

KeysInOrder(t) ==
  SelectSeq([j \in 1..2^t.lg_cur |-> t.slot[j - 1]], LAMBDA key : key # 0)

\* Place the keys one after the other in a free table of size 2^lg.
PlaceAll(keys, lg) ==
  FoldLeft(LAMBDA slot, key : Place(slot, lg, key), [p \in 0..2^lg - 1 |-> 0], keys)

SmallerOf(x, y) == IF x < y THEN x ELSE y

Resize(t) ==
  LET lg_new == SmallerOf(t.lg_cur + t.rf, t.lg_nom + 1) IN
  [t EXCEPT !.lg_cur = lg_new, !.slot = PlaceAll(KeysInOrder(t), lg_new)]

\* The nominal number of smallest keys and the key that follows them.
Smallest(keys, n) == {key \in keys : Cardinality({k \in keys : k < key}) < n}
Nth(keys, n) == CHOOSE key \in keys : Cardinality({k \in keys : k < key}) = n

Rebuilds_InPlace(t) ==
  LET nominal == 2^t.lg_nom
      nth == Nth(KeysOf(t), nominal)
  IN {[t EXCEPT !.theta = nth, !.num = nominal,
                !.slot = [p \in DOMAIN @ |-> IF @[p] < nth THEN @[p] ELSE 0]]}

\* nth_element leaves the smaller keys in any order.
Rebuilds(t) ==
  LET nominal == 2^t.lg_nom
      keys == KeysOf(t)
  IN {[t EXCEPT !.theta = Nth(keys, nominal), !.num = nominal,
                !.slot = PlaceAll(order, t.lg_cur)] :
        order \in SetToSeqs(Smallest(keys, nominal))}

Inserts(t, key) ==
  LET u == [t EXCEPT !.slot = Place(@, t.lg_cur, key), !.num = @ + 1] IN
  IF u.num <= GetCapacity(u.lg_cur, u.lg_nom) THEN {u}
  ELSE IF u.lg_cur <= u.lg_nom THEN {Resize(u)}
  ELSE Rebuilds(u)

InsertsAbsent(t, key) == IF Holds(t, key) THEN {t} ELSE Inserts(t, key)

\* update(value), for the value's hash
TableUpdates(t, key) ==
  LET u == [t EXCEPT !.empty = FALSE] IN
  IF key >= t.theta THEN {u} ELSE InsertsAbsent(u, key)

\* lg_size_from_count at the rebuild threshold
LgOf(n) == CHOOSE lg \in 0..n : 2^lg <= n /\ n < 2^(lg + 1)
LgSizeFromCount(n) ==
  LgOf(n) + (IF n > (15 * 2^(LgOf(n) + 1)) \div 16 THEN 2 ELSE 1)
============================================================================
