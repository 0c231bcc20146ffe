------------------------- MODULE FrequentItemsTable -------------------------
(***************************************************************************)
(* The frequent-items sketch over its real table: the counters live in a   *)
(* reverse_purge_hash_map that grows from its starting size, purges by     *)
(* deleting inside probe clusters, and is replayed into another sketch in  *)
(* the order of its strided iterator.  It implements FrequentItems.  The   *)
(* hash function is unknown: any function is chosen initially.             *)
(***************************************************************************)
EXTENDS Integers, FiniteSets, Sequences, SequencesExt

CONSTANTS
  Item, Sketch, LgSizes, LOAD_NUM, LOAD_DEN, MAX_SAMPLE_SIZE, MaxWeight,
  LG_MIN_MAP_SIZE,   \* 3 in the code
  HashValues,        \* values of fmix64(hash(key)), as far as the tables tell
  DRIFT_LIMIT

VARIABLES hash, table, offset, total_weight, call, truth, dropped

vars == <<hash, table, offset, total_weight, call, truth, dropped>>

INSTANCE ReversePurgeHashMap

Counters(t) == [i \in Item |-> Get(t, hash, i)]

FI == INSTANCE FrequentItems WITH
        MapSizes <- {2^lg : lg \in LgSizes},
        max_size <- [s \in Sketch |-> 2^table[s].lg_max],
        map <- [s \in Sketch |-> Counters(table[s])],
        call <- IF call.op = "idle" THEN call
                ELSE [call EXCEPT !.rest = ToSet(call.rest)]

Idle == [op |-> "idle"]
IsEmptySketch(s) == table[s].num_active = 0

\* The constructor: any starting size up to the largest.
Init ==
  /\ hash \in [Item -> HashValues]
  /\ \E lg \in [Sketch -> LG_MIN_MAP_SIZE..Max(LgSizes)], lgm \in [Sketch -> LgSizes] :
       /\ \A s \in Sketch : lg[s] <= lgm[s]
       /\ table = [s \in Sketch |-> EmptyTable(lg[s], lgm[s])]
  /\ offset = [s \in Sketch |-> 0]
  /\ total_weight = [s \in Sketch |-> 0]
  /\ call = Idle
  /\ truth = [s \in Sketch |-> FI!Zero]
  /\ dropped = [s \in Sketch |-> FI!NothingDropped]

Feed(s, i, w) ==
  LET r == AdjustOrInsert(table[s], hash, i, w) IN
  /\ table' = [table EXCEPT ![s] = r.table]
  /\ offset' = [offset EXCEPT ![s] = @ + r.offset]
  /\ total_weight' = [total_weight EXCEPT ![s] = @ + w]

Fits(s, w) == total_weight[s] + dropped[s].weight + w <= MaxWeight

Update(s, i, w) ==
  /\ call = Idle
  /\ w > 0
  /\ Fits(s, w)
  /\ Feed(s, i, w)
  /\ truth' = [truth EXCEPT ![s][i] = @ + w]
  /\ UNCHANGED <<hash, call, dropped>>

Absorb(s, o, lost) ==
  /\ truth' = [truth EXCEPT ![s] = FI!AddTruth(@, truth[o])]
  /\ dropped' = [dropped EXCEPT ![s] = FI!AddDropped(@, lost)]

Begin(op, s, o, total) ==
  call' = [op |-> op, to |-> s, from |-> o, rest |-> IterationOrder(table[o]),
           total |-> total]

MergeEmpty(s, o) ==
  /\ call = Idle
  /\ s # o
  /\ IsEmptySketch(o)
  /\ Fits(s, total_weight[o] + dropped[o].weight)
  /\ Absorb(s, o, FI!DroppedWith(o))
  /\ UNCHANGED <<hash, table, offset, total_weight, call>>

MergeBegin(s, o) ==
  /\ call = Idle
  /\ s # o
  /\ ~IsEmptySketch(o)
  /\ Fits(s, total_weight[o] + dropped[o].weight)
  /\ Begin("merge", s, o, total_weight[s] + total_weight[o])
  /\ UNCHANGED <<hash, table, offset, total_weight, truth, dropped>>

\* The next item of the iterator, or of the serialized sequence it produced
Replay ==
  /\ call # Idle
  /\ call.rest # <<>>
  /\ LET i == Head(call.rest)
     IN Feed(call.to, i, Get(table[call.from], hash, i))
  /\ call' = [call EXCEPT !.rest = Tail(@)]
  /\ UNCHANGED <<hash, truth, dropped>>

MergeEnd ==
  /\ call # Idle
  /\ call.op = "merge"
  /\ call.rest = <<>>
  /\ offset' = [offset EXCEPT ![call.to] = @ + offset[call.from]]
  /\ total_weight' = [total_weight EXCEPT ![call.to] = call.total]
  /\ Absorb(call.to, call.from, dropped[call.from])
  /\ call' = Idle
  /\ UNCHANGED <<hash, table>>

\* deserialize: the payload holds both table sizes
Fresh(s, o) ==
  /\ table' = [table EXCEPT ![s] = EmptyTable(table[o].lg_cur, table[o].lg_max)]
  /\ offset' = [offset EXCEPT ![s] = 0]
  /\ total_weight' = [total_weight EXCEPT ![s] = 0]

RestoreEmpty(s, o) ==
  /\ call = Idle
  /\ s # o
  /\ IsEmptySketch(o)
  /\ Fresh(s, o)
  /\ truth' = [truth EXCEPT ![s] = truth[o]]
  /\ dropped' = [dropped EXCEPT ![s] = FI!DroppedWith(o)]
  /\ UNCHANGED <<hash, call>>

RestoreBegin(s, o) ==
  /\ call = Idle
  /\ s # o
  /\ ~IsEmptySketch(o)
  /\ Fresh(s, o)
  /\ Begin("restore", s, o, total_weight[o])
  /\ UNCHANGED <<hash, truth, dropped>>

RestoreEnd ==
  /\ call # Idle
  /\ call.op = "restore"
  /\ call.rest = <<>>
  /\ offset' = [offset EXCEPT ![call.to] = offset[call.from]]
  /\ total_weight' = [total_weight EXCEPT ![call.to] = call.total]
  /\ truth' = [truth EXCEPT ![call.to] = truth[call.from]]
  /\ dropped' = [dropped EXCEPT ![call.to] = dropped[call.from]]
  /\ call' = Idle
  /\ UNCHANGED <<hash, table>>

Next ==
  \/ \E s \in Sketch, i \in Item, w \in 1..MaxWeight : Update(s, i, w)
  \/ \E s, o \in Sketch :
       \/ MergeEmpty(s, o)
       \/ MergeBegin(s, o)
       \/ RestoreEmpty(s, o)
       \/ RestoreBegin(s, o)
  \/ Replay
  \/ MergeEnd
  \/ RestoreEnd

Spec == Init /\ [][Next]_vars

----------------------------------------------------------------------------
(* Properties *)

\* The probing table is sound after every insertion, growth and purge: its
\* count is right, a slot's state is its distance from home, and no free slot
\* lies between a key and its home (or the key would be lost to get).
TableWellFormed ==
  \A s \in Sketch :
    LET t == table[s] IN
    /\ t.num_active = Cardinality({p \in SlotsOf(t) : IsActive(t, p)})
    /\ \A p \in SlotsOf(t) : IsActive(t, p) =>
         LET home == Home(t, hash, t.slot[p].key) IN
         /\ Plus(t, home, t.slot[p].state - 1) = p
         /\ \A d \in 0..t.slot[p].state - 2 : IsActive(t, Plus(t, home, d))
         /\ \A q \in SlotsOf(t) \ {p} : t.slot[q].key # t.slot[p].key \/ ~IsActive(t, q)

\* None of the table's std::logic_error throws can happen: every update leaves
\* the table within its capacity, so an insertion finds room, a purge reduced
\* the count, and no drift reaches DRIFT_LIMIT.
NoLogicError ==
  \A s \in Sketch :
    /\ table[s].num_active <= TableCapacity(table[s].lg_cur)
    /\ \A p \in SlotsOf(table[s]) : table[s].slot[p].state < DRIFT_LIMIT

\* The table is invisible: through get it behaves as the counters of
\* FrequentItems, with purges subtracting a sampled median, and growth showing
\* nothing.
ImplementsFrequentItems == FI!Spec
============================================================================
