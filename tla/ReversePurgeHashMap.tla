------------------------ MODULE ReversePurgeHashMap ------------------------
(***************************************************************************)
(* reverse_purge_hash_map: a power-of-two table with linear probing.  The  *)
(* state of a slot is 0 when it is free and otherwise one more than the    *)
(* distance of its key from the key's home slot.  A table is a record; the *)
(* operators below are the methods that read or rebuild it.                *)
(***************************************************************************)
EXTENDS Integers, Sequences, SequencesExt

CONSTANTS LOAD_NUM, LOAD_DEN, MAX_SAMPLE_SIZE

Size(t) == 2^t.lg_cur
SlotsOf(t) == 0..Size(t) - 1
TableCapacity(lg) == (LOAD_NUM * 2^lg) \div LOAD_DEN

NoKey == "free"
Free == [key |-> NoKey, value |-> 0, state |-> 0]

EmptyTable(lg_cur, lg_max) ==
  [lg_cur |-> lg_cur, lg_max |-> lg_max, num_active |-> 0,
   slot |-> [p \in 0..2^lg_cur - 1 |-> Free]]

IsActive(t, p) == t.slot[p].state > 0
Home(t, hash, k) == hash[k] % Size(t)
Plus(t, p, d) == (p + d) % Size(t)

\* Where linear probing for k stops, as a distance from home: at the slot that
\* holds k or at the first free one.
Distance(t, hash, k) ==
  LET home == Home(t, hash, k)
      Stops(d) == LET e == t.slot[Plus(t, home, d)] IN e.state = 0 \/ e.key = k
  IN CHOOSE d \in SlotsOf(t) : Stops(d) /\ \A c \in 0..d - 1 : ~Stops(c)

Get(t, hash, k) == t.slot[Plus(t, Home(t, hash, k), Distance(t, hash, k))].value

InternalAdjustOrInsert(t, hash, k, v) ==
  LET d == Distance(t, hash, k)
      p == Plus(t, Home(t, hash, k), d)
  IN IF IsActive(t, p) THEN [t EXCEPT !.slot[p].value = @ + v]
     ELSE [t EXCEPT !.slot[p] = [key |-> k, value |-> v, state |-> d + 1],
                    !.num_active = @ + 1]

----------------------------------------------------------------------------
(* Purging *)

HashDelete_NoShift(t, hole) == [t EXCEPT !.slot[hole] = Free]

\* hash_delete: free the slot, then move later entries of the cluster back into
\* the hole when their home is at or before it, until a free slot ends it.
HashDelete(t, hole) ==
  LET Step(a, d) ==
        LET p == Plus(t, hole, d)
            drift == (p - a.hole) % Size(t)
            e == a.table.slot[p]
        IN IF a.done \/ e.state = 0 THEN [a EXCEPT !.done = TRUE]
           ELSE IF e.state > drift
           THEN [a EXCEPT !.hole = p,
                          !.table.slot[a.hole] = [e EXCEPT !.state = @ - drift],
                          !.table.slot[p] = Free]
           ELSE a
      start == [table |-> [t EXCEPT !.slot[hole] = Free], hole |-> hole, done |-> FALSE]
  IN FoldLeft(Step, start, [d \in 1..Size(t) - 1 |-> d]).table

Downwards(hi, lo) == [j \in 1..hi - lo + 1 |-> hi - j + 1]

PurgeOrder_FromTop(t) == Downwards(Size(t) - 1, 0)

\* From below the highest free slot down to 0, then the cluster that wraps.
PurgeOrder(t) ==
  LET first == Max({p \in SlotsOf(t) : ~IsActive(t, p)})
  IN Downwards(first - 1, 0) \o Downwards(Size(t) - 1, first)

SubtractAndKeepPositiveOnly(t, amount) ==
  LET Step(u, p) ==
        IF ~IsActive(u, p) THEN u
        ELSE IF u.slot[p].value > amount THEN [u EXCEPT !.slot[p].value = @ - amount]
        ELSE [HashDelete(u, p) EXCEPT !.num_active = @ - 1]
  IN FoldLeft(Step, t, PurgeOrder(t))

ActiveSlots(t) == SelectSeq([j \in 1..Size(t) |-> j - 1], LAMBDA p : IsActive(t, p))

\* The element of rank num_samples / 2 among the first samples in slot order.
MedianOf(t) ==
  LET limit == IF t.num_active < MAX_SAMPLE_SIZE THEN t.num_active ELSE MAX_SAMPLE_SIZE
      active == ActiveSlots(t)
      samples == [j \in 1..limit |-> t.slot[active[j]].value]
  IN SortSeq(samples, <)[limit \div 2 + 1]

----------------------------------------------------------------------------
(* Growing and updating *)

\* Every entry of the old table is inserted in slot order; the larger table
\* takes them all without growing or purging again.
Resize(t, hash, lg_new) ==
  LET Step(u, p) == InternalAdjustOrInsert(u, hash, t.slot[p].key, t.slot[p].value)
  IN FoldLeft(Step, EmptyTable(lg_new, t.lg_max), ActiveSlots(t))

ResizeOrPurgeIfNeeded(t, hash) ==
  IF t.num_active <= TableCapacity(t.lg_cur) THEN [table |-> t, offset |-> 0]
  ELSE IF t.lg_cur < t.lg_max
  THEN [table |-> Resize(t, hash, t.lg_cur + 1), offset |-> 0]
  ELSE [table |-> SubtractAndKeepPositiveOnly(t, MedianOf(t)), offset |-> MedianOf(t)]

\* The table after the call and the value it returns, the offset of a purge.
AdjustOrInsert(t, hash, k, v) ==
  LET u == InternalAdjustOrInsert(t, hash, k, v) IN
  IF u.num_active > t.num_active THEN ResizeOrPurgeIfNeeded(u, hash)
  ELSE [table |-> u, offset |-> 0]

----------------------------------------------------------------------------
(* The iterator *)

\* The golden-ratio fraction of the table size, made odd.
Stride(t) == LET g == (Size(t) * 61803) \div 100000 IN IF g % 2 = 0 THEN g + 1 ELSE g

\* The keys in the order for (auto it: map) visits them, num_active of them.
IterationOrder(t) ==
  IF t.num_active = 0 THEN <<>>
  ELSE LET first == ActiveSlots(t)[1]
           visited == SelectSeq([j \in 1..Size(t) |-> Plus(t, first, (j - 1) * Stride(t))],
                                LAMBDA p : IsActive(t, p))
       IN [j \in 1..t.num_active |-> t.slot[visited[j]].key]
============================================================================
