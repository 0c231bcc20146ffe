------------------------------ MODULE U32Table ------------------------------
(***************************************************************************)
(* The table of surprising coupons of a CPC sketch: an array of pairs, row *)
(* and column in one number, probed one place after the other from where   *)
(* the high bits of the pair point, so that walking it nearly sorts it.    *)
(* It grows and shrinks, and a deletion moves up what follows.             *)
(***************************************************************************)
EXTENDS Integers, Sequences, SequencesExt, FiniteSetsExt

CONSTANTS
  Pair,        \* the numbers (row << 6) | column that are stored
  VALID_BITS,  \* of a number: 6 + lg_k
  MIN_LG_SIZE  \* 2

VARIABLES
  slots,   \* by place from 0, a pair or FREE
  number,  \* num_items
  stored   \* history: the pairs inserted and not deleted since

pairVars == <<slots, number, stored>>

FREE == -1  \* UINT32_MAX, which no pair is

U32Assumption ==
  /\ VALID_BITS \in Nat /\ MIN_LG_SIZE \in 1 .. VALID_BITS
  /\ Pair \subseteq 0 .. 2^VALID_BITS - 1

----------------------------------------------------------------------------
(* Probing *)

SizeOf(t) == Cardinality(DOMAIN t)
EmptyTable(size) == [i \in 0 .. size - 1 |-> FREE]
Held(t) == {t[i] : i \in DOMAIN t} \ {FREE}

\* The first place from the pair's own that holds it or is free; NONE: the search
\* goes round for ever.
NONE == -1

Lookup(t, p) ==
  LET size == SizeOf(t)
      home == (p * size) \div 2^VALID_BITS
      ends == {d \in 0 .. size - 1 : t[(home + d) % size] \in {p, FREE}}
  IN IF ends = {} THEN NONE ELSE (home + Min(ends)) % size

MustInsert(t, p) == [t EXCEPT ![Lookup(t, p)] = p]

\* Every pair, in the order of the old places, into a table of the new size
Rebuild(t, size) ==
  FoldLeft(LAMBDA u, i : IF t[i] = FREE THEN u ELSE MustInsert(u, t[i]),
           EmptyTable(size), [i \in 1 .. SizeOf(t) |-> i - 1])

\* maybe_delete: the pairs from the freed place to the next free one are taken out
\* one by one and find their places anew.
Vacate(t, hole) ==
  LET size == SizeOf(t)
      run == Min({d \in 1 .. size : d = size \/ t[(hole + d) % size] = FREE}) - 1
  IN FoldLeft(LAMBDA u, i : MustInsert([u EXCEPT ![i] = FREE], u[i]),
              [t EXCEPT ![hole] = FREE], [d \in 1 .. run |-> (hole + d) % size])

\* unwrapping_get_items and introspective_insertion_sort
SortedItems(t) == SetToSortSeq(Held(t), <)

\* make_from_pairs starts with the final size.
SmallestFor(n) ==
  CHOOSE lg \in MIN_LG_SIZE .. VALID_BITS :
    4 * n <= 3 * 2^lg /\ \A l \in MIN_LG_SIZE .. lg - 1 : 4 * n > 3 * 2^l

MakeFromPairs(pairs) ==
  FoldLeft(MustInsert, EmptyTable(2^SmallestFor(Len(pairs))), pairs)

----------------------------------------------------------------------------
(* Operations *)

TableInit ==
  slots = EmptyTable(2^MIN_LG_SIZE) /\ number = 0 /\ stored = {}

\* A search that does not end leaves the operation without a step.
MaybeInsert(p) ==
  LET place == Lookup(slots, p)
      more == number + 1
      filled == [slots EXCEPT ![place] = p]
      size == SizeOf(slots)
  IN /\ place # NONE
     /\ stored' = stored \cup {p}
     /\ IF slots[place] = p THEN UNCHANGED <<slots, number>>
        ELSE /\ number' = more
             /\ slots' = IF 4 * more > 3 * size THEN Rebuild(filled, 2 * size) ELSE filled

MaybeDelete(p) ==
  LET place == Lookup(slots, p)
      fewer == number - 1
      vacated == Vacate(slots, place)
      size == SizeOf(slots)
  IN /\ place # NONE
     /\ stored' = stored \ {p}
     /\ IF slots[place] = FREE THEN UNCHANGED <<slots, number>>
        ELSE /\ number' = fewer
             /\ slots' = IF 4 * fewer < size /\ size > 2^MIN_LG_SIZE
                         THEN Rebuild(vacated, size \div 2) ELSE vacated

\* move_window empties the table and fills it again; its size stays.
Clear ==
  slots' = EmptyTable(SizeOf(slots)) /\ number' = 0 /\ stored' = {}

\* A payload carries the pairs in order.
Reload ==
  LET pairs == SortedItems(slots) IN
  slots' = MakeFromPairs(pairs) /\ number' = Len(pairs) /\ UNCHANGED stored

TableNext ==
  \/ \E p \in Pair : MaybeInsert(p) \/ MaybeDelete(p)
  \/ Clear
  \/ Reload

TableSpec == TableInit /\ [][TableNext]_pairVars

----------------------------------------------------------------------------
(* Properties *)

\* Whatever clusters grew, wrapped around, lost a pair or were rebuilt, the table
\* holds what was stored, a search finds it, and one for anything else ends.
PairsFound ==
  /\ Held(slots) = stored /\ number = Cardinality(stored)
  /\ \A p \in Pair :
       /\ Lookup(slots, p) # NONE
       /\ p \in stored => slots[Lookup(slots, p)] = p
=============================================================================
