----------------------------- MODULE CpcPayload -----------------------------
(***************************************************************************)
(* What $serialize() of a CPC sketch writes and cpc(bytes = ) reads.  The  *)
(* flavor of a sketch follows from its count and says what is written:     *)
(* pairs only, or pairs and the window, with the columns of the pairs      *)
(* moved to where the code for pairs is short.  The pairs are sorted and   *)
(* written as distances.                                                   *)
(*                                                                         *)
(* Left out: the code words for windows and distances, with their tables,  *)
(* the HIP accumulator, and the seed hash.                                 *)
(***************************************************************************)
EXTENDS Integers, Sequences, SequencesExt, FiniteSetsExt

CONSTANTS
  COLUMNS,       \* 64
  WINDOW,        \* 8
  SPARSE_32NDS,  \* a sketch is sparse below this many 32nds of K coupons (3)
  PINNED_8THS,   \* it is pinned from this many 8ths of K coupons on (4)
  SLIDE_8THS,    \* the window first moves at this many 8ths of K coupons (27)
  PHASES,        \* phases of a sliding sketch, each with its permutation (16)
  Permutation    \* of a phase: a sequence of the columns beside the window

Flavor(k, n) ==
  CASE n = 0 -> "EMPTY"
    [] n # 0 /\ 32 * n < SPARSE_32NDS * k -> "SPARSE"
    [] 32 * n >= SPARSE_32NDS * k /\ 8 * n < PINNED_8THS * k -> "HYBRID"
    [] 8 * n >= PINNED_8THS * k /\ 8 * n < SLIDE_8THS * k -> "PINNED"
    [] OTHER -> "SLIDING"

\* determine_correct_offset: 8C - 19K, in 8ths of K
CorrectOffset(k, n) ==
  LET past == 8 * n - (SLIDE_8THS - 8) * k IN IF past < 0 THEN 0 ELSE past \div (8 * k)

----------------------------------------------------------------------------
(* Pairs *)

Before(p, q) == p[1] < q[1] \/ (p[1] = q[1] /\ p[2] < q[2])
SortedPairs(S) == SetToSortSeq(S, Before)

\* u32_table::merge of A and the end of C into C, from its beginning: a place is
\* overwritten that may not have been read yet.
MergeInto(A, C) ==
  FoldLeft(LAMBDA m, c :
             IF m.a <= Len(A) /\ (m.b > Len(C) \/ Before(A[m.a], m.out[m.b]))
             THEN [m EXCEPT !.a = @ + 1, !.out[c] = A[m.a]]
             ELSE [m EXCEPT !.b = @ + 1, !.out[c] = m.out[m.b]],
           [a |-> 1, b |-> Len(A) + 1, out |-> C], [c \in DOMAIN C |-> c]).out

FloorLog2(q) == CHOOSE b \in 0 .. q : 2^b <= q /\ q < 2^(b + 1)

\* golomb_choose_number_of_base_bits(k + count, count)
NumBaseBits(k, count) == LET q == k \div count IN IF q = 0 THEN 0 ELSE FloorLog2(q)

\* Rows as distances from the pair before, in two parts; columns as distances
\* from the one after it, or from the first in a new row.  UNSORTED: a check throws.
UNSORTED == [x |-> -1, hi |-> -1, lo |-> -1]

CompressPairs(pairs, bits) ==
  LET previous(i) == IF i = 1 THEN <<0, -1>> ELSE pairs[i - 1]
      predicted(i) == IF pairs[i][1] = previous(i)[1] THEN previous(i)[2] + 1 ELSE 0
      y(i) == pairs[i][1] - previous(i)[1]
  IN [i \in DOMAIN pairs |->
        IF y(i) < 0 \/ pairs[i][2] < predicted(i) THEN UNSORTED
        ELSE [x |-> pairs[i][2] - predicted(i), hi |-> y(i) \div 2^bits, lo |-> y(i) % 2^bits]]

UncompressPairs(codes, bits) ==
  FoldLeft(LAMBDA u, c :
             LET y == c.hi * 2^bits + c.lo
                 row == u.row + y
                 column == (IF y > 0 THEN 0 ELSE u.column) + c.x
             IN [row |-> row, column |-> column + 1, pairs |-> Append(u.pairs, <<row, column>>)],
           [row |-> 0, column |-> 0, pairs |-> <<>>], codes).pairs

----------------------------------------------------------------------------
(* Columns of a sliding sketch *)

Phase(k, n) == ((n * PHASES) \div k) % PHASES

\* The columns beside the window are those from 0 on, then permuted.
Beside(column, offset) == (column + COLUMNS - WINDOW - offset) % COLUMNS

Encoded(pair, h) == <<pair[1], Permutation[Phase(h.k, h.n)][Beside(pair[2], h.offset) + 1]>>

Decoded(pair, k, n) ==
  LET inverse == CHOOSE c \in 0 .. COLUMNS - WINDOW - 1 : Permutation[Phase(k, n)][c + 1] = pair[2]
  IN <<pair[1], (inverse + CorrectOffset(k, n) + WINDOW) % COLUMNS>>

----------------------------------------------------------------------------
(* Payloads *)

\* The pairs of a hybrid sketch are those of its window, too.
HybridPairs(h) ==
  LET fromTable == SortedPairs(h.table)
      empty == [i \in 1 .. Len(fromTable) |-> <<0, 0>>]
  IN MergeInto(fromTable, empty \o SortedPairs(h.window))

PairsToWrite(h) ==
  CASE Flavor(h.k, h.n) = "EMPTY" -> <<>>
    [] Flavor(h.k, h.n) = "SPARSE" -> SortedPairs(h.table)
    [] Flavor(h.k, h.n) = "HYBRID" -> HybridPairs(h)
    [] Flavor(h.k, h.n) = "PINNED" -> SortedPairs({<<p[1], p[2] - WINDOW>> : p \in h.table})
    [] OTHER -> SortedPairs({Encoded(p, h) : p \in h.table})

\* Each flavor is written as it should be, and no column would come out negative
\* or beside the window that is not.
Compressible(h) ==
  /\ Flavor(h.k, h.n) = "SPARSE" => ~h.windowed
  /\ Flavor(h.k, h.n) = "HYBRID" =>
       h.windowed /\ h.offset = 0 /\ h.n = Cardinality(h.table) + Cardinality(h.window)
  /\ Flavor(h.k, h.n) = "PINNED" => \A p \in h.table : p[2] >= WINDOW
  /\ Flavor(h.k, h.n) = "SLIDING" => \A p \in h.table : Beside(p[2], h.offset) < COLUMNS - WINDOW

\* The number of pairs is written where it is not the number of coupons.
Serialize(h) ==
  LET pairs == PairsToWrite(h)
      has_window == Flavor(h.k, h.n) \in {"PINNED", "SLIDING"}
      has_table == pairs # <<>>
  IN [k |-> h.k, interesting |-> h.interesting, has_hip |-> ~h.merged,
      has_table |-> has_table, has_window |-> has_window,
      n |-> h.n, kxp |-> h.kxp,
      num_entries |-> IF has_window THEN Len(pairs) ELSE h.n,
      window |-> IF has_window THEN h.window ELSE {},
      codes |-> IF has_table THEN CompressPairs(pairs, NumBaseBits(h.k, Len(pairs))) ELSE <<>>]

\* The window of a hybrid sketch is among its pairs.  HIP registers come with a
\* table or a window.  The offset is derived from the count.
Deserialize(p) ==
  LET some == p.has_table \/ p.has_window
      n == IF some THEN p.n ELSE 0
      pairs == IF p.num_entries = 0 \/ ~some THEN {}
               ELSE ToSet(UncompressPairs(p.codes, NumBaseBits(p.k, p.num_entries)))
      Kept(windowed, window, table) ==
        [k |-> p.k, n |-> n, table |-> table, windowed |-> windowed, window |-> window,
         offset |-> CorrectOffset(p.k, n), interesting |-> p.interesting,
         kxp |-> IF some /\ p.has_hip THEN p.kxp ELSE 0, merged |-> ~p.has_hip, err |-> FALSE]
  IN CASE Flavor(p.k, n) = "EMPTY" -> Kept(FALSE, {}, {})
       [] Flavor(p.k, n) = "SPARSE" -> Kept(FALSE, {}, pairs)
       [] Flavor(p.k, n) = "HYBRID" -> Kept(TRUE, {q \in pairs : q[2] < WINDOW}, {q \in pairs : q[2] >= WINDOW})
       [] Flavor(p.k, n) = "PINNED" -> Kept(TRUE, p.window, {<<q[1], q[2] + WINDOW>> : q \in pairs})
       [] OTHER -> Kept(TRUE, p.window, {Decoded(q, p.k, n) : q \in pairs})

\* No check throws while a sketch is written.
Writable(h) == Compressible(h) /\ ~\E i \in DOMAIN Serialize(h).codes : Serialize(h).codes[i] = UNSORTED
=============================================================================
