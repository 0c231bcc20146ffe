-------------------------------- MODULE Cpc --------------------------------
(***************************************************************************)
(* The CPC sketch.  An item is hashed to a coupon, a row and a column of a *)
(* bit matrix, the column k with probability 2^-(k+1).  A sparse sketch is *)
(* a table of its coupons.  Later a window of eight columns is kept as     *)
(* bits, and the table holds what is surprising beside it: the zeros       *)
(* before the window and the ones after it.  The window moves on as        *)
(* coupons come.  Two sketches are merged through a union.                 *)
(*                                                                         *)
(* Reals: kxp, the probability that the next coupon is new, is scaled by   *)
(* 2^COLUMNS; the HIP accumulator is left out.  The table is a set here,   *)
(* U32Table probes it; CpcPayload writes and reads a sketch.               *)
(***************************************************************************)
EXTENDS CpcPayload

CONSTANTS
  CpcSketch,     \* R objects
  Rows,          \* the numbers of rows 2^lg_k sketches are created with
  CpcCoupon,     \* <<row, column>> of the stream's items, in the most rows
  REFRESH        \* kxp is recomputed every so many moves (8)

VARIABLES
  cpc,     \* the native sketches
  met,     \* history: the coupons a sketch stands for
  revived  \* history: the sketches read back from an empty one's payload

cpcVars == <<cpc, met, revived>>

----------------------------------------------------------------------------
(* Sketches *)

InverseOdds(c) == 2^(COLUMNS - c[2] - 1)

New(k) ==
  [k |-> k, n |-> 0, table |-> {}, windowed |-> FALSE, window |-> {}, offset |-> 0,
   interesting |-> 0, kxp |-> k * 2^COLUMNS, merged |-> FALSE, err |-> FALSE]

IsSparse(k, n) == 32 * n < SPARSE_32NDS * k
IsSliding(k, n) == 8 * n >= SLIDE_8THS * k

\* build_bit_matrix: ones before the window, then what the table inverts
BitMatrix(h) ==
  LET assumed == ((0 .. h.k - 1) \X (0 .. h.offset - 1))
                   \cup {<<w[1], w[2] + h.offset>> : w \in h.window}
  IN (assumed \ h.table) \cup (h.table \ assumed)

FirstInteresting_Offset(table, offset) == offset

\* Every bit before this column is one, so coupons there are skipped.
FirstInteresting(table, offset) == Min({offset} \cup {c[2] : c \in table})

\* The loop of move_window and get_result_from_bit_matrix over the rows: the
\* window is cut out, the early zone flipped, and the ones are the surprises.
Split(h, matrix, offset) ==
  LET early == (0 .. h.k - 1) \X (0 .. offset - 1)
      table == (early \ matrix) \cup {c \in matrix : c[2] >= offset + WINDOW}
  IN [h EXCEPT !.windowed = TRUE, !.offset = offset, !.table = table,
               !.window = {w \in (0 .. h.k - 1) \X (0 .. WINDOW - 1) : <<w[1], w[2] + offset>> \in matrix},
               !.interesting = FirstInteresting(table, offset)]

Kxp(k, matrix) == k * 2^COLUMNS - MapThenSumSet(InverseOdds, matrix)

\* A failed check throws std::logic_error.
Checked(h, sound) == [h EXCEPT !.err = @ \/ ~sound]

----------------------------------------------------------------------------
(* Updates *)

\* num_coupons and update_hip, for a coupon that is new.  In a merged sketch
\* nothing reads the HIP registers, and they are left out.
Collected(h, c) == [h EXCEPT !.n = @ + 1, !.kxp = IF h.merged THEN @ ELSE @ - InverseOdds(c)]

\* In the fewest rows, 2^4, the threshold falls between two counts.
Promoted(h) ==
  Checked(Split(h, h.table, 0),
          \/ 32 * h.n = SPARSE_32NDS * h.k
          \/ h.k = Min(Rows) /\ 32 * h.n > SPARSE_32NDS * h.k)

UpdateSparse(h, c) ==
  LET g == Collected([h EXCEPT !.table = @ \cup {c}], c)
  IN CASE ~IsSparse(h.k, h.n) -> Checked(h, FALSE)
       [] IsSparse(h.k, h.n) /\ c \in h.table -> h
       [] OTHER -> IF IsSparse(g.k, g.n) THEN g ELSE Promoted(g)

WindowIsFull(h, n) == 8 * n >= (SLIDE_8THS + 8 * h.offset) * h.k

MoveWindow(h) ==
  LET offset == h.offset + 1
      matrix == BitMatrix(h)
      moved == Split(h, matrix, offset)
  IN Checked([moved EXCEPT !.kxp = IF offset % REFRESH = 0 /\ ~h.merged THEN Kxp(h.k, matrix) ELSE @],
             /\ offset <= COLUMNS - WINDOW /\ offset = CorrectOffset(h.k, h.n)
             /\ ~WindowIsFull(moved, h.n))

\* maybe_delete a zero before the window, set a bit in it, or maybe_insert a one
UpdateWindowed(h, c) ==
  LET spot == <<c[1], c[2] - h.offset>>
      g == Collected(CASE c[2] < h.offset -> [h EXCEPT !.table = @ \ {c}]
                       [] c[2] \in h.offset .. h.offset + WINDOW - 1 -> [h EXCEPT !.window = @ \cup {spot}]
                       [] OTHER -> [h EXCEPT !.table = @ \cup {c}],
                     c)
      novel == g.table # h.table \/ g.window # h.window
  IN CASE IsSparse(h.k, h.n) \/ WindowIsFull(h, h.n) -> Checked(h, FALSE)
       [] ~IsSparse(h.k, h.n) /\ ~WindowIsFull(h, h.n) /\ ~novel -> h
       [] OTHER -> IF WindowIsFull(h, g.n) THEN MoveWindow(g) ELSE g

\* row_col_update, with the row cut to the sketch's rows
RowColUpdate(h, coupon) ==
  LET c == <<coupon[1] % h.k, coupon[2]>> IN
  CASE c[2] < h.interesting -> h
    [] c[2] >= h.interesting /\ ~h.windowed -> UpdateSparse(h, c)
    [] OTHER -> UpdateWindowed(h, c)

----------------------------------------------------------------------------
(* The union: a sketch while everything is sparse, then a bit matrix *)

NewUnion(k) == [k |-> k, sketch |-> New(k), matrix |-> {}, graduated |-> FALSE]

Downsampled(C, k) == {<<c[1] % k, c[2]>> : c \in C}

\* walk_table_updating_sketch, and switch_to_bit_matrix when it is due
Walked(u, table) ==
  LET g == FoldSet(LAMBDA c, h : RowColUpdate(h, c), u.sketch, table)
  IN IF IsSparse(g.k, g.n) THEN [u EXCEPT !.sketch = g]
     ELSE [u EXCEPT !.sketch = Checked(New(u.k), ~g.err), !.matrix = BitMatrix(g), !.graduated = TRUE]

\* An empty sketch keeps its rows: it is replaced before it is used.
ReduceK(u, k) ==
  CASE u.graduated -> [u EXCEPT !.k = k, !.matrix = Downsampled(@, k)]
    [] ~u.graduated /\ u.sketch.n = 0 -> [u EXCEPT !.k = k]
    [] OTHER -> Walked([u EXCEPT !.k = k, !.sketch = New(k)], u.sketch.table)

\* or_window_into_matrix and or_table_into_matrix, but a sliding sketch, whose
\* table is inverted, goes through its bit matrix
Coupons(src) ==
  IF IsSliding(src.k, src.n) THEN BitMatrix(src)
  ELSE {<<w[1], w[2] + src.offset>> : w \in src.window} \cup src.table

UnionUpdate(u, src) ==
  LET v == IF src.k < u.k THEN ReduceK(u, src.k) ELSE u
      matrix == IF v.graduated THEN v.matrix ELSE BitMatrix(v.sketch)
  IN CASE src.n = 0 -> u
       [] src.n # 0 /\ IsSparse(src.k, src.n) /\ ~v.graduated ->
            IF v.sketch.n = 0 /\ v.k = src.k THEN [v EXCEPT !.sketch = src] ELSE Walked(v, src.table)
       [] OTHER -> [v EXCEPT !.matrix = matrix \cup Downsampled(Coupons(src), v.k), !.graduated = TRUE,
                             !.sketch = Checked(@, ~src.err)]

Result_NotMarked(u) ==
  LET n == Cardinality(u.matrix)
      made == [New(u.k) EXCEPT !.n = n, !.kxp = 0, !.err = u.sketch.err]
  IN CASE u.graduated -> Checked(Split(made, u.matrix, CorrectOffset(u.k, n)), ~IsSparse(u.k, n))
       [] ~u.graduated /\ u.sketch.n = 0 -> Checked(New(u.k), u.sketch.k = u.k)
       [] OTHER -> Checked(u.sketch, u.sketch.k = u.k /\ IsSparse(u.k, u.sketch.n))

\* get_result, from the accumulator or from the bit matrix
Result(u) ==
  LET n == Cardinality(u.matrix)
      made == [New(u.k) EXCEPT !.n = n, !.kxp = 0, !.merged = TRUE, !.err = u.sketch.err]
  IN CASE u.graduated -> Checked(Split(made, u.matrix, CorrectOffset(u.k, n)), ~IsSparse(u.k, n))
       [] ~u.graduated /\ u.sketch.n = 0 -> Checked(New(u.k), u.sketch.k = u.k)
       [] OTHER -> Checked([u.sketch EXCEPT !.merged = TRUE, !.kxp = 0],
                           u.sketch.k = u.k /\ IsSparse(u.k, u.sketch.n))

Merged(h, other) ==
  Result(UnionUpdate(UnionUpdate(NewUnion(Max({h.k, other.k})), h), other))

----------------------------------------------------------------------------
(* Payloads *)

\* The HIP registers do not travel with an empty sketch, though it is not marked
\* as merged.
Reread(h) == Checked(Deserialize(Serialize(h)), Writable(h) /\ ~h.err)

----------------------------------------------------------------------------
(* R operations *)

CpcInit ==
  /\ cpc \in [CpcSketch -> {New(k) : k \in Rows}]
  /\ met = [s \in CpcSketch |-> {}]
  /\ revived = {}

Update(s, c) ==
  /\ cpc' = [cpc EXCEPT ![s] = RowColUpdate(@, c)]
  /\ met' = [met EXCEPT ![s] = @ \cup {c}]
  /\ UNCHANGED revived

\* R refuses to merge a sketch into itself, and sketches of different seeds.
Merge(s, other) ==
  /\ s # other
  /\ cpc' = [cpc EXCEPT ![s] = Merged(@, cpc[other])]
  /\ met' = [met EXCEPT ![s] = @ \cup met[other]]
  /\ revived' = IF cpc'[s].n = 0 THEN revived \ {s} ELSE revived

\* t <- cpc(bytes = s$serialize())
Restore(s, t) ==
  /\ cpc' = [cpc EXCEPT ![t] = Reread(cpc[s])]
  /\ met' = [met EXCEPT ![t] = met[s]]
  /\ revived' = IF s \in revived \/ cpc[s].n = 0 THEN revived \cup {t} ELSE revived \ {t}

CpcNext ==
  \/ \E s \in CpcSketch, c \in CpcCoupon : Update(s, c)
  \/ \E s, other \in CpcSketch : Merge(s, other) \/ Restore(s, other)

CpcSpec == CpcInit /\ [][CpcNext]_cpcVars

----------------------------------------------------------------------------
(* Properties *)

CpcTypeOK ==
  /\ \A s \in CpcSketch : LET h == cpc[s] IN
       /\ h.k \in Rows /\ h.n \in 0 .. h.k * COLUMNS /\ h.offset \in 0 .. COLUMNS - WINDOW
       /\ h.table \subseteq (0 .. h.k - 1) \X (0 .. COLUMNS - 1)
       /\ h.window \subseteq (0 .. h.k - 1) \X (0 .. WINDOW - 1)
       /\ met[s] \subseteq CpcCoupon
  /\ revived \subseteq CpcSketch

\* No std::logic_error: thresholds are met one coupon at a time, the window
\* never falls behind the count, and a union that left the sparse form has
\* coupons enough for it, however far it was downsampled.
NoLogicError == \A s \in CpcSketch : ~cpc[s].err

\* Whatever forms, moves of the window, merges with wider or narrower sketches
\* and payloads a sketch went through, its bits are the coupons it stands for,
\* and their count is right (validate()).  No coupon is skipped as uninteresting
\* that is new.
CouponsExact ==
  \A s \in CpcSketch : LET h == cpc[s] IN
    /\ BitMatrix(h) = Downsampled(met[s], h.k)
    /\ h.n = Cardinality(BitMatrix(h))
    /\ h.windowed <=> ~IsSparse(h.k, h.n) /\ h.n # 0

\* get_estimate reads the HIP accumulator unless the sketch was merged.  Its
\* increments are right because kxp is the chance that a coupon is new.  Sketches
\* read back from an empty one are excepted: see HipReady.
HipExact ==
  \A s \in CpcSketch \ revived :
    ~cpc[s].merged => cpc[s].kxp = Kxp(cpc[s].k, BitMatrix(cpc[s]))

\* A sketch restored from its bytes is the sketch that was written, when it was
\* not empty.
CpcRestored == \A s \in CpcSketch : cpc[s].n # 0 => Reread(cpc[s]) = cpc[s]

\* "Round-trip through the native byte format" (R/cardinality-cpc.R): any
\* restored sketch can be updated and estimates on.  Its first increment divides
\* by kxp.
HipReady == \A s \in CpcSketch : ~cpc[s].merged => cpc[s].kxp > 0
=============================================================================
