------------------------------- MODULE Ebpps -------------------------------
(***************************************************************************)
(* The EBPPS sampler (datasketches/sampling, ebpps) behind R's ebpps       *)
(* objects: at most k items, each kept with a probability proportional to  *)
(* its weight.  c, the expected sample size, is also the shape of the      *)
(* sample: its whole part full items and, for the rest, a partial one.     *)
(*                                                                         *)
(* Random draws choose which items are full, never how many, so items are  *)
(* counted; what the draws do to the probability that an item is in the    *)
(* sample is followed by rates.  Numbers are exact fractions.              *)
(***************************************************************************)
EXTENDS Integers, Sequences, SequencesExt

CONSTANTS
  Reservoir,   \* native samplers, one behind each R object
  K,           \* values of k_
  ItemWeight,  \* weights of stream items
  MaxItems     \* bound: items a sampler has seen

VARIABLES
  reservoir,   \* [k, n, cum, wt_max, rho, c, full, partial] of each:
               \* k_, n_, cumulative_wt_, wt_max_, rho_, and of its sample
               \* c_, the size of data_, and whether partial_item_ is there
  taken,       \* history: total weight of the stream
  rates,       \* history: probability of inclusion over weight, of each item
  outweighed,  \* history: a merge brought a heavier item than any before
  adopted      \* history: k came down in a merge that took no item in

ebppsVars == <<reservoir, taken, rates, outweighed, adopted>>

----------------------------------------------------------------------------
(* Fractions <<numerator, denominator>> *)

RECURSIVE GCD(_, _)
GCD(a, b) == IF b = 0 THEN a ELSE GCD(b, a % b)

Q(n, d) == LET g == GCD(n, d) IN <<n \div g, d \div g>>
Whole(n) == <<n, 1>>
Times(p, q) == Q(p[1] * q[1], p[2] * q[2])
Over(p, q) == Q(p[1] * q[2], p[2] * q[1])
Plus(p, q) == Q(p[1] * q[2] + q[1] * p[2], p[2] * q[2])
Less(p, q) == p[1] * q[2] < q[1] * p[2]
Least(p, q) == IF Less(q, p) THEN q ELSE p
Floor(p) == p[1] \div p[2]
Part(p) == Q(p[1] % p[2], p[2])

----------------------------------------------------------------------------
(* The sample *)

\* downsample: fewer full items, one of which may turn partial
downsample(e, theta) ==
  LET c == Times(theta, e.c) IN
  IF ~Less(theta, Whole(1)) THEN e
  ELSE [e EXCEPT !.c = c,
                 !.full = IF Floor(c) = Floor(e.c) THEN @ ELSE Floor(c),
                 !.partial = Part(c) # Whole(0)]

\* replace_content and merge: one more item, full if its theta is 1
Include(e, theta) ==
  LET new == IF theta = Whole(1) THEN 1 ELSE 0
      promoted == IF Less(Plus(Part(e.c), Part(theta)), Whole(1)) THEN 0 ELSE 1
      c == Plus(e.c, theta)
  IN [e EXCEPT !.c = c,
               !.full = @ + new + promoted,
               !.partial = Part(c) # Whole(0)]

Rho(k, wt_max, cum) == Least(Q(1, wt_max), Over(Whole(k), cum))

\* What update and each round of internal_merge do with an item of weight w
Absorb_Whole(e, w, wt_max) ==
  LET cum == Plus(e.cum, w)
      rho == Rho(e.k, wt_max, cum)
  IN [Include(e, Times(rho, w)) EXCEPT !.cum = cum, !.rho = rho]

Absorb(e, w, wt_max) ==
  LET cum == Plus(e.cum, w)
      rho == Rho(e.k, wt_max, cum)
      kept == IF e.cum = Whole(0) THEN e ELSE downsample(e, Over(rho, e.rho))
  IN [Include(kept, Times(rho, w)) EXCEPT !.cum = cum, !.rho = rho]

\* The same for the rates of the items already there
Scaled(e, R, rho) ==
  LET theta == Least(Over(rho, e.rho), Whole(1)) IN
  IF e.cum = Whole(0) THEN R ELSE {Times(theta, r) : r \in R}

\* update
Updated(e, w) ==
  LET wt_max == IF w > e.wt_max THEN w ELSE e.wt_max IN
  [Absorb(e, Whole(w), wt_max) EXCEPT !.wt_max = wt_max, !.n = @ + 1]

UpdatedRates(e, R, w) ==
  LET rho == Updated(e, w).rho IN Scaled(e, R, rho) \cup {rho}

\* internal_merge: the weight of b is spread over the items of its sample.
\* The larger of the two maxima is used here and then forgotten.
Pieces(b) ==
  LET avg == Over(b.cum, b.c) IN
  [i \in 1 .. b.full |-> avg]
    \o (IF b.partial THEN <<Times(Part(b.c), avg)>> ELSE <<>>)

Merged(a, b) ==
  LET wt_max == IF a.wt_max > b.wt_max THEN a.wt_max ELSE b.wt_max
      base == [a EXCEPT !.k = IF a.k < b.k THEN a.k ELSE b.k]
      all == FoldLeft(LAMBDA e, w : Absorb(e, w, wt_max), base,
                      IF b.cum = Whole(0) THEN <<>> ELSE Pieces(b))
  IN [all EXCEPT !.cum = Plus(a.cum, b.cum), !.n = a.n + b.n]

\* Each piece stands for items of b in proportion to their rates.
MergedRates(a, R, b, S) ==
  LET wt_max == IF a.wt_max > b.wt_max THEN a.wt_max ELSE b.wt_max
      base == [a EXCEPT !.k = IF a.k < b.k THEN a.k ELSE b.k]
      Round(er, w) ==
        LET e == Absorb(er.e, w, wt_max) IN
        [e |-> e,
         R |-> Scaled(er.e, er.R, e.rho) \cup
                 {Times(Times(s, Over(b.cum, b.c)), e.rho) : s \in S}]
  IN FoldLeft(Round, [e |-> base, R |-> R],
              IF b.cum = Whole(0) THEN <<>> ELSE Pieces(b)).R

----------------------------------------------------------------------------
(* Operations *)

\* The sample has the shape c says.  Where it has not, downsample indexes
\* past the end of data_, and nothing can be said any more.
Shaped(e) == e.full = Floor(e.c) /\ e.partial = (Part(e.c) # Whole(0))

EmptyReservoir(k) ==
  [k |-> k, n |-> 0, cum |-> Whole(0), wt_max |-> 0, rho |-> Whole(1),
   c |-> Whole(0), full |-> 0, partial |-> FALSE]

EbppsInit ==
  /\ reservoir \in [Reservoir -> {EmptyReservoir(k) : k \in K}]
  /\ taken = [s \in Reservoir |-> 0]
  /\ rates = [s \in Reservoir |-> {}]
  /\ outweighed = [s \in Reservoir |-> FALSE]
  /\ adopted = [s \in Reservoir |-> FALSE]

UpdateReservoir(s, w) ==
  /\ reservoir[s].n < MaxItems
  /\ Shaped(reservoir[s])
  /\ reservoir' = [reservoir EXCEPT ![s] = Updated(@, w)]
  /\ taken' = [taken EXCEPT ![s] = @ + w]
  /\ rates' = [rates EXCEPT ![s] = UpdatedRates(reservoir[s], @, w)]
  /\ adopted' = [adopted EXCEPT ![s] = FALSE]
  /\ UNCHANGED outweighed

\* s$merge(t): the sampler with less weight goes into the other
MergeReservoir(s, t) ==
  LET a == reservoir[s]
      b == reservoir[t]
      swap == Less(a.cum, b.cum)
  IN /\ s # t
     /\ b.n > 0
     /\ a.n + b.n <= MaxItems
     /\ Shaped(a) /\ Shaped(b)
     /\ reservoir' = [reservoir EXCEPT ![s] =
                        IF swap THEN Merged(b, a) ELSE Merged(a, b)]
     /\ rates' = [rates EXCEPT ![s] =
                    IF swap THEN MergedRates(b, rates[t], a, rates[s])
                    ELSE MergedRates(a, rates[s], b, rates[t])]
     /\ taken' = [taken EXCEPT ![s] = @ + taken[t]]
     /\ outweighed' = [outweighed EXCEPT ![s] =
          \/ @ \/ outweighed[t]
          \/ IF swap THEN b.wt_max < a.wt_max ELSE a.wt_max < b.wt_max]
     /\ adopted' = [adopted EXCEPT ![s] =
          a.n = 0 /\ (a.k < b.k \/ adopted[t])]

\* t <- ebpps(bytes = s$serialize()): c decides how many items are read
Reread_Unscaled(e) == [e EXCEPT !.rho = Whole(1)]

Reread(e) == IF e.n = 0 THEN EmptyReservoir(e.k) ELSE e

RestoreReservoir(t, s) ==
  /\ Shaped(reservoir[s])
  /\ reservoir' = [reservoir EXCEPT ![t] = Reread(reservoir[s])]
  /\ taken' = [taken EXCEPT ![t] = taken[s]]
  /\ rates' = [rates EXCEPT ![t] = rates[s]]
  /\ outweighed' = [outweighed EXCEPT ![t] = outweighed[s]]
  /\ adopted' = [adopted EXCEPT ![t] = adopted[s]]

EbppsNext ==
  \/ \E s \in Reservoir, w \in ItemWeight : UpdateReservoir(s, w)
  \/ \E s, t \in Reservoir : MergeReservoir(s, t) \/ RestoreReservoir(t, s)

EbppsSpec == EbppsInit /\ [][EbppsNext]_ebppsVars

----------------------------------------------------------------------------
(* Properties *)

EbppsTypeOK ==
  /\ \A s \in Reservoir : LET e == reservoir[s] IN
       /\ e.k \in K /\ e.n \in 0 .. MaxItems /\ e.wt_max \in Nat
       /\ e.full \in Nat /\ e.partial \in BOOLEAN
       /\ \A q \in {e.cum, e.rho, e.c} : q \in Nat \X (Nat \ {0})
  /\ taken \in [Reservoir -> Nat]
  /\ {outweighed, adopted} \subseteq [Reservoir -> BOOLEAN]

\* The weight a sampler reports is that of its stream, although a merge
\* feeds the other sample piece by piece.
CumulativeExact ==
  \A s \in Reservoir : reservoir[s].cum = Whole(taken[s])

\* The sample holds what c says, unless a merge brought in a heavier item,
\* and no more than k, unless an empty sampler with a smaller k took it over.
SampleShaped ==
  \A s \in Reservoir :
    /\ ~outweighed[s] => Shaped(reservoir[s])
    /\ ~adopted[s] => ~Less(Whole(reservoir[s].k), reservoir[s].c)

\* "The sample guarantees the presence of an item in the result is
\* proportional to that item's portion of the total weight"
\* (ebpps_sketch.hpp): all items have the same rate.
PresenceProportional ==
  \A s \in Reservoir : \A p, q \in rates[s] : p = q

\* The same, and the rate is rho, where no merge brought in a heavier item.
PresenceProportionalBelowMax ==
  \A s \in Reservoir : ~outweighed[s] =>
    LET e == reservoir[s] IN
    /\ rates[s] \subseteq {e.rho}
    /\ e.n > 0 => e.c = Times(e.rho, e.cum)

\* A restored sampler is the one that was serialized.
SameReservoir ==
  \A s, t \in Reservoir : RestoreReservoir(t, s) => reservoir'[t] = reservoir[s]

ReservoirRestored == [][SameReservoir]_ebppsVars
=============================================================================
