------------------------------- MODULE VarOpt -------------------------------
(***************************************************************************)
(* The VarOpt sampler (datasketches/sampling, var_opt) behind R's varopt   *)
(* objects: a heap H of heavy items with their weights and a reservoir R   *)
(* of light ones that share tot.  Samplers merge through a union: its      *)
(* gadget is a sampler whose items remember, by a mark, that they came     *)
(* from a reservoir.                                                       *)
(*                                                                         *)
(* Which item of the reservoir is dropped is random and changes no weight, *)
(* so items are their weights.  Weights are integers; the weight a         *)
(* reservoir item stands for is rounded down, the last one carries the     *)
(* rest.  h is an array: a merge may leave it out of heap order.           *)
(***************************************************************************)
EXTENDS Integers, Sequences, SequencesExt

CONSTANTS
  Sampler,       \* native samplers, one behind each R object
  SampleSize,    \* values of k
  ArrivalWeight, \* weights of stream items
  MaxN           \* bound: items a sampler has seen

VARIABLES
  sampler,   \* [k, h, m, r, tot, n, ok] of each: k_, the H region, m_, r_,
             \* total_wt_r_, n_, and whether the last call returned
  absorbed,  \* history: total weight of the stream
  coerced    \* history: H came through mark_moving_gadget_coercer

varOptVars == <<sampler, absorbed, coerced>>

----------------------------------------------------------------------------
(* The heap; entries are [wt, mark] *)

Swap(h, i, j) == [h EXCEPT ![i] = h[j], ![j] = h[i]]

RECURSIVE restore_towards_root(_, _)
restore_towards_root(h, i) ==
  IF i > 1 /\ h[i].wt < h[i \div 2].wt
  THEN restore_towards_root(Swap(h, i, i \div 2), i \div 2)
  ELSE h

LighterChild(h, i) ==
  IF 2 * i + 1 <= Len(h) /\ h[2 * i + 1].wt < h[2 * i].wt THEN 2 * i + 1
  ELSE 2 * i

RECURSIVE restore_towards_leaves(_, _)
restore_towards_leaves(h, i) ==
  LET c == LighterChild(h, i) IN
  IF 2 * i > Len(h) \/ h[i].wt <= h[c].wt THEN h
  ELSE restore_towards_leaves(Swap(h, i, c), c)

convert_to_heap(h) ==
  FoldRight(LAMBDA i, g : restore_towards_leaves(g, i),
            [i \in 1 .. Len(h) \div 2 |-> i], h)

Weights(h) == FoldLeft(LAMBDA acc, e : acc + e.wt, 0, h)
Marks(h) == Len(SelectSeq(h, LAMBDA e : e.mark))

PeekMin(s) == s.h[1].wt
\* get_tau is tot / r and NaN when r = 0
LighterThanTau(w, s) == s.r > 0 /\ w * s.r < s.tot

----------------------------------------------------------------------------
(* Sampling *)

Failed(s) == [s EXCEPT !.ok = FALSE]

push(s, e) ==
  [s EXCEPT !.h = restore_towards_root(Append(s.h, e), Len(s.h) + 1)]

pop_min_to_m_region(s) ==
  LET n == Len(s.h) IN
  [s EXCEPT !.m = @ + 1,
            !.h = IF n = 1 THEN <<>>
                  ELSE restore_towards_leaves(Front(Swap(s.h, 1, n)), 1)]

downsample_candidate_set_Keep(s, wt_cands, num_cands) ==
  [s EXCEPT !.m = 0, !.r = num_cands, !.tot = wt_cands]

downsample_candidate_set(s, wt_cands, num_cands) ==
  IF num_cands < 2 \/ Len(s.h) + num_cands # s.k + 1 THEN Failed(s)
  ELSE [s EXCEPT !.m = 0, !.r = num_cands - 1, !.tot = wt_cands]

RECURSIVE Grow(_, _, _)
Grow(s, wt_cands, num_cands) ==
  IF s.h # <<>> /\ PeekMin(s) * num_cands < wt_cands + PeekMin(s)
  THEN Grow(pop_min_to_m_region(s), wt_cands + PeekMin(s), num_cands + 1)
  ELSE downsample_candidate_set(s, wt_cands, num_cands)

\* Light items of H join the candidates, of which one is then dropped.
grow_candidate_set(s, wt_cands, num_cands) ==
  IF \/ Len(s.h) + s.m + s.r # s.k + 1
     \/ num_cands < 1 \/ num_cands # s.m + s.r
     \/ s.m >= 2
  THEN Failed(s)
  ELSE Grow(s, wt_cands, num_cands)

transition_from_warmup(s) ==
  LET heap == [s EXCEPT !.h = convert_to_heap(@)]
      one  == pop_min_to_m_region(heap)
      two  == [pop_min_to_m_region(one) EXCEPT !.m = @ - 1, !.r = @ + 1]
  IN IF Len(two.h) # s.k - 1 \/ two.m # 1 \/ two.r # 1 THEN Failed(two)
     ELSE grow_candidate_set([two EXCEPT !.tot = PeekMin(heap)],
                             PeekMin(one) + PeekMin(heap), 2)

update_warmup_phase(s, e) ==
  IF s.r > 0 \/ s.m # 0 \/ Len(s.h) > s.k THEN Failed(s)
  ELSE LET t == [s EXCEPT !.h = Append(@, e)] IN
       IF Len(t.h) > s.k THEN transition_from_warmup(t) ELSE t

update_light(s, e) ==
  IF s.r = 0 \/ s.r + Len(s.h) # s.k THEN Failed(s)
  ELSE grow_candidate_set([s EXCEPT !.m = @ + 1], s.tot + e.wt, s.r + 1)

update_heavy_r_eq1(s, e) ==
  IF s.r # 1 \/ s.m # 0 \/ s.r + Len(s.h) # s.k THEN Failed(s)
  ELSE LET t == push(s, e) IN
       grow_candidate_set(pop_min_to_m_region(t), PeekMin(t) + s.tot, 2)

update_heavy_general(s, e) ==
  IF s.r < 2 \/ s.m # 0 \/ s.r + Len(s.h) # s.k THEN Failed(s)
  ELSE grow_candidate_set(push(s, e), s.tot, s.r)

update(s0, e) ==
  LET s == [s0 EXCEPT !.n = @ + 1]
      light == /\ s.h = <<>> \/ e.wt <= PeekMin(s)
               /\ e.wt * s.r < e.wt + s.tot
  IN IF e.wt = 0 \/ ~s0.ok THEN s0
     ELSE IF s.r = 0 THEN update_warmup_phase(s, e)
     ELSE IF s.h # <<>> /\ LighterThanTau(PeekMin(s), s) THEN Failed(s)
     ELSE IF light THEN update_light(s, e)
     ELSE IF s.r = 1 THEN update_heavy_r_eq1(s, e)
     ELSE update_heavy_general(s, e)

----------------------------------------------------------------------------
(* The union *)

\* One sample fewer: the reservoir grows to take in an item of H.
decrease_k_by_1(s) ==
  LET less == [s EXCEPT !.k = @ - 1] IN
  IF s.k <= 1 THEN Failed(s)
  ELSE IF s.r = 0 THEN
    IF Len(s.h) > less.k THEN transition_from_warmup(less) ELSE less
  ELSE IF s.h # <<>> THEN
    update([less EXCEPT !.h = Front(@), !.n = @ - 1], Last(s.h))
  ELSE IF s.r < 2 THEN Failed(s)
  ELSE [less EXCEPT !.r = @ - 1]

\* A fresh sampler, also the gadget of a union
Fresh(k) ==
  [k |-> k, h |-> <<>>, m |-> 0, r |-> 0, tot |-> 0, n |-> 0, ok |-> TRUE]

\* The weight-correcting iterator over the reservoir
ReservoirItems(s) ==
  [i \in 1 .. s.r |->
     [wt |-> IF i = s.r THEN s.tot - (s.r - 1) * (s.tot \div s.r)
             ELSE s.tot \div s.r,
      mark |-> TRUE]]

merge_items(g, s) == FoldLeft(update, g, s.h \o ReservoirItems(s))

\* o is the largest tau so far, as a fraction; equal ones add up
resolve_tau(o, s) ==
  LET tau == [numer |-> s.tot, denom |-> s.r] IN
  IF s.r = 0 THEN o
  ELSE IF o.denom = 0 \/ s.tot * o.denom > o.numer * s.r THEN tau
  ELSE IF s.tot * o.denom = o.numer * s.r THEN
    [numer |-> o.numer + s.tot, denom |-> o.denom + s.r]
  ELSE o

\* Its fourth condition compares H with the gadget's tau, which is NaN as
\* r = 0, and so never fails.
is_pseudo_exact(g, o) ==
  /\ g.r = 0
  /\ Marks(g.h) > 0
  /\ Marks(g.h) = o.denom

\* H keeps the array order of the gadget
mark_moving_gadget_coercer(g, o) ==
  LET kept == SelectSeq(g.h, LAMBDA e : ~e.mark)
      moved == Weights(g.h) - Weights(kept)
  IN IF moved # o.numer THEN Failed(g)
     ELSE [g EXCEPT !.k = Len(g.h), !.h = kept, !.r = Marks(g.h), !.tot = moved]

RECURSIVE Absorb(_)
Absorb(g) ==
  IF ~g.ok \/ Marks(g.h) = 0 THEN g ELSE Absorb(decrease_k_by_1(g))

migrate_marked_items_by_decreasing_k(g) ==
  IF g.r # 0 /\ Len(g.h) + g.r # g.k THEN Failed(g)
  ELSE LET full == IF g.r = 0 /\ Len(g.h) < g.k
                   THEN [g EXCEPT !.k = Len(g.h)] ELSE g
       IN Absorb(decrease_k_by_1(full))

Gadget(a, b) ==
  LET k == IF a.k >= b.k THEN a.k ELSE b.k IN
  merge_items(merge_items(Fresh(k), a), b)

OuterTau(a, b) ==
  resolve_tau(resolve_tau([numer |-> 0, denom |-> 0], a), b)

\* get_result of a union that was given a, then b
UnionOf(a, b) ==
  LET g == [Gadget(a, b) EXCEPT !.n = a.n + b.n]
      o == OuterTau(a, b)
  IN IF Marks(g.h) = 0 THEN g
     ELSE IF is_pseudo_exact(g, o) THEN mark_moving_gadget_coercer(g, o)
     ELSE migrate_marked_items_by_decreasing_k(g)

----------------------------------------------------------------------------
(* Operations *)

VarOptInit ==
  /\ sampler \in [Sampler -> {Fresh(k) : k \in SampleSize}]
  /\ absorbed = [s \in Sampler |-> 0]
  /\ coerced = [s \in Sampler |-> FALSE]

\* s$update(x, weight): a throw leaves what was done before it
Update(s, w) ==
  LET u == update([sampler[s] EXCEPT !.ok = TRUE], [wt |-> w, mark |-> FALSE])
  IN /\ sampler[s].n < MaxN
     /\ sampler' = [sampler EXCEPT ![s] = u]
     /\ absorbed' = [absorbed EXCEPT ![s] = IF u.ok THEN @ + w ELSE @]
     /\ UNCHANGED coerced

\* a$merge(b) when c is a, else c <- varopt_union(a, b)
Union(c, a, b) ==
  LET u == UnionOf(sampler[a], sampler[b]) IN
  /\ c = a => a # b
  /\ sampler[a].n + sampler[b].n <= MaxN
  /\ IF u.ok
     THEN /\ sampler' = [sampler EXCEPT ![c] = u]
          /\ absorbed' = [absorbed EXCEPT ![c] = absorbed[a] + absorbed[b]]
          /\ coerced' = [coerced EXCEPT ![c] =
               is_pseudo_exact(Gadget(sampler[a], sampler[b]),
                               OuterTau(sampler[a], sampler[b]))]
     ELSE UNCHANGED <<sampler, absorbed, coerced>>

\* What deserialize makes of a payload; m_ is set when R is in use
Deserialized(s) ==
  IF s.h = <<>> /\ s.r = 0 THEN Fresh(s.k)
  ELSE [s EXCEPT !.ok = TRUE, !.m = IF s.r > 0 THEN 1 ELSE 0]

\* validate_and_get_target_size
Readable(s) ==
  IF s.n <= s.k THEN s.n = Len(s.h) /\ s.r = 0
  ELSE Len(s.h) + s.r = s.k /\ s.r > 0

\* c <- varopt(bytes = s$serialize())
RestoreSampler(c, s) ==
  /\ Readable(sampler[s])
  /\ sampler' = [sampler EXCEPT ![c] = Deserialized(sampler[s])]
  /\ absorbed' = [absorbed EXCEPT ![c] = absorbed[s]]
  /\ coerced' = [coerced EXCEPT ![c] = coerced[s]]

VarOptNext ==
  \/ \E s \in Sampler, w \in ArrivalWeight : Update(s, w)
  \/ \E a, b, c \in Sampler : Union(c, a, b)
  \/ \E c, s \in Sampler : RestoreSampler(c, s)

VarOptSpec == VarOptInit /\ [][VarOptNext]_varOptVars

----------------------------------------------------------------------------
(* Properties *)

VarOptTypeOK ==
  /\ \A s \in Sampler : LET v == sampler[s] IN
       /\ v.k \in 1 .. MaxN /\ v.m \in Nat /\ v.r \in 0 .. v.k
       /\ v.tot \in Nat /\ v.n \in 0 .. MaxN /\ v.ok \in BOOLEAN
       /\ \A i \in DOMAIN v.h : v.h[i].wt \in Nat \ {0} /\ ~v.h[i].mark
  /\ absorbed \in [Sampler -> Nat]
  /\ coerced \in [Sampler -> BOOLEAN]

\* No sampling step, merge or change of k loses weight: H and R together
\* carry the weight of the whole stream.
WeightConserved ==
  \A s \in Sampler :
    Weights(sampler[s].h) + sampler[s].tot = absorbed[s]

\* A sampler is exact, or full with a reservoir in use; so its payload can
\* be read back.
SampleComplete ==
  \A s \in Sampler : LET v == sampler[s] IN
    /\ Readable(v)
    /\ v.n <= v.k => v.tot = 0

Above(v) == \A i \in DOMAIN v.h : ~LighterThanTau(v.h[i].wt, v)
Ordered(v) ==
  v.r > 0 => \A i \in 2 .. Len(v.h) : v.h[i \div 2].wt <= v.h[i].wt

\* H is in heap order and holds nothing that belongs in the reservoir,
\* unless it came through the coercer.
HeavyInHeap ==
  \A s \in Sampler : ~coerced[s] => Above(sampler[s]) /\ Ordered(sampler[s])

\* None of the logic errors strikes a merge, nor an update of a sampler
\* that was not restored into sampling mode and did not come through the
\* coercer.
CallsReturn ==
  /\ \A a, b \in Sampler : UnionOf(sampler[a], sampler[b]).ok
  /\ \A s \in Sampler : sampler[s].m = 0 /\ ~coerced[s] => sampler[s].ok

\* A restored sampler stands for the same sample.
SameSample ==
  \A c, s \in Sampler : RestoreSampler(c, s) =>
    /\ sampler'[c].k = sampler[s].k /\ sampler'[c].n = sampler[s].n
    /\ sampler'[c].h = sampler[s].h /\ sampler'[c].r = sampler[s].r
    /\ sampler'[c].tot = sampler[s].tot

SamplerRestored == [][SameSample]_varOptVars

\* "items in H should not be lighter than the sketch's tau"
\* (var_opt_union_impl.hpp, detect_and_handle_subcase_of_pseudo_exact).
HeavyAboveTau == \A s \in Sampler : Above(sampler[s])

\* "Pass `bytes` to reconstruct a sketch" (R/sampling-varopt.R): what comes
\* back takes updates as the sketch did that was serialized.
RestoredAcceptsUpdates ==
  \A s \in Sampler, w \in ArrivalWeight :
    ~coerced[s] =>
      update([sampler[s] EXCEPT !.ok = TRUE], [wt |-> w, mark |-> FALSE]).ok
=============================================================================
