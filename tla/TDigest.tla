------------------------------- MODULE TDigest -------------------------------
(***************************************************************************)
(* The t-digest (datasketches/tdigest) behind R's tdigest_double objects:  *)
(* centroids in order of their means and a buffer of values that queries,  *)
(* serialization and a full buffer merge into them.  A scale function      *)
(* keeps the centroids near the ends small.                                *)
(*                                                                         *)
(* Values are integers and a mean is kept as sum over weight, exactly; the *)
(* logarithm in the normalizer is a parameter.  The buffer is a bag, as    *)
(* equal values cannot be told apart.                                      *)
(***************************************************************************)
EXTENDS Integers, Sequences, SequencesExt

CONSTANTS
  Digest,      \* native sketches, one behind each R object
  Value,       \* values of the stream
  Compression, \* values of k_
  Normalizer,  \* Normalizer[k][n]: scale_function's, as <<numerator, denominator>>
  BufferSize,  \* centroids_capacity_ * BUFFER_MULTIPLIER
  INFINITY,    \* above every value
  MaxHeld,     \* bound: weight of all digests that take a further update
  MaxWeight    \* bound: weight of a merged digest

VARIABLES
  digest,   \* [k, buffer, centroids, reverse, min, max] of each
  arrived   \* history: how often each value was absorbed

tdigestVars == <<digest, arrived>>

----------------------------------------------------------------------------
(* Centroids are [sum, wt] *)

Centroid(v) == [sum |-> v, wt |-> 1]
Add(c, e) == [sum |-> c.sum + e.sum, wt |-> c.wt + e.wt]

MeanBelow(c, e) == c.sum * e.wt < e.sum * c.wt
TotalOf(cs) == FoldLeft(LAMBDA n, c : n + c.wt, 0, cs)

Values == SetToSeq(Value)
Emptied == [v \in Value |-> 0]
Held(bag) == MapThenSumSet(LAMBDA v : bag[v], Value)
Singles(bag) ==
  FoldLeft(LAMBDA cs, v : cs \o [j \in 1 .. bag[v] |-> Centroid(v)], <<>>, Values)

\* std::stable_sort with centroid_cmp
StableInsert(cs, e) ==
  LET before == SelectSeq(cs, LAMBDA c : ~MeanBelow(e, c)) IN
  Append(before, e) \o SubSeq(cs, Len(before) + 1, Len(cs))

StableSort(cs) == FoldLeft(StableInsert, <<>>, cs)

Fits_LowerEnd(k, proposed, before, total) ==
  proposed * total * Normalizer[k][total][1]
    <= before * (total - before) * Normalizer[k][total][2]

\* A cluster of the proposed weight, at either of its ends
Fits(k, proposed, before, total) ==
  \A x \in {before, before + proposed} :
    proposed * total * Normalizer[k][total][1]
      <= x * (total - x) * Normalizer[k][total][2]

\* The loop of the private merge; the second element always stands alone.
Clustered(k, cs, total) ==
  LET Step(acc, i) ==
        LET back == Last(acc.out) IN
        IF i # 2 /\ Fits(k, back.wt + cs[i].wt, acc.before, total)
        THEN [acc EXCEPT !.out = Append(Front(@), Add(back, cs[i]))]
        ELSE [out |-> Append(acc.out, cs[i]), before |-> acc.before + back.wt]
  IN FoldLeft(Step, [out |-> <<Head(cs)>>, before |-> 0],
              [i \in 1 .. Len(cs) - 1 |-> i + 1]).out

Turned(reverse, cs) == IF reverse THEN Reverse(cs) ELSE cs

LeastOf(a, b) == IF a < b THEN a ELSE b
GreatestOf(a, b) == IF a > b THEN a ELSE b

\* The private merge of incoming centroids with the digest's own.  The new
\* extremes are the first and last means.
MergeIn(d, incoming) ==
  LET all == Turned(d.reverse, StableSort(incoming \o d.centroids))
      cs == Turned(d.reverse, Clustered(d.k, all, TotalOf(all)))
      first == Head(cs) last == Last(cs)
  IN [d EXCEPT !.centroids = cs, !.buffer = Emptied, !.reverse = ~@,
               !.min = LeastOf(@, first.sum \div first.wt),
               !.max = GreatestOf(@, last.sum \div last.wt)]

compress(d) ==
  IF d.buffer = Emptied THEN d ELSE MergeIn(d, Singles(d.buffer))

Weight(d) == TotalOf(d.centroids) + Held(d.buffer)

----------------------------------------------------------------------------
(* Operations *)

NewDigest(k) ==
  [k |-> k, buffer |-> Emptied, centroids |-> <<>>, reverse |-> FALSE,
   min |-> INFINITY, max |-> -INFINITY]

TDigestInit ==
  /\ digest \in [Digest -> {NewDigest(k) : k \in Compression}]
  /\ arrived = [s \in Digest |-> Emptied]

\* s$update(v)
UpdateDigest(s, v) ==
  LET d == IF Held(digest[s].buffer) = BufferSize
           THEN compress(digest[s]) ELSE digest[s]
  IN /\ MapThenSumSet(LAMBDA t : Weight(digest[t]), Digest) < MaxHeld
     /\ digest' = [digest EXCEPT ![s] =
          [d EXCEPT !.buffer[v] = @ + 1, !.min = LeastOf(@, v), !.max = GreatestOf(@, v)]]
     /\ arrived' = [arrived EXCEPT ![s][v] = @ + 1]

Merged(d, e) ==
  IF Weight(e) = 0 THEN d
  ELSE MergeIn(d, Singles(d.buffer) \o Singles(e.buffer) \o e.centroids)

\* s$merge(t); a sketch is never merged with itself
MergeDigest(s, t) ==
  /\ s # t
  /\ Weight(digest[s]) + Weight(digest[t]) <= MaxWeight
  /\ digest' = [digest EXCEPT ![s] = Merged(@, digest[t])]
  /\ arrived' = [arrived EXCEPT ![s] = [v \in Value |-> @[v] + arrived[t][v]]]

\* quantile, rank, cdf and pmf compress first
QueryDigest(s) ==
  /\ digest' = [digest EXCEPT ![s] = compress(@)]
  /\ UNCHANGED arrived

\* deserialize of what serialize wrote; a lone value has no centroids there
Reread(d) ==
  IF Weight(d) = 0 THEN NewDigest(d.k)
  ELSE IF Weight(d) = 1
  THEN [d EXCEPT !.max = d.min, !.centroids = <<Centroid(d.min)>>]
  ELSE d

\* t <- tdigest_double(bytes = s$serialize()); serialize compresses s
RestoreDigest(t, s) ==
  LET d == compress(digest[s]) IN
  /\ digest' = [[digest EXCEPT ![s] = d] EXCEPT ![t] = Reread(d)]
  /\ arrived' = [arrived EXCEPT ![t] = arrived[s]]

TDigestNext ==
  \/ \E s \in Digest, v \in Value : UpdateDigest(s, v)
  \/ \E s, t \in Digest : MergeDigest(s, t) \/ RestoreDigest(t, s)
  \/ \E s \in Digest : QueryDigest(s)

TDigestSpec == TDigestInit /\ [][TDigestNext]_tdigestVars

----------------------------------------------------------------------------
(* Answers of a compressed digest, with W = its weight *)

Before(cs, i) == TotalOf(SubSeq(cs, 1, i - 1))
AtLeast(c, x) == c.sum >= x * c.wt
Above(c, x) == c.sum > x * c.wt

\* get_rank(x) between the extremes, as a fraction <<p, q>> with q > 0.  Its
\* tails, below the first mean and above the last, are never taken
\* (ExtremesStandAlone).
Rank(d, x) ==
  LET cs == d.centroids
      lb == Min({i \in DOMAIN cs : AtLeast(cs[i], x)})
      ub == Min({i \in lb .. Len(cs) : Above(cs[i], x)} \cup {Len(cs) + 1})
      l == IF Above(cs[lb], x) THEN lb - 1 ELSE lb
      u == IF ub > Len(cs) \/ AtLeast(cs[ub - 1], x) THEN ub - 1 ELSE ub
      below2 == 2 * Before(cs, l) + cs[l].wt
      delta2 == 2 * (Before(cs, u) - Before(cs, l)) - cs[l].wt + cs[u].wt
      \* (x - mean_l) / (mean_u - mean_l)
      up == (x * cs[l].wt - cs[l].sum) * cs[u].wt
      across == cs[u].sum * cs[l].wt - cs[l].sum * cs[u].wt
  IN IF x < d.min THEN <<0, 1>>
     ELSE IF x > d.max THEN <<1, 1>>
     ELSE IF Len(cs) = 1 THEN <<1, 2>>
     ELSE IF across > 0
     THEN <<below2 * across + delta2 * up, 2 * across * TotalOf(cs)>>
     ELSE <<2 * below2 + delta2, 4 * TotalOf(cs)>>

GRAIN == 4
MeanOf(c) == <<c.sum, c.wt>>

WeightedAverage(c, w1, e, w2) ==
  <<c.sum * e.wt * w1 + e.sum * c.wt * w2, c.wt * e.wt * (w1 + w2)>>

\* get_quantile(w / GRAIN / W).  Its tails are never taken either.
Quantile(d, w) ==
  LET cs == d.centroids
      Centre(i) == GRAIN * Before(cs, i) + (GRAIN \div 2) * cs[i].wt
      i == Min({j \in 1 .. Len(cs) - 1 : Centre(j + 1) > w})
      Half(c) == IF c.wt = 1 THEN GRAIN \div 2 ELSE 0
      c == cs[i] e == cs[i + 1]
  IN IF Len(cs) = 1 THEN MeanOf(cs[1])
     ELSE IF w < GRAIN THEN <<d.min, 1>>
     ELSE IF w > GRAIN * (TotalOf(cs) - 1) THEN <<d.max, 1>>
     ELSE IF c.wt = 1 /\ w - Centre(i) < GRAIN \div 2 THEN MeanOf(c)
     ELSE IF e.wt = 1 /\ Centre(i + 1) - w <= GRAIN \div 2 THEN MeanOf(e)
     ELSE WeightedAverage(c, w - Centre(i) - Half(c), e, Centre(i + 1) - w - Half(e))

NotAbove(p, q) == p[1] * q[2] <= q[1] * p[2]

----------------------------------------------------------------------------
(* Properties *)

TDigestTypeOK ==
  /\ \A s \in Digest : LET d == digest[s] IN
       /\ d.k \in Compression /\ d.reverse \in BOOLEAN
       /\ d.buffer \in [Value -> Nat]
       /\ \A c \in ToSet(d.centroids) : c.sum \in Int /\ c.wt \in Nat \ {0}
       /\ {d.min, d.max} \subseteq Value \cup {INFINITY, -INFINITY}
  /\ arrived \in [Digest -> [Value -> Nat]]

Compressed == {s \in Digest : digest[s].buffer = Emptied /\ digest[s].centroids # <<>>}

\* Centroids and buffer together carry every value of the stream, in weight
\* and in sum, and the extremes are those of the stream.
DigestComplete ==
  \A s \in Digest :
    LET d == digest[s]
        came == {v \in Value : arrived[s][v] > 0}
    IN /\ Weight(d) = Held(arrived[s])
       /\ FoldLeft(LAMBDA n, c : n + c.sum, 0, d.centroids \o Singles(d.buffer))
            = MapThenSumSet(LAMBDA v : v * arrived[s][v], Value)
       /\ came # {} => d.min = Min(came) /\ d.max = Max(came)

\* The first and the last centroid are single values, the extremes, through
\* merges in both directions; get_rank and get_quantile rely on it, their
\* formulas for heavier ends are wrong.  Means are in order in between.
ExtremesStandAlone ==
  \A s \in Digest : LET d == digest[s] cs == d.centroids IN
    cs # <<>> =>
      /\ Head(cs).wt = 1 /\ Last(cs).wt = 1
      /\ s \in Compressed => Head(cs).sum = d.min /\ Last(cs).sum = d.max
      /\ \A i \in 2 .. Len(cs) : ~MeanBelow(cs[i], cs[i - 1])

\* Ranks lie in [0, 1] and grow with the value.
RanksMonotone ==
  \A s \in Compressed : \A v \in digest[s].min .. digest[s].max :
    /\ NotAbove(<<0, 1>>, Rank(digest[s], v))
    /\ NotAbove(Rank(digest[s], v), Rank(digest[s], v + 1))
    /\ NotAbove(Rank(digest[s], v + 1), <<1, 1>>)

\* "quantile() is vectorized, shape-preserving, and ordered"
\* (tests/testthat/test-quantiles-tdigest-double.R:44).
QuantilesOrdered ==
  \A s \in Compressed :
    \A w \in 0 .. GRAIN * TotalOf(digest[s].centroids) - 1 :
      NotAbove(Quantile(digest[s], w), Quantile(digest[s], w + 1))

\* What a digest writes, compressed, is what it reads back.
DigestRestored ==
  \A s \in Digest :
    LET d == compress(digest[s]) IN Reread(d) = d
=============================================================================
