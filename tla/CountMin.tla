------------------------------ MODULE CountMin ------------------------------
(***************************************************************************)
(* The count-min sketch (datasketches/count) behind R's count_min objects: *)
(* num_hashes rows of num_buckets cells.  An update adds the weight of an  *)
(* item to one cell of each row, an estimate is the smallest of them.      *)
(* Weights may be negative (R/count-min.R, update); the total sums their   *)
(* absolute values.                                                        *)
(***************************************************************************)
EXTENDS Integers, FiniteSets

CONSTANTS
  CMSketch,       \* native sketches, one behind each R object
  Counted,        \* the values of the stream
  EmptyString,    \* the item that string streams ignore
  CMConfig,       \* [num_hashes, num_buckets, seed] of the sketches created
  BucketOf,       \* BucketOf[c][x][r]: MurmurHash3 of x under the r-th seed
                  \* drawn from c.seed, modulo num_buckets
  SeedHash,       \* compute_seed_hash, 16 bits of a hash of the seed
  CountedWeight,  \* weights a stream may carry
  MaxCounted      \* bound: total weight a sketch absorbs

Rows(c) == 0 .. c.num_hashes - 1
Slots(c) == 0 .. c.num_hashes * c.num_buckets - 1
MIN_BUCKETS == 3

Seeds == {c.seed : c \in CMConfig}

\* compute_seed_hash cannot tell all seeds apart; those in use differ in it.
CountMinAssumption ==
  /\ CMConfig \subseteq [num_hashes : Nat \ {0}, num_buckets : Nat, seed : Seeds]
  /\ \A c \in CMConfig : c.num_buckets >= MIN_BUCKETS
  /\ \A c \in CMConfig, x \in Counted :
       \A r \in Rows(c) : BucketOf[c][x][r] \in 0 .. c.num_buckets - 1
  /\ \A c, d \in CMConfig : SeedHash[c.seed] = SeedHash[d.seed] => c.seed = d.seed
  /\ CountedWeight \subseteq Int /\ MaxCounted \in Nat

VARIABLES
  config,     \* _num_hashes, _num_buckets and _seed of each sketch
  cells,      \* _sketch_array
  cm_weight,  \* _total_weight
  cm_truth,   \* history: weight of each item in the stream absorbed
  mass        \* history: the same, of the absolute values

cmVars == <<config, cells, cm_weight, cm_truth, mass>>

----------------------------------------------------------------------------
(* Cells *)

Abs(w) == IF w >= 0 THEN w ELSE -w

\* get_hashes: one cell in the part of the array that belongs to the row
Location(c, x, r) == r * c.num_buckets + BucketOf[c][x][r]

Locations(c, x) == {Location(c, x, r) : r \in Rows(c)}
Readings(s, x) == {cells[s][l] : l \in Locations(config[s], x)}

\* get_estimate: std::min_element of the readings, a single value
Estimates(s, x) ==
  IF x = EmptyString THEN {0}
  ELSE {e \in Readings(s, x) : \A v \in Readings(s, x) : e <= v}

IsEmptyCM(s) == cm_weight[s] = 0

----------------------------------------------------------------------------
(* Operations *)

NoCells(c) == [l \in Slots(c) |-> 0]
Nothing == [x \in Counted |-> 0]

CMInit ==
  /\ config \in [CMSketch -> CMConfig]
  /\ cells = [s \in CMSketch |-> NoCells(config[s])]
  /\ cm_weight = [s \in CMSketch |-> 0]
  /\ cm_truth = [s \in CMSketch |-> Nothing]
  /\ mass = [s \in CMSketch |-> Nothing]

\* update(item, weight); an empty string returns at once
CMUpdate(s, x, w) ==
  /\ x # EmptyString
  /\ cm_weight[s] + Abs(w) <= MaxCounted
  /\ cm_weight' = [cm_weight EXCEPT ![s] = @ + Abs(w)]
  /\ cells' = [cells EXCEPT ![s] =
       [l \in Slots(config[s]) |->
          IF l \in Locations(config[s], x) THEN @[l] + w ELSE @[l]]]
  /\ cm_truth' = [cm_truth EXCEPT ![s][x] = @ + w]
  /\ mass' = [mass EXCEPT ![s][x] = @ + (IF w >= 0 THEN w ELSE -w)]
  /\ UNCHANGED config

Compatible_Size(s, t) ==
  /\ config[s].num_hashes = config[t].num_hashes
  /\ config[s].num_buckets = config[t].num_buckets

\* What both the R method and the native merge require
Compatible(s, t) ==
  /\ config[s].num_hashes = config[t].num_hashes
  /\ config[s].num_buckets = config[t].num_buckets
  /\ config[s].seed = config[t].seed

\* s$merge(t); a sketch is never merged with itself
CMMerge(s, t) ==
  /\ s # t
  /\ Compatible(s, t)
  /\ cm_weight[s] + cm_weight[t] <= MaxCounted
  /\ cells' = [cells EXCEPT ![s] =
       [l \in Slots(config[s]) |-> @[l] + cells[t][l]]]
  /\ cm_weight' = [cm_weight EXCEPT ![s] = @ + cm_weight[t]]
  /\ cm_truth' = [cm_truth EXCEPT ![s] = [x \in Counted |-> @[x] + cm_truth[t][x]]]
  /\ mass' = [mass EXCEPT ![s] = [x \in Counted |-> @[x] + mass[t][x]]]
  /\ UNCHANGED config

\* serialize: an empty sketch is its header alone, and deserialize then
\* leaves the cells of a new sketch
Payload(s) ==
  [config |-> config[s],
   cells |-> IF IsEmptyCM(s) THEN NoCells(config[s]) ELSE cells[s],
   cm_weight |-> IF IsEmptyCM(s) THEN 0 ELSE cm_weight[s]]

\* t <- count_min(bytes = s$serialize(), seed = seed)
CMRestore(t, s, seed) ==
  LET p == Payload(s) IN
  /\ SeedHash[seed] = SeedHash[p.config.seed]
  /\ config' = [config EXCEPT ![t] = [p.config EXCEPT !.seed = seed]]
  /\ cells' = [cells EXCEPT ![t] = p.cells]
  /\ cm_weight' = [cm_weight EXCEPT ![t] = p.cm_weight]
  /\ cm_truth' = [cm_truth EXCEPT ![t] = cm_truth[s]]
  /\ mass' = [mass EXCEPT ![t] = mass[s]]

CMNext ==
  \/ \E s \in CMSketch, x \in Counted, w \in CountedWeight : CMUpdate(s, x, w)
  \/ \E s, t \in CMSketch : CMMerge(s, t)
  \/ \E s, t \in CMSketch, seed \in Seeds : CMRestore(t, s, seed)

CMSpec == CMInit /\ [][CMNext]_cmVars

----------------------------------------------------------------------------
(* Properties *)

CMTypeOK ==
  /\ config \in [CMSketch -> CMConfig]
  /\ \A s \in CMSketch : cells[s] \in [Slots(config[s]) -> Int]
  /\ cm_weight \in [CMSketch -> Nat]
  /\ cm_truth \in [CMSketch -> [Counted -> Int]]
  /\ mass \in [CMSketch -> [Counted -> Nat]]

\* While no weight was negative an estimate is never below the true weight,
\* through collisions, merges and restores (R/count-min.R: "one-sided error:
\* `$estimate()` never under-estimates the true frequency").
NeverUnderestimates ==
  \A s \in CMSketch :
    (\A x \in Counted : cm_truth[s][x] = mass[s][x]) =>
      \A x \in Counted : \A e \in Estimates(s, x) : e >= cm_truth[s][x]

\* Whatever the signs of the weights, an estimate is off by no more than the
\* absolute weight the sketch absorbed from the other items.
ErrorWithinOthers ==
  \A s \in CMSketch, x \in Counted : \A e \in Estimates(s, x) :
    LET others == cm_weight[s] - mass[s][x] IN
    /\ e - cm_truth[s][x] <= others
    /\ cm_truth[s][x] - e <= others

\* What an estimate says of the true weight of an item.
EstimatesBracketTruth == NeverUnderestimates /\ ErrorWithinOthers

\* A restored sketch holds what was serialized, the cells of a sketch that
\* counts as empty included; a wrong seed changes nothing.
CMRestoreFaithful ==
  [][\A s, t \in CMSketch : \A seed \in Seeds : CMRestore(t, s, seed) =>
       /\ config'[t] = config[s]
       /\ cells'[t] = cells[s]
       /\ cm_weight'[t] = cm_weight[s]]_cmVars
=============================================================================
