# TLA+ models of data.sketches

TLA+ modules, TLC configurations and TLAPS proofs kept beside the R package
`data.sketches` (R6 classes over a cpp11 bridge over the vendored Apache
DataSketches C++ headers). Every definition is translated from the code that
`PROJECT.json` names for it ("map"); comments quote the documentation where a
property states one of its promises.

Run a model with `tlc -config weighted.cfg MCWeighted.tla`, check a proof with
`tlapm WeightedProofs.tla`.

## 1. The system

Three layers, one process, one thread:

1. **R** (`R/*.R`). One R6 generator for each family. `initialize`, `update`,
   `merge`, `serialize` and the queries validate their arguments (`R/checks.R`)
   and raise *classed* conditions before anything changes. Private fields hold
   the native handle (`ptr`) and, for theta and array of doubles, a seed and a
   width hint that the native sketch does not keep. `R/print.R` adds S3 display
   methods.
2. **Bridge** (`src/*.cpp`, `src/native_utils.h`). Free functions over external
   pointers. `*_from_xptr` raises a plain error for a dead handle; update loops
   let the user interrupt every 65536 elements; payloads are raw vectors.
3. **Native sketches** (`src/datasketches/*/include`). Header-only C++.

There are no locks or messages. What is hard is *histories*: a sketch is
updated, compacted, merged with others of other sizes, written to bytes and read
back, combined in set operations, interrupted or revived without its handle,
in any order, and must answer for the whole history; and *data structures*
that are probed, rebuilt, compacted and packed in place.

| Component | State | Operations | Must hold |
|---|---|---|---|
| Frequent items (`fi/`) | counters, `offset`, total weight | update, purge, merge, (de)serialize, bounds, frequent rows | true weight between the bounds; total weight exact; error bounded by the size of the map |
| Reverse purge hash map | keys, values, drift states of a probing table | adjust or insert, grow, purge with deletion, strided iteration | a counter is where `get` looks for it; purge subtracts once from each; a free slot remains |
| Count-min (`count/`) | cells, total weight, seed | update with a weight of either sign, merge, payload | no underestimate; error within the weight of the others |
| Theta (`theta/`) | entries, theta, empty and ordered flags, widths | update, rebuild, trim, union, intersection, difference, Jaccard, compact, restore, merge | retained = the hashes of the set below theta; the empty flag; accuracy of the configured width |
| Theta tables and payloads | open addressing with double hashing, sorted arrays, packed differences | insert, resize, rebuild, early-stopping readers, pack, unpack | implements the sets above |
| Array of doubles (`tuple/`) | theta entries with summaries | as theta | a retained key carries all that came with it |
| HLL (`hll/`) | coupons or registers, base value, exceptions | update, promotions, base shift, union, conversion | registers are the maxima of the inputs; incremental sums match them |
| CPC (`cpc/`) | table of pairs, window, offset, HIP registers | update, window moves, union, payload by flavor | the bit matrix is that of the coupons; no bit lost by a move |
| Pairs of CPC (`u32_table`) | linear probing with deletion | insert, delete, grow, shrink | every search ends and finds what is there |
| Bloom filter (`filters/`) | bits, cached count and its dirty mark | update, query and update, union, intersect, invert, payload | no false negative; the count is right or known not to be |
| KLL (`kll/`) | levels of items, buffer capacity, min/max, cached view | update, compact, merge, query, payload | weights add up to n; ranks within the halvings made |
| REQ (`req/`) | compactors with state, sections, coin; two cached counters | update, compress, merge, query, payload | weights add up; compression is triggered; ranks at the protected end exact |
| t-digest (`tdigest/`) | centroids, buffer, direction | update, compress, merge, rank, quantile, payload | weights add up; ranks and quantiles grow |
| VarOpt (`sampling/`) | heap, candidates, reservoir and its weight | update, union with marks, payload | weight conserved; regions disjoint and complete |
| EBPPS (`sampling/`) | sample with a partial item, rate | update, merge, payload | every item in the sample at the same rate |
| R objects and bridge | class, seed, compactness, handle | construct, update, interrupt, merge, restore, readRDS, display, query | an update absorbs a prefix, failures change nothing, every failure is classed, calls return |

Components interact by calls only: an R method calls the validators, then one
bridge function, which runs one native operation to its end (only the update
loops can stop halfway). Two objects meet in `merge` and in the set
operations; R objects share no native sketch (`cloneable = FALSE`).

The hazards of this code are listed, line by line, in `PROJECT.json`
("hazards") with the property that watches each.

## 2. Modules

```
MCWeighted     EXTENDS Weighted                     INSTANCE FrequentItemsTable
Weighted       EXTENDS FrequentItems, CountMin
MCRetained     EXTENDS KLL                          INSTANCE Req, TDigest, VarOpt, Ebpps
MCDistinct     EXTENDS Theta, HLL, BloomFilter      INSTANCE ThetaTable, Tuple, HLLTables, Cpc,
                                                             U32Table, ThetaPayload, CpcPayload
MCFrequentItems, MCTheta, MCSketchObject   one module each

FrequentItems <-- refined by -- FrequentItemsTable -- uses --> ReversePurgeHashMap
Theta         <-- refined by -- ThetaTable -- uses --> ThetaUpdateSketchBase, ThetaPayload
Theta         <-- instance of its samples -- Tuple
CpcPayload    <-- extended by -- Cpc
WeightedProofs EXTENDS Weighted, ThetaProofs EXTENDS Theta, TupleProofs EXTENDS Tuple,
BloomFilterProofs EXTENDS BloomFilter, SketchObjectProofs EXTENDS SketchObject,
KLLProofs EXTENDS KLL, HLLProofs EXTENDS HLL
TupleProofs INSTANCE ThetaProofs
InductionTheorems (used by the proofs of Weighted, Tuple, SketchObject, KLL and HLL)
```

The families of sketches share no state. An MC module declares the variables of
several of them and a variable `family` that never changes; a behaviour is one
of that family, the others stay at their initial state. The families an MC module
EXTENDS have constants, variables and actions of different names (`CMUpdate`, `HllUpdate`,
`Add`), so that the properties a run checks are the ones the theorems state; a
property of an instance is named in the MC module.

**FrequentItems** — `frequent_items_sketch_impl.hpp` and the loops of its
bridge. A sketch is a counter for each item (0: not in the map), an offset and
a total weight. `Update` is `update()` with the purge it may trigger: the median
of a sample of the counters is subtracted from all of them and added to the
offset; `IsMedian` and `Samples` leave open which counters a large map samples.
`merge` and `deserialize` replay counters through `update`, one at a time, so
they are `Begin`, `Replay` and `End` actions around the variable `call`; no
other action runs meanwhile. `truth` and `dropped` are histories.

**ReversePurgeHashMap**, **FrequentItemsTable** — the probing table: keys, values
and drift states, insertion, growth, `subtract_and_keep_positive_only` with
`hash_delete`, and the iterator with its golden-ratio stride. FrequentItemsTable
runs the same sketch over these tables; the hash of each item is a variable
that never changes, so that the model checks every hash function. Its refinement
mapping reads the counters out of the tables.

**CountMin** — `count_min_impl.hpp`. The array of cells is one function, a row
after the other; the hashes are the constant `BucketOf`. `cm_truth` and `mass` are
the weights that came for each item, signed and absolute: what is promised for
non-negative weights is asked only where they agree.

**Theta** — `update_theta_sketch`, compact sketches, union, intersection,
difference, Jaccard's shortcut and the R methods over them. A sketch is a set of
hashes with theta, a flag and a width; hash values are drawn from a small range, and
theta is a hash value or `MAX_THETA`. `truth` is the set a result stands for. R's
width hint is a variable of its own (`hint`): `HintsFromRetained` gives the
widths the code may guess from a count.

**ThetaUpdateSketchBase**, **ThetaTable** — the hash tables (double hashing,
resize, rebuild with `nth_element`) and the sorted arrays of compact sketches,
with the readers that stop at the first entry not below theta when the input is
ordered. ThetaTable implements Theta.

**ThetaPayload** — the bytes between `$serialize()` and `bytes =`: whether to
compress, the number of bits of a difference, the count in as many bytes as it
needs, differences packed in blocks and one by one over byte boundaries.
`bit_packing.hpp` has one unrolled function for each of 63 bit widths; `PackBlock`
models all of them as the loop they unroll. ThetaTable's `Restore` reads back what
this module writes, and an assumption of MCDistinct checks the round trip with
real bytes and blocks of eight.

**Tuple** — `tuple_*_impl.hpp` and the array-of-doubles bridge. The templates are
those of theta, so a sketch is a sample of `Theta` (instance `T`) with a summary for
each entry, and an operation is Theta's with the summaries carried along. One
column stands for `num_values`.

**HLL** — `CouponList`, `CouponHashSet`, `Hll4Array`, `Hll6Array`, `Hll8Array`, the
exceptions map and `HllUnion` under `hll_merge_cpp`. A sketch is a record with its
mode, its coupons or its array as stored (for HLL_4 the excess over `curMin`, with
`AUX_TOKEN` for a register kept in `aux`), and the incremental summaries the
estimators read. `HllUpdate` is a coupon with the promotion, growth or base shifts it
sets off; `HllMerge` builds the union's gadget, feeds it both sketches and converts
it back; `err` is raised where the array code throws. Hash tables of coupons and
exceptions are sets and functions here, without the order in which they are walked.
Loops over coupons or registers are folds over sets: no order is chosen, and no result may
depend on one. Of the HIP accumulator only its sign is kept. Histories: `seen` is the greatest
value absorbed by address, `mixed` the sketches made of two arrays.

**HLLTables** — `AuxHashMap-internal.hpp` and `CouponHashSet-internal.hpp`, the two tables
that HLL sees as a map and as a set: searches by an odd stride that depends on key
and size, `mustAdd` and `mustReplace`, growth, the new map of a base shift, the
coupons up to the promotion, and how both are read back from a payload. A lookup
that would throw leaves the operation without a step, and `ExceptionsFound` and
`CouponsFound` say of every state that no lookup would.

**Cpc**, **CpcPayload** — `cpc_sketch_impl.hpp`, `cpc_union_impl.hpp` and, for the
payload, `cpc_compressor_impl.hpp`. Coupons are pairs of row and column. `Update`
covers the sparse form, the promotion to a window, the windowed form with its
inverted bits, and `MoveWindow` with the refresh of `kxp`, which is kept exactly,
scaled by a power of two. `Merge` is the R method over a native union, with its
accumulator as a sketch while it is sparse and as a bit matrix afterwards. A
payload is written by flavor: which pairs, in which order, with which columns
shifted or permuted, as differences in unary and base bits, and read back; the
entropy code words for window and columns are left out. `err` is raised where the
code throws a `logic_error`.

**U32Table** — `u32_table_impl.hpp`, the table of CPC's pairs that Cpc sees as a set:
linear probing from the high bits, deletion by re-inserting what follows, growth
and shrinking, and the two constructions from sorted pairs.

**BloomFilter** — `bloom_filter_impl.hpp`. Bits are a set, an item is the set of bits
it selects. The cached count, its dirty mark and who clears it are kept exactly,
because queries, payloads and `is_empty` depend on them: a dirty count is written as
`DIRTY_BITS_VALUE`, a restored filter keeps that number, and counting on from it wraps
around (`Counted`). `lapsed` marks the filters whose dirty mark was cleared over a
stale count (§4). The empty string is not among the values: `update` and
`query_and_update` return before they touch the filter, and `query` denies it.

**KLL** — `kll_sketch_impl.hpp` and `kll_helper_impl.hpp`. Levels are sequences;
level zero keeps insertion order, newest first, as the buffer does. Each coin
toss is a choice, so an operation yields the set of its outcomes. Loops are recursive
functions and sums, never RECURSIVE operators, so that they can be reasoned about:
`TakenFromFirst` is how far the sorted merge has come in its first argument,
`WithItems` the loop over level zero of the other sketch, `sweep` the turns of
`general_compress`. A level's width follows `int_cap_aux`, in two steps below depth 30.
`Compressed` is `compress_while_updating`, `GeneralCompressed` the sweep over
the levels in a merge, `Query` the in-place sort of level zero and the cached
view, `Restored` a round trip. Histories: `seen` counts the stream, `slack` adds
the weight of one item for each halving, `ks` holds the widths that halved.

**Req** — `req_sketch_impl.hpp`, `req_compactor_impl.hpp`. A compactor has its items,
its state, sections and coin; how much it compacts follows from the state.
`retained` and `nom` are the counters the code keeps beside the compactors and
compares for equality. Both accuracies (`hra`) are initial states.

**TDigest** — `tdigest_impl.hpp`. The scale function, a logarithm, is a constant table of
ratios; means are exact fractions. Whatever reads the digest compresses it first,
as the code does, so queries are actions.

**VarOpt** — `var_opt_sketch_impl.hpp`, `var_opt_union_impl.hpp`. Every branch of
`update` (warm-up, light, heavy with one and with many in the reservoir), the
heap operations on an array, `downsample_candidate_set`, the union with its marked
gadget, the simple, exact and coercing ways to a result, and payloads. `ok` is
false where the code throws.

**Ebpps** — `ebpps_sketch_impl.hpp`, `ebpps_sample_impl.hpp`. Which item is kept is
random and not told apart; instead `rates` follows the probability with which each
item is in the sample, as an exact fraction, through updates and merges.

**SketchObject** — the R objects: `initialize`, `update`, `merge`, `bytes =`,
`saveRDS`/`readRDS`, display and queries, for three representative classes: a
weighted one (frequent items), one with seeds that is frozen by a merge (theta)
and a plain one (KLL). A native sketch is the sequence of elements it absorbed.
The native loop is one `Absorb` action for each element, so that `Interrupt` and
the bridge's own validation happen between elements; `Kept` is what the R method
leaves of a vector when it drops missing values. `outcome` says how a call
ended: normally, with a classed condition, with a plain error, interrupted.

## 3. Runs

| Run | Checks | Bounds |
|---|---|---|
| `weighted` | `TypesOK`, `BoundsBracketTruth`, `ErrorWithinShare`, `TotalWeightExact`, `FrequentItemsSound`, `EstimatesBracketTruth`, `TableSound`, `RestoresFaithful`, `ImplementsFrequentItems` | 2 sketches, 3 items; maps of 2 and 4 slots at load 1/2, weight up to 6; for the table every hash into 4 slots, weight up to 4; count-min of 3 configurations, weights -1 and 2, total up to 4 |
| `fi_merge` | refutes `UpperBoundGuaranteed` | 4 items, load 3/4 |
| `retained` | `TypesOK`, `NoLogicErrors`, `AnswersBracketTruth`, `RankClaimsSound`, `RanksMonotone`, `RestoresFaithful`, `WeightConserved`, `CompressionNotMissed`, `SampleShaped`, `PresenceProportionalBelowMax`, `SamplersRestored` | KLL of widths 2 and 3, least level capacity 2, up to 8 items in a sketch; REQ of widths 2, 4 and 8, up to 10 items; t-digest over values 1, 2, 4, two compressions, a buffer of 3, weight up to 6; VarOpt of k 1 and 3, weights 12 and 60, up to 5 items; EBPPS of k 1 to 3, weights 1, 2, 6, up to 5 items |
| `tdigest` | refutes `QuantilesOrdered` | as `retained` |
| `varopt` | refutes `RestoredAcceptsUpdates` | as `retained` |
| `ebpps` | refutes `PresenceProportional` | as `retained` |
| `distinct` | `TypesOK`, `SampleExact`, `EmptyFlagSound`, `UpdateSketchKeepsWidth`, `JaccardOneMeansEqual`, `StorageWellFormed`, `RegistersExact`, `SummariesExact`, `HipOnlyInOrder`, `MergeCommutes`, `HllRestored`, `CpcExact`, `MembersRecognised`, `MergeKeepsWidth`, `ImplementsTheta` | theta of 3 hashes, widths 1, 2, 4; its tables of 4 hashes in 4 to 8 slots, payloads with bytes and blocks of 3; array of doubles of 3 hashes; HLL of 4 configurations, 5 coupons; CPC of 2 and 4 rows and 4 columns, a window of 1, 5 coupons; 7 pairs in tables of 4 to 16; 5 slots and 7 coupons in HLL's tables of 2 to 8; Bloom filters of 3 bits, 2 values, 2 configurations, counts up to 7 for 2^64 - 1 |
| `theta_hint` | refutes `RoundTripUnionsAtWidth` | 5 hashes, widths 1, 2, 4 |
| `cpc` | refutes `HipReady` | as `distinct` |
| `bloom` | refutes `NoFalseNegatives` | as `distinct` |
| `object` | `TypeOK`, `SeedsAgree`, `UpdateAbsorbsPrefix`, `FailuresChangeNothing`, `CallsReturn` | 2 objects of 3 classes, 2 seeds, updates of up to 2 elements, interruptible after each |
| `object_errors` | refutes `EveryFailureIsClassed` | as `object` |

Why the bounds are enough.

* *Frequent items*: three items exceed the capacity of both map sizes at load 1/2
  (1 and 2), so purges happen while updating and while merging, with counters
  that reach zero and counters that do not; weight 6 is the least at which a
  purged sketch merges into another purged one. The load factor is 1/2 instead
  of 3/4 because with 3/4 a 4-slot table would be full at a purge, which the code
  excludes by `LG_MIN_MAP_SIZE = 3`.
* *Theta*: 3 hashes against widths 1 and 2 give rebuilds, trims, empty results with
  theta below 1 and hints that guess wrong. The hashes of the table collide, and
  their differences need one bit and several, in blocks and singly.
* *HLL*: the sizes are scaled together: a list of 2, a set of 2 places that grows to
  4, exceptions from an excess of 2 on (15 in the code), values up to 4; sketches
  pass through all modes, the base shifts, exceptions return to the array or stay,
  unions downsample the gadget as well as the source. Its tables grow twice, their
  keys share places with equal and with different strides, and the set fills up.
* *CPC*: thresholds are scaled to 4 rows and 4 columns so that all five flavors, the
  promotion, several moves of the window, its inverted bits on both sides and
  both forms of the union occur.
* *KLL, REQ*: widths and least capacities are scaled down so that three levels, odd
  levels, merges of several levels that add a level, and mixed widths occur; REQ's
  sections double.
* *VarOpt*: weights 12 and 60 make light and heavy arrivals, tau between and above
  them, and merges that need each of the three resolutions. *EBPPS*: weights up to
  six times the least change rho from both sides.
* *Objects*: `PROBE = 1` makes every element an interrupt point, where the code has
  one each 65536.

Fairness. Only `object` states one: weak fairness of `Absorb` and `Finish`. R has
one thread: while a native loop runs, it is what runs, and nothing but its own end
or an interrupt takes it from there. Users need not call or interrupt anything.
All other properties are safety properties: the native operations are single
steps, and a loop that would not end leaves its operation disabled or raises a
flag that a property forbids (`StorageWellFormed`, `TableSound`, `SummariesExact`).

## 4. What the refuting runs show

* `fi_merge`: `is_empty()` means "no active counter". A purge whose median
  reaches every counter leaves a sketch with an offset and a weight but no
  counter; merging it is skipped and serializing it writes an empty sketch, so
  "guaranteed" upper bounds fall below true weights. `weighted` states the
  other guarantees up to the offsets lost this way (`dropped`).
* `theta_hint`: a sketch wider than the default that is still exact comes back
  from bytes with a narrower hint, and unions of restored sketches are sampled.
* `tdigest`: between two centroids `get_quantile` gives each mean the weight of its
  own distance instead of the other's (`tdigest_impl.hpp:189-191`), so quantiles fall
  where the rank grows.
* `varopt`: `deserialize` leaves `m = 1` in a sampler with a reservoir; every later
  update fails with a `logic_error`.
* `ebpps`: a merge computes the new greatest weight and does not keep it, so
  items are no longer in the sample in proportion to their weights.
  `PresenceProportionalBelowMax` is what remains. Apart from that, an empty receiver
  takes a smaller `k` without shrinking the sample it adopts, which is then larger
  than `k`; `SampleShaped` excepts it.
* `cpc`: the payload of an empty sketch carries no HIP registers and `deserialize`
  leaves `kxp = 0`; the next update divides by it. `CpcExact` excepts such
  sketches from what it says of the registers.
* `bloom`: `query_and_update` clears the dirty mark of a filter whose count is stale; a
  filter with members can then count as empty, and is queried and serialized as
  such. `MembersRecognised` excepts such filters until they are counted again. In a
  filter restored with a dirty count the stale number is 2^64 - 1, and one new bit
  wraps it to 0.
* `object_errors`: a method of an object revived by `readRDS()` reaches the
  bridge, whose plain error no `datasketches_error` handler catches.

Noted without a run: with `no_false_negatives` and a threshold below the maximum
error, `frequent_items()` cannot return every item (`FrequentItemsSound` asks for
a threshold of at least the maximum error, the default); the theta difference
builds its lookup table at its nominal size, and from half full on each insertion
rehashes a table of the same size; REQ takes `k` through a `uint8_t`, so widths from
256 on wrap around (`WidthAsConfigured` in `Req` states the documented range; the
third width of `retained` wraps); samplers that VarOpt's coercer produced may hold
items lighter than tau in an unordered heap, which a comment in
`var_opt_union_impl.hpp` excludes (`HeavyAboveTau` in `VarOpt`); payloads of
`kll_floats` and `kll_doubles` carry the same family id, so one class accepts the
payload of the other; the comment at `R/cardinality-theta.R:424` about a width of 12
for compact inputs is out of date; strings that are empty are ignored by theta
(`theta_sketch_impl.hpp:197`) and by HLL, where `R/cardinality-hll.R` says that each
element contributes.

## 5. Proofs

TLAPS proves the following for every value of the constants allowed by the
named assumptions.

`WeightedProofs`, frequent items. `TypeOK`, the bounds and the frequent rows are not inductive: a
purge keeps the bounds only because every counter loses the same amount and the
offset gains it, and a merge only because the replayed part of the other sketch is
known halfway. `IInv` adds: capacity is not exceeded (`CapacityInv`); during a
merge the receiver brackets its own history plus the replayed counters
(`MergeInv`); during a restore the receiver holds exactly the replayed counters
and has not purged (`RestoreInv`). From it: `TypeCorrect`, `BoundsHold`,
`FrequentItemsHold`, `RoundTrip`. The total weight and the error need what sums say:
`WeightInv` adds that the counters and what every counter of a full map has given
to the offset never exceed the total weight, also in the middle of a replay, where
the receiver has paid for the offset before the donor's is added to it. A purge
pays because the median of a sample leaves half of the sample at or above it
(`WeightInvariance`). From it: `TotalWeightHolds`, `ErrorHolds`.

`InductionTheorems`. The provers have no induction with an operator for its
hypothesis, so the induction here is over a *set* of numbers or a set of sets
(`NatInductionSet`, `UptoInduction`, `SetInduction`), each from the least counterexample.
From it: a recursive function over `0..N` exists and has the values its equations give
(`RecursionExists`, `RecursionType`), and the laws of sums over a finite set, by
which folds with `+` can be reasoned about (`SumStep`, `SumMonotone`, ...).

`ThetaProofs`. `IInv` says that each sketch is a sound sample of its set, with room for
its entries; one lemma for each operation shows that sound arguments give a sound
result. From it: `TypeCorrect`, `SamplesExact`, `EmptyFlagsSound`, `WidthsKept`,
`JaccardSound`, `MergesKeepWidth`.

`TupleProofs`. Arrays of doubles implement Theta (`TupleImplementsTheta`). The refinement
mapping forgets the summaries and takes the keys whose total is positive for the set. A step
alone does not map: that a union carries whole totals needs to know that a key which one
argument does not retain, and which is below its theta, never came to it, so `TupleInv` joins the
pairing of summaries and totals with the invariant of Theta, taken over from `ThetaProofs`
through an instance. What a payload gives back needs the keys in their order to be all the keys,
each once (`InOrderListsAll`). From it: `SummariesCarried`, and `TupleSamplesExact`, which is
Theta's result read through the mapping.

`WeightedProofs`, count-min. Neither promise about estimates is inductive. `CMIInv` speaks of every
cell an item may read, not of the least one: it is off by the weight of the other
items at most and, where no weight was negative, not below the item's own (`Sound`);
no cell holds more than the total, so a sketch that counts as empty has empty cells.
From it: `CMTypeCorrect`, `Overestimates` (no underestimate), `ErrorBounded`, both as
`EstimatesBracket`, and `RestoresExact`, for
every number of rows and buckets and every hash function (`CountMinAssumption`).
With the results on frequent items: `TypesCorrect` and `RoundTrips`, of both families.

`BloomFilterProofs`. `IInv` separates what the run's property mixes: the bits of all
members are set, always; and the count is right, marked dirty, or known to have
lapsed. That the empty shortcut never hides a member then follows from items
having at least one bit (`FilterAssumption`). From it: `CountsHonest`, `MembersFound`,
`PayloadsWhole`, together `FilterRecognisesMembers`. The assumptions of both modules are hypotheses of the theorems; the
runs evaluate them for their instances.

`SketchObjectProofs`. `CallInv` describes the sketch in the middle of a call: it is the
sketch from before, followed by what the loop has absorbed so far of the elements
that are not missing, each with its own weight although elements and weights are
filtered apart; and the validators are at least as strict as the loop, so that it
never refuses an element. From it: `TypeCorrect`, `UpdatesAbsorbPrefixes` and
`FailuresAreAtomic`, for vectors of any length and any number of objects. A missing
value is assumed not to be an element (`SentinelAssumption`), and 1, the weight of an
update without weights, to be one.
`SeedsAgree` alone is not inductive: an empty theta sketch may be
read back under another seed. `IInv` adds that such a sketch is compact, that whatever
can still take an element has R's seed, and that the sketch of a running update
is one of these. From it: `SeedsAlwaysAgree`, and `MergesMatch`: two live sketches that R lets
merge never fail on their seeds in the bridge.

`KLLProofs`. What the run of KLL checks on two items and two small widths
holds for every finite set of items, every k, any number of sketches and all coins.
The accuracy is not inductive as users see it, in quantiles and ranks of a cached
view. `Sound` says it of the levels instead: for each *downward closed* set of items,
the weight of the retained items in it is off the number of items seen in it by at
most the slack (`Near`). Halving a sorted level changes such a count by one of its
items at most, since in sorted order the items of the set come first (`HalvesFacts`); the merge of
sorted levels changes no count and keeps them sorted (`MergeCounts`, `MergeOrdered`). The rest
of `Sound` is what the halvings need and leave: levels above zero sorted and,
if there are any, the top one not empty (`Proper`), the items within the capacity of that many
levels, the total weight n; minK and k equal and the slack zero while there is one level, because
bytes of one item hold neither minK nor extremes (`Widths`, `ReadOne`); and the cached
view weighing each set as the levels do, from which sorting level zero does not distract
(`Viewed`). The lemmas follow the code, one for each function: `CompressedFacts`,
`InsertedFacts`, `WithItemsFacts`, `WorkLevelsFacts`, `CompressedAtFacts` and
`GeneralCompressedFacts`. The last needs an invariant of the sweep: the levels passed are within their
capacities (`Pressed`), so that after the turns that `ub_on_num_levels` allows, all of
them are. The top level is never empty and weighs 2^h, which bounds the number of levels
by n (`TopBound`). From it: `TypeCorrect`, `NoLogicErrorHolds`, `AnswersBracketTruthHolds`,
`EffectiveKHolds`, `RestoreFaithfulHolds`. `int_cap_aux` throws beyond 60 levels; a stream would
need 2^60 items to get there.

`HLLProofs`. What the run checks on arrays of at most four registers and five coupons holds for
every set of coupons, all widths and types, any number of sketches, and all sizes at which LIST
and SET are promoted that keep the order of the constants in `HllUtil.hpp` (`HLLAssumption`).
None of the properties is inductive: after a base shift the registers are right only
because nibbles, exceptions map and curMin moved together, and in the middle of a
merge the gadget's summaries are wrong on purpose. The proof therefore separates what an
array *encodes* from how: `Encodes(h, v)` says that nibbles and exceptions of `h` are those of the
values `v`, `Summed` that curMin, its count and both sums are those of `v`, and
`Array` that some slot of an HLL_4 array is at curMin. Storing a value keeps the first
in each of the four cases of `internalHll4Update` (`StoredFacts`); `shiftToBiggerCurMin` keeps the
values, lowers every nibble, and releases exactly the exceptions that now fit, so that none
of its four throws is due (`ShiftFacts`); the loop of shifts ends because curMin stays below
some value (`LoopFacts`). A fold of coupons in any order raises each slot to the greatest
(`ArrayUpdatesFacts`), by induction over the set that is folded; a conversion restores
the summaries whatever they were (`ConvertFacts`), which is what the rebuild flag relies on.
Before an array there are coupons: a LIST or SET *recalls* what was absorbed (`Recall`), the size
of its table is a function of their number (`Fits`), and a promotion gives the array they say (`MadeHolds`).
`Sound` joins these with the two flags. `MergeSound` treats the four cases of two sketches
in coupons or in an array, each through both calls of `hll_union::update` and the copy back:
the result holds the greater of what both had absorbed (`Greater`) at the narrower of the widths
of the arrays, and the answers are a function of that alone (`SameEither`), hence the merge
commutes. A payload is the sketch because `Fits` determines the table's size (`RestoredSame`).
From it: `HllTypeCorrect`, `HllRegistersExact`, `HllSummariesExact`, `HllHipOnlyInOrder`,
`HllMergeCommutes`, `HllRestoreFaithful`.

Only model-checked: the table and payload modules and their refinements (HLL's tables too),
`Cpc`, the samplers, `TDigest` and `Req`. Some of them have RECURSIVE operators,
which are out of the SMT backend's reach; the others sum over cells or
centroids and fold over sequences, which takes the induction of `InductionTheorems`
and a lemma for each fold, as KLL's levels do. `CallsReturn`, a liveness property, stays with TLC: the provers
here have neither fairness nor ENABLED.

## 6. Plan

Done, in this order: FrequentItems and its proofs, its tables, Theta and its
proofs, its tables and payloads, SketchObject, KLL, HLL and its tables, count-min, Bloom, VarOpt,
EBPPS, Tuple, CPC with its table and payloads, REQ, t-digest, the proofs of
count-min and Bloom, induction and sums, the weights of frequent items, the
calls of R objects, the proofs of KLL, of HLL, and of the refinement of Theta by Tuple.

Next:

1. Proofs: the step simulation of ThetaTable by Theta; well-formedness of the probing
   tables.
2. The code words of CPC's compressor, as prefix codes.

## 7. Not modelled

* Estimators and confidence bounds: floating-point statistics without state.
* The hash functions: pure arithmetic; every model quantifies over hashes.
* The glue generated by cpp11 (`cpp11.cpp`, `cpp11.R`), one wrapper for each function.
* CPC's code words (`compression_data.hpp`): 6,000 lines of constant tables; the round
  trip of the words rests on their being prefix codes.
* The vendored families no R class reaches: `density/` and classic `quantiles/`.
* KLL over floats: the template of KLL over doubles; only the input narrows.
* Byte layouts other than theta's and CPC's: payloads are modelled by what they
  keep and what is derived on reading. Theta payloads of versions 1 and 2 and wrapped
  sketches, t-digest payloads of other libraries, and HLL payloads in other layouts
  are not written by the package.
* Bloom filters of 2^32 bits or more and filters over foreign memory; the latter
  cannot be reached from R.
* VarOpt's `tau` as a NaN of an empty reservoir in the pseudo-exact comparison is modelled
  as a comparison that fails, not as a value; `estimate_subset_sum` is left out.
* R code run from inside the interrupt probe; formatting and display.
