----------------------------- MODULE MCDistinct -----------------------------
(***************************************************************************)
(* The sketches that remember which values came, for TLC: theta as samples *)
(* and over its tables, with summaries in the array of doubles, HLL, CPC,  *)
(* and the Bloom filter.  They share nothing; a behaviour uses the one     *)
(* that `family` names.                                                    *)
(***************************************************************************)
EXTENDS Theta, HLL, BloomFilter, Sequences, TLC

VARIABLES
  family,
  t_sk, t_hint, t_truth,                        \* theta's tables
  tuple, tuple_hint, totals,                    \* the array of doubles
  cpc, met, revived,                            \* CPC
  slots, number, stored,                        \* its table of pairs
  entries, auxCount, least, exceptions,         \* HLL's exceptions map
  coupons, couponCount, came                    \* HLL's set of coupons

----------------------------------------------------------------------------
(* The instances *)

TT == INSTANCE ThetaTable WITH
  Hash <- {1, 2, 5, 6}, MAX_THETA <- 7, MIN_LG_K <- 1, RESIZE_FACTOR <- 1,
  LgKs <- {1, 2}, DEFAULT_LG_K <- 1, BYTE <- 3, BLOCK <- 3,
  sk <- t_sk, hint <- t_hint, truth <- t_truth

TU == INSTANCE Tuple WITH
  Hash <- {1, 2, 3}, MAX_THETA <- 4, Widths <- {1, 2}, DEFAULT_WIDTH <- 1,
  MIN_WIDTH <- 1, MAX_WIDTH <- 2, Summand <- {1, 2}, MaxTotal <- 2

\* Addresses share a slot at one width and not at the other; the greater values
\* are exceptions at first.
MCCoupon == {<<0, 1>>, <<0, 4>>, <<1, 1>>, <<2, 4>>, <<3, 3>>}
MCConfig == {<<1, "HLL_4">>, <<2, "HLL_4">>, <<1, "HLL_8">>, <<2, "HLL_6">>}

\* Rows 0 and 2 are one row of the narrower sketches.
MCCpcCoupon == {<<0, 0>>, <<1, 0>>, <<2, 0>>, <<0, 1>>, <<1, 3>>}

C == INSTANCE Cpc WITH
  CpcSketch <- Sketch, Rows <- {2, 4}, CpcCoupon <- MCCpcCoupon, COLUMNS <- 4, WINDOW <- 1,
  SPARSE_32NDS <- 24, PINNED_8THS <- 8, SLIDE_8THS <- 10, REFRESH <- 2,
  PHASES <- 2, Permutation <- [p \in {0, 1} |-> IF p = 0 THEN <<2, 0, 1>> ELSE <<1, 2, 0>>]

\* Pairs of four bits that share places in tables of four, eight and sixteen, the
\* last ones wrapping around
U == INSTANCE U32Table WITH
  Pair <- {0, 1, 5, 12, 13, 14, 15}, VALID_BITS <- 4, MIN_LG_SIZE <- 2

\* Slots that share places in tables of two to sixteen, with equal and with
\* different strides; two coupons of one address
HT == INSTANCE HLLTables WITH
  Address <- {0, 4, 8, 10, 13}, Exceptional <- {1, 2, 3},
  Coupon <- {<<0, 1>>, <<0, 2>>, <<4, 1>>, <<8, 1>>, <<10, 2>>, <<13, 1>>, <<13, 3>>},
  AUX_SIZE <- 2, SET_SIZE <- 2, MAX_SET_SIZE <- 8

\* Under the first seed the values' bits overlap.
MCBitsOf ==
  [c \in {1, 2} |-> IF c = 1 THEN <<{0, 1}, {1, 2}>> ELSE <<{0}, {1, 2}>>]

\* Payloads with real bytes and blocks: everything up to ten hashes, with
\* differences of one to nine bits, at two thetas, comes back.
P8 == INSTANCE ThetaPayload WITH MAX_THETA <- 500, BYTE <- 8, BLOCK <- 8

ASSUME PayloadsRoundTrip ==
  \A S \in SUBSET {1, 2, 3, 4, 5, 7, 8, 9, 300, 301}, theta \in {400, 500} :
    LET c == [empty |-> S = {} /\ theta = 500, theta |-> theta,
              entries |-> SelectSeq([h \in 1 .. 301 |-> h], LAMBDA h : h \in S)]
    IN P8!Deserialize(P8!SerializeCompressed(c)) = c

\* Pairs as a CPC payload carries them, with real rows and columns, at all the
\* numbers of bits their count may choose
P64 == INSTANCE CpcPayload WITH
  COLUMNS <- 64, WINDOW <- 8, SPARSE_32NDS <- 3, PINNED_8THS <- 4, SLIDE_8THS <- 27,
  PHASES <- 16, Permutation <- [p \in 0 .. 15 |-> [c \in 1 .. 56 |-> 56 - c]]

ASSUME PairsRoundTrip ==
  \A S \in SUBSET {<<0, 0>>, <<0, 63>>, <<1, 0>>, <<1, 1>>, <<6, 62>>, <<15, 5>>} \ {{}} :
    LET sorted == P64!SortedPairs(S)
        base_bits == P64!NumBaseBits(16, Len(sorted))
    IN P64!UncompressPairs(P64!CompressPairs(sorted, base_bits), base_bits) = sorted

ASSUME U!U32Assumption
ASSUME HT!HLLTablesAssumption
ASSUME TU!TupleAssumption
ASSUME FilterAssumption

----------------------------------------------------------------------------
(* One family at a time *)

tableVars == <<t_sk, t_hint, t_truth>>
tupleVars == <<tuple, tuple_hint, totals>>
cpcVars == <<cpc, met, revived>>
pairVars == <<slots, number, stored>>
exceptionVars == <<entries, auxCount, least, exceptions>>
couponVars == <<coupons, couponCount, came>>
hllTableVars == <<exceptionVars, couponVars>>

\* The variables of a family that is not in use stand at nothing; those of Theta,
\* HLL and the Bloom filter, whose properties are stated as they are, at sketches
\* that stay new.
MCInit ==
  /\ family \in {"theta", "table", "tuple", "hll", "cpc", "pairs",
                "exceptions", "coupons", "bloom"}
  /\ Init
  /\ family # "theta" => \A s \in Sketch : hint[s] = DEFAULT_WIDTH
  /\ IF family = "table" THEN TT!Init ELSE t_sk = {} /\ t_hint = {} /\ t_truth = {}
  /\ IF family = "tuple" THEN TU!TupleInit
     ELSE tuple = {} /\ tuple_hint = {} /\ totals = {}
  /\ HllInit
  /\ family # "hll" => \A s \in HllSketch : hll[s].lgK = 1 /\ hll[s].type = "HLL_8"
  /\ IF family = "cpc" THEN C!CpcInit ELSE cpc = {} /\ met = {} /\ revived = {}
  /\ IF family = "pairs" THEN U!TableInit ELSE slots = {} /\ number = {} /\ stored = {}
  /\ IF family = "exceptions" THEN HT!AuxInit
     ELSE entries = {} /\ auxCount = {} /\ least = {} /\ exceptions = {}
  /\ IF family = "coupons" THEN HT!SetInit
     ELSE coupons = {} /\ couponCount = {} /\ came = {}
  /\ FilterInit
  /\ family # "bloom" => \A f \in Filter : setting[f] = 1

MCNext ==
  \/ /\ family = "theta" /\ Next
     /\ UNCHANGED <<family, tableVars, tupleVars, hllVars, cpcVars, pairVars,
                    hllTableVars, filterVars>>
  \/ /\ family = "table" /\ TT!Next
     /\ UNCHANGED <<family, vars, tupleVars, hllVars, cpcVars, pairVars,
                    hllTableVars, filterVars>>
  \/ /\ family = "tuple" /\ TU!TupleNext
     /\ UNCHANGED <<family, vars, tableVars, hllVars, cpcVars, pairVars,
                    hllTableVars, filterVars>>
  \/ /\ family = "hll" /\ HllNext
     /\ UNCHANGED <<family, vars, tableVars, tupleVars, cpcVars, pairVars,
                    hllTableVars, filterVars>>
  \/ /\ family = "cpc" /\ C!CpcNext
     /\ UNCHANGED <<family, vars, tableVars, tupleVars, hllVars, pairVars,
                    hllTableVars, filterVars>>
  \/ /\ family = "pairs" /\ U!TableNext
     /\ UNCHANGED <<family, vars, tableVars, tupleVars, hllVars, cpcVars, hllTableVars,
                    filterVars>>
  \/ /\ family = "exceptions" /\ HT!AuxNext
     /\ UNCHANGED <<family, vars, tableVars, tupleVars, hllVars, cpcVars, pairVars,
                    couponVars, filterVars>>
  \/ /\ family = "coupons" /\ HT!SetNext
     /\ UNCHANGED <<family, vars, tableVars, tupleVars, hllVars, cpcVars, pairVars,
                    exceptionVars, filterVars>>
  \/ /\ family = "bloom" /\ FilterNext
     /\ UNCHANGED <<family, vars, tableVars, tupleVars, hllVars, cpcVars, pairVars,
                    hllTableVars>>

MCVars == <<family, vars, tableVars, tupleVars, hllVars, cpcVars, pairVars, hllTableVars,
            filterVars>>

MCSpec == MCInit /\ [][MCNext]_MCVars

\* Two families of their own, for the claims they do not keep.
CpcOnly == MCInit /\ family = "cpc" /\ [][MCNext]_MCVars
BloomOnly == MCInit /\ family = "bloom" /\ [][MCNext]_MCVars

Symmetry == Permutations(Sketch)

----------------------------------------------------------------------------
(* Properties: those of the modules, where the family is in use *)

\* The type invariants of the modules.
TypesOK ==
  /\ TypeOK /\ HllTypeOK /\ FilterTypeOK
  /\ family = "cpc" => C!CpcTypeOK

\* Theta's tables and arrays, CPC's table of pairs, HLL's exceptions and coupons,
\* whatever made them: every search ends, and finds the keys that are there;
\* compact sketches are sorted and below theta, and the columns of an array of
\* doubles are those of its entries.
StorageWellFormed ==
  /\ family = "table" => TT!TableWellFormed /\ TT!CompactSorted
  /\ family = "pairs" => U!PairsFound
  /\ family = "exceptions" => HT!ExceptionsFound
  /\ family = "coupons" => HT!CouponsFound
  /\ family = "tuple" => TU!SummariesPaired

\* TT!ImplementsTheta: the tables are sketches of Theta.  The steps of the other
\* families leave its variables alone.
ImplementsTheta ==
  /\ family = "table" => TT!T!Init
  /\ [][family = "table" => [TT!T!Next]_(TT!T!vars)]_tableVars

\* CPC, whatever moved its window, merged or restored it: its bits are those of the
\* values that came, none of its std::logic_errors is met, the HIP registers are
\* right wherever they are read, and it is read back as it was written.
CpcExact ==
  family = "cpc" => C!CouponsExact /\ C!NoLogicError /\ C!HipExact /\ C!CpcRestored

\* The claims that are not kept; see the modules.
HipReady == C!HipReady
=============================================================================
