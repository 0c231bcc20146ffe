----------------------------- MODULE MCRetained -----------------------------
(***************************************************************************)
(* The sketches that retain items of the stream, for TLC: KLL, REQ and the *)
(* t-digest, which answer for ranks, and the VarOpt and EBPPS samplers.    *)
(* They share nothing; a behaviour uses the one that `family` names.       *)
(***************************************************************************)
EXTENDS KLL

VARIABLES
  family,
  req, streamed, widths,                               \* REQ
  digest, arrived,                                     \* t-digest
  sampler, absorbed, coerced,                          \* VarOpt
  reservoir, taken, rates, outweighed, adopted         \* EBPPS

----------------------------------------------------------------------------
(* The instances *)

\* The third width does not fit the byte it is passed through.
RQ == INSTANCE Req WITH
  ReqSketch <- Sketch, ReqValue <- Item, Width <- {2, 4, 8}, BYTE <- 8,
  MIN_K <- 2, INIT_NUM_SECTIONS <- 1, Unseen <- NoView,
  MaxHeld <- 3, MaxItems <- 10

\* Four values are enough for a cluster of two, or six of them.
MCNormalizer ==
  [k \in {1, 2} |-> [n \in 1 .. 6 |-> IF k = 1 THEN <<1, 4>> ELSE <<1, 2>>]]

TD == INSTANCE TDigest WITH
  Digest <- Sketch, Value <- {1, 2, 4}, Compression <- {1, 2},
  Normalizer <- MCNormalizer, BufferSize <- 3, INFINITY <- 100,
  MaxHeld <- 4, MaxWeight <- 6

VO == INSTANCE VarOpt WITH
  Sampler <- Sketch, SampleSize <- {1, 3}, ArrivalWeight <- {12, 60}, MaxN <- 5

EB == INSTANCE Ebpps WITH
  Reservoir <- Sketch, K <- {1, 2, 3}, ItemWeight <- {1, 2, 6}, MaxItems <- 5

----------------------------------------------------------------------------
(* One family at a time *)

reqVars == <<req, streamed, widths>>
tdigestVars == <<digest, arrived>>
varOptVars == <<sampler, absorbed, coerced>>
ebppsVars == <<reservoir, taken, rates, outweighed, adopted>>

\* The sketches of a family that is not in use have one configuration.
MCInit ==
  /\ family \in {"kll", "req", "tdigest", "varopt", "ebpps"}
  /\ Init
  /\ family # "kll" => \A o \in Sketch : sk[o].k = 2
  /\ RQ!ReqInit
  /\ family # "req" => \A o \in Sketch : req[o].k = 2 /\ req[o].hra
  /\ TD!TDigestInit
  /\ family # "tdigest" => \A o \in Sketch : digest[o].k = 1
  /\ VO!VarOptInit
  /\ family # "varopt" => \A o \in Sketch : sampler[o].k = 1
  /\ EB!EbppsInit
  /\ family # "ebpps" => \A o \in Sketch : reservoir[o].k = 1

MCNext ==
  \/ /\ family = "kll" /\ Next
     /\ UNCHANGED <<family, reqVars, tdigestVars, varOptVars, ebppsVars>>
  \/ /\ family = "req" /\ RQ!ReqNext
     /\ UNCHANGED <<family, vars, tdigestVars, varOptVars, ebppsVars>>
  \/ /\ family = "tdigest" /\ TD!TDigestNext
     /\ UNCHANGED <<family, vars, reqVars, varOptVars, ebppsVars>>
  \/ /\ family = "varopt" /\ VO!VarOptNext
     /\ UNCHANGED <<family, vars, reqVars, tdigestVars, ebppsVars>>
  \/ /\ family = "ebpps" /\ EB!EbppsNext
     /\ UNCHANGED <<family, vars, reqVars, tdigestVars, varOptVars>>

MCVars ==
  <<family, vars, reqVars, tdigestVars, varOptVars, ebppsVars>>

MCSpec == MCInit /\ [][MCNext]_MCVars

\* Each family of its own, for the claims it does not keep.
TDigestOnly == MCInit /\ family = "tdigest" /\ [][MCNext]_MCVars
VarOptOnly == MCInit /\ family = "varopt" /\ [][MCNext]_MCVars
EbppsOnly == MCInit /\ family = "ebpps" /\ [][MCNext]_MCVars

Symmetry == Permutations(Sketch)

----------------------------------------------------------------------------
(* Properties: those of the modules, where the family is in use *)

\* The type invariants of the modules.
TypesOK ==
  /\ family = "kll" => TypeOK
  /\ family = "req" => RQ!ReqTypeOK
  /\ family = "tdigest" => TD!TDigestTypeOK
  /\ family = "varopt" => VO!VarOptTypeOK
  /\ family = "ebpps" => EB!EbppsTypeOK

\* What a sketch writes is what it reads back.
RestoresFaithful ==
  /\ family = "kll" => RestoreFaithful
  /\ family = "req" => RQ!ReqRestored
  /\ family = "tdigest" => TD!DigestRestored

\* No operation gains or loses weight, and the extremes of quantile sketches
\* are those of the stream.
WeightConserved ==
  /\ family = "req" => RQ!ReqWeightConserved
  /\ family = "tdigest" => TD!DigestComplete
  /\ family = "varopt" => VO!WeightConserved
  /\ family = "ebpps" => EB!CumulativeExact

\* No internal error of the code is due, in KLL's buffer nor in VarOpt's
\* regions.
NoLogicErrors ==
  /\ family = "kll" => NoLogicError
  /\ family = "varopt" => VO!CallsReturn

\* What the rank errors are computed from: KLL's least width, and the ranks
\* that REQ calls exact.
RankClaimsSound ==
  /\ family = "kll" => EffectiveKSound
  /\ family = "req" => RQ!ExactRanksExact

\* t-digest: the ends are single values, and ranks in between grow.
RanksMonotone ==
  family = "tdigest" => TD!ExtremesStandAlone /\ TD!RanksMonotone

\* See the modules.
CompressionNotMissed == family = "req" => RQ!CompressionNotMissed
PresenceProportionalBelowMax ==
  family = "ebpps" => EB!PresenceProportionalBelowMax

\* A sampler is complete: full, or with all that came, the heavy items apart.
SampleShaped ==
  /\ family = "varopt" => VO!SampleComplete /\ VO!HeavyInHeap
  /\ family = "ebpps" => EB!SampleShaped

\* A restored sampler holds the same sample.
SamplersRestored ==
  [][/\ family = "varopt" => VO!SameSample
     /\ family = "ebpps" => EB!SameReservoir]_MCVars

\* Claims the code does not keep; see the modules.
QuantilesOrdered == TD!QuantilesOrdered
RestoredAcceptsUpdates == VO!RestoredAcceptsUpdates
PresenceProportional == EB!PresenceProportional
=============================================================================
