---------------------------- MODULE TupleProofs ----------------------------
(***************************************************************************)
(* What holds of the array of doubles for every set of hashes, widths and  *)
(* values and every sequence of operations: without their summaries its    *)
(* sketches behave as those of Theta, so that what is proved of Theta      *)
(* holds of them, and a retained key carries the whole of what came with   *)
(* it.                                                                     *)
(***************************************************************************)
EXTENDS Tuple, FunctionTheorems, InductionTheorems

Samples == [o \in Sketch |-> Sample(tuple[o])]
Came(t) == {h \in Hash : t[h] > 0}
Truths == [o \in Sketch |-> Came(totals[o])]

\* What is proved of Theta, for the sketches without their summaries
TP == INSTANCE ThetaProofs WITH sk <- Samples, hint <- tuple_hint, truth <- Truths

SummaryType == UNION {[E -> Nat] : E \in SUBSET Hash}

TupleType ==
  [compact : BOOLEAN, empty : BOOLEAN, theta : 1 .. MAX_THETA, width : Widths \cup {0},
   summary : SummaryType]

\* A sketch carries the totals t of the keys it retains.
Paired(s, t) == \A h \in DOMAIN s.summary : s.summary[h] > 0 /\ s.summary[h] = t[h]

Carried ==
  /\ tuple \in [Sketch -> TupleType]
  /\ totals \in [Sketch -> [Hash -> Nat]]
  /\ \A o \in Sketch : Paired(tuple[o], totals[o])

TupleInv == Carried /\ TP!IInv

----------------------------------------------------------------------------
(* Keys in order *)

\* A finite set of numbers can be put in order.
LEMMA OrderExists ==
  ASSUME NEW M \in Nat, NEW S \in SUBSET (1 .. M)
  PROVE  \E keys \in [1 .. Cardinality(S) -> S] :
           \A i, j \in 1 .. Cardinality(S) : i < j => keys[i] < keys[j]
  <1> DEFINE Increasing(U, f) == \A i, j \in 1 .. Cardinality(U) : i < j => f[i] < f[j]
             G == {U \in SUBSET S : \E f \in [1 .. Cardinality(U) -> U] : Increasing(U, f)}
  <1>1. IsFiniteSet(S)
    <2>1. IsFiniteSet(1 .. M)
      BY FS_Interval
    <2> QED BY <2>1, FS_Subset
  <1>2. ASSUME NEW U \in SUBSET S, \A x \in U : U \ {x} \in G
        PROVE  U \in G
    <2>0. IsFiniteSet(U) /\ Cardinality(U) \in Nat
      BY <1>1, FS_Subset, FS_CardinalityType
    <2>00. \A t \in U : t \in Nat /\ t >= 1 /\ t <= M
      OBVIOUS
    <2>1. CASE U = {}
      <3>1. Cardinality(U) = 0
        BY <2>1, FS_EmptySet
      <3>2. [i \in {} |-> 0] \in [1 .. Cardinality(U) -> U] /\ 1 .. Cardinality(U) = {}
        BY <3>1
      <3> QED BY <3>2
    <2>2. CASE U # {}
      <3> DEFINE B == {n \in Nat : \A t \in U : t <= n}
      <3>1. PICK n \in B : \A m \in B : n <= m
        <4>1. M \in B
          OBVIOUS
        <4> QED BY <4>1, LeastNatural
      <3>2. n \in U
        <4>1. SUFFICES ASSUME n \notin U PROVE FALSE
          OBVIOUS
        <4>2. \A t \in U : t <= n - 1 /\ t \in 1 .. M
          BY <2>00, <3>1, <4>1
        <4>3. PICK t \in U : t <= n - 1 /\ t >= 1 /\ t \in Nat
          BY <2>00, <2>2, <4>2
        <4>4. n - 1 \in Nat
          BY <3>1, <4>3
        <4>5. n - 1 \in B
          BY <4>2, <4>4
        <4> QED BY <3>1, <4>5
      <3>3. PICK f \in [1 .. Cardinality(U \ {n}) -> U \ {n}] : Increasing(U \ {n}, f)
        BY <1>2, <3>2
      <3>4. Cardinality(U \ {n}) = Cardinality(U) - 1 /\ Cardinality(U) >= 1
        <4>1. Cardinality(U \ {n}) = Cardinality(U) - 1 /\ IsFiniteSet(U \ {n})
          BY <2>0, <3>2, FS_RemoveElement
        <4>2. Cardinality(U \ {n}) \in Nat
          BY <4>1, FS_CardinalityType
        <4> QED BY <2>0, <4>1, <4>2
      <3> DEFINE c == Cardinality(U)
                 g == [i \in 1 .. c |-> IF i = c THEN n ELSE f[i]]
      <3>5. f \in [1 .. c - 1 -> U \ {n}] /\ \A i, j \in 1 .. c - 1 : i < j => f[i] < f[j]
        BY <3>3, <3>4
      <3>6. c \in Nat /\ c >= 1
        BY <2>0, <3>4
      <3>7. g \in [1 .. c -> U] /\ \A i, j \in 1 .. c : i < j => g[i] < g[j]
        <4> HIDE DEF c
        <4>1. \A i \in 1 .. c : i = c \/ i \in 1 .. c - 1
          BY <3>6
        <4>2. ASSUME NEW i \in 1 .. c - 1 PROVE f[i] \in U /\ f[i] < n
          <5>1. f[i] \in U /\ f[i] # n
            BY <3>5
          <5>2. f[i] \in Nat /\ n \in Nat /\ f[i] <= n
            BY <2>00, <3>1, <5>1
          <5> QED BY <5>1, <5>2
        <4>3. g \in [1 .. c -> U]
          BY <3>2, <4>1, <4>2
        <4>4. ASSUME NEW i \in 1 .. c, NEW j \in 1 .. c, i < j PROVE g[i] < g[j]
          <5>1. i \in 1 .. c - 1
            BY <3>6, <4>4
          <5>2. g[i] = f[i]
            BY <3>6, <5>1
          <5>3. CASE j = c
            BY <4>2, <5>1, <5>2, <5>3
          <5>4. CASE j # c
            <6>1. j \in 1 .. c - 1 /\ g[j] = f[j]
              BY <4>1, <5>4
            <6> QED BY <3>5, <4>4, <5>1, <5>2, <6>1
          <5> QED BY <5>3, <5>4
        <4> QED BY <4>3, <4>4
      <3> QED BY <3>7
    <2> QED BY <2>1, <2>2
  <1>3. S \in G
    <2> HIDE DEF G
    <2> QED BY <1>1, <1>2, SetInduction
  <1> QED BY <1>3

\* InOrder lists every key once.
LEMMA InOrderListsAll ==
  ASSUME TupleAssumption, NEW S \in SUBSET Hash
  PROVE  /\ InOrder(S) \in [1 .. Cardinality(S) -> S]
         /\ \A h \in S : \E i \in DOMAIN InOrder(S) : InOrder(S)[i] = h
         /\ \A i, j \in DOMAIN InOrder(S) : InOrder(S)[i] = InOrder(S)[j] => i = j
  <1> DEFINE c == Cardinality(S)
             keys == InOrder(S)
  <1>1. MAX_THETA - 1 \in Nat /\ S \in SUBSET (1 .. MAX_THETA - 1)
    BY DEF TupleAssumption
  <1>2. IsFiniteSet(S) /\ c \in Nat
    <2>1. IsFiniteSet(1 .. MAX_THETA - 1)
      BY <1>1, FS_Interval
    <2> QED BY <1>1, <2>1, FS_Subset, FS_CardinalityType
  <1>3. keys \in [1 .. c -> S] /\ \A i, j \in 1 .. c : i < j => keys[i] < keys[j]
    BY <1>1, OrderExists DEF InOrder
  <1>4. ASSUME NEW i \in 1 .. c, NEW j \in 1 .. c, keys[i] = keys[j] PROVE i = j
    <2> HIDE DEF keys, c
    <2>0. keys[i] \in 1 .. MAX_THETA - 1
      BY <1>1, <1>3
    <2>1. keys[i] \in Nat /\ ~(keys[i] < keys[j]) /\ ~(keys[j] < keys[i])
      BY <1>1, <1>4, <2>0
    <2> QED BY <1>2, <1>3, <2>1
  <1>5. keys \in Injection(1 .. c, S)
    BY <1>3, <1>4, Fun_IsInj
  <1>6. Cardinality(1 .. c) = c
    BY <1>2, FS_Interval
  <1>7. keys \in Surjection(1 .. c, S)
    BY <1>2, <1>5, <1>6, FS_Injection
  <1>8. \A h \in S : \E i \in 1 .. c : keys[i] = h
    <2> HIDE DEF keys, c
    <2> QED BY <1>7 DEF Surjection
  <1> QED BY <1>3, <1>4, <1>8

----------------------------------------------------------------------------
(* Theta, with and without its proofs *)

LEMMA Assumptions == TupleAssumption => TP!HashAssumption /\ TP!WidthAssumption
  BY DEF TupleAssumption, TP!HashAssumption, TP!WidthAssumption

\* Every operation makes the same of its arguments.
LEMMA SameSamples ==
  /\ T!SketchType = TP!SketchType
  /\ \A w : T!NewUpdate(w) = TP!NewUpdate(w)
  /\ \A e, t, E : T!Compact(e, t, E) = TP!Compact(e, t, E)
  BY DEF T!SketchType, T!NewUpdate, T!Compact, TP!SketchType, TP!NewUpdate, TP!Compact

LEMMA SameCardinality ==
  ASSUME NEW E
  PROVE  T!Cardinality(E) = Cardinality(E) /\ TP!Cardinality(E) = Cardinality(E)
  BY DEF Cardinality, T!Cardinality, TP!Cardinality

LEMMA SameTrims ==
  ASSUME NEW E, NEW theta, NEW w
  PROVE  T!Trims(E, theta, w) = TP!Trims(E, theta, w)
  BY SameCardinality DEF T!Trims, T!Below, TP!Trims, TP!Below

LEMMA SameUpdates ==
  ASSUME NEW c, NEW h
  PROVE  T!Updates(c, h) = TP!Updates(c, h)
  BY SameCardinality, SameTrims
  DEF T!Updates, T!RebuildCapacity, TP!Updates, TP!RebuildCapacity

LEMMA SameUnions ==
  ASSUME NEW a, NEW b, NEW w
  PROVE  T!Unions(a, b, w) = TP!Unions(a, b, w)
  BY SameSamples, SameTrims
  DEF T!Unions, T!Below, T!SmallerOf, TP!Unions, TP!Below, TP!SmallerOf

LEMMA SameIntersection ==
  ASSUME NEW a, NEW b
  PROVE  T!Intersection(a, b) = TP!Intersection(a, b)
  BY DEF T!Intersection, T!Compact, T!Below, T!SmallerOf,
         TP!Intersection, TP!Compact, TP!Below, TP!SmallerOf

LEMMA SameDifference ==
  ASSUME NEW a, NEW b
  PROVE  T!Difference(a, b) = TP!Difference(a, b)
  BY DEF T!Difference, T!Compact, T!Below, T!SmallerOf,
         TP!Difference, TP!Compact, TP!Below, TP!SmallerOf

LEMMA SameWidths ==
  /\ \A n : T!HintsFromRetained(n) = TP!HintsFromRetained(n)
  /\ \A a, b : T!DefaultWidth(a, b) = TP!DefaultWidth(a, b)
  BY DEF T!HintsFromRetained, T!DefaultWidth, T!LargerOf,
         TP!HintsFromRetained, TP!DefaultWidth, TP!LargerOf

LEMMA SameInit == TP!Init => T!Init
  BY DEF T!Init, TP!Init, T!NewUpdate, TP!NewUpdate, Samples, Truths, Came

\* So are its steps.
LEMMA SameNext == TP!Next => T!Next
  <1> SUFFICES ASSUME TP!Next PROVE T!Next
    OBVIOUS
  <1>1. ASSUME NEW s \in Sketch, NEW w \in Widths, TP!Create(s, w) PROVE T!Create(s, w)
    BY <1>1, SameSamples DEF T!Create, TP!Create, Samples, Truths, Came
  <1>2. ASSUME NEW s \in Sketch, NEW h \in Hash, TP!Update(s, h) PROVE T!Update(s, h)
    BY <1>2, SameUpdates DEF T!Update, TP!Update, Samples, Truths, Came
  <1>3. ASSUME NEW s \in Sketch, NEW o \in Sketch, NEW w, TP!Merge(s, o, w)
        PROVE  T!Merge(s, o, w)
    BY <1>3, SameUnions DEF T!Merge, TP!Merge, Samples, Truths, Came
  <1>4. ASSUME NEW s \in Sketch, NEW o \in Sketch, TP!Restore(s, o) PROVE T!Restore(s, o)
    <2>1. PICK w \in TP!HintsFromRetained(Cardinality(Samples[o].entries)) :
            TP!Result(s, TP!Compact(Samples[o].empty, Samples[o].theta, Samples[o].entries), w,
                      Truths[o])
      BY <1>4, SameCardinality DEF TP!Restore
    <2>2. T!Result(s, T!Compact(Samples[o].empty, Samples[o].theta, Samples[o].entries), w,
                   Truths[o])
      BY <2>1, SameSamples DEF T!Result, TP!Result, Samples, Truths, Came
    <2>3. w \in T!HintsFromRetained(T!Cardinality(Samples[o].entries))
      BY <2>1, SameCardinality, SameWidths
    <2> QED BY <2>2, <2>3 DEF T!Restore, Samples, Truths, Came
  <1>5. ASSUME NEW r \in Sketch, NEW a \in Sketch, NEW b \in Sketch, NEW w,
               TP!ThetaUnion(r, a, b, w)
        PROVE  T!ThetaUnion(r, a, b, w)
    BY <1>5, SameUnions DEF T!ThetaUnion, TP!ThetaUnion, Samples, Truths, Came
  <1>6. ASSUME NEW r \in Sketch, NEW a \in Sketch, NEW b \in Sketch
        PROVE  /\ TP!ThetaIntersection(r, a, b) => T!ThetaIntersection(r, a, b)
               /\ TP!ThetaDifference(r, a, b) => T!ThetaDifference(r, a, b)
    BY SameIntersection, SameDifference, SameWidths
    DEF T!ThetaIntersection, TP!ThetaIntersection, T!ThetaDifference, TP!ThetaDifference,
        T!Result, TP!Result, Samples, Truths, Came
  <1> QED BY <1>1, <1>2, <1>3, <1>4, <1>5, <1>6, SameWidths DEF T!Next, TP!Next

LEMMA SameVars == UNCHANGED TP!vars => UNCHANGED T!vars
  BY DEF T!vars, TP!vars, Samples, Truths, Came

----------------------------------------------------------------------------
(* Sketches with their summaries *)

LEMMA SampleTyped ==
  ASSUME NEW s \in TupleType
  PROVE  /\ s.summary \in [DOMAIN s.summary -> Nat] /\ DOMAIN s.summary \in SUBSET Hash
         /\ Sample(s) \in TP!SketchType
  <1>1. PICK E \in SUBSET Hash : s.summary \in [E -> Nat]
    BY DEF TupleType, SummaryType
  <1>2. DOMAIN s.summary = E
    BY <1>1
  <1> QED BY <1>1, <1>2 DEF Sample, TP!SketchType, TupleType

LEMMA CarryTyped ==
  ASSUME NEW u \in TP!SketchType, NEW f, \A h \in u.entries : f[h] \in Nat
  PROVE  /\ Carry(u, f) \in TupleType /\ Sample(Carry(u, f)) = u
         /\ Carry(u, f).summary = [h \in u.entries |-> f[h]]
  <1>1. [h \in u.entries |-> f[h]] \in SummaryType
    BY DEF SummaryType, TP!SketchType
  <1> QED BY <1>1 DEF Carry, Sample, TupleType, TP!SketchType

\* An object retains the keys below theta that came to it.
LEMMA ObjectFacts ==
  ASSUME TupleInv, NEW o \in Sketch
  PROVE  /\ tuple[o] \in TupleType /\ totals[o] \in [Hash -> Nat]
         /\ Paired(tuple[o], totals[o])
         /\ TP!Sound(Sample(tuple[o]), Came(totals[o]))
         /\ TP!Roomy(Sample(tuple[o]), tuple_hint[o])
         /\ tuple_hint \in [Sketch -> Widths]
         /\ \A h \in Hash : h \in DOMAIN tuple[o].summary
                               <=> totals[o][h] > 0 /\ h < tuple[o].theta
  <1>1. Samples[o] = Sample(tuple[o]) /\ Truths[o] = Came(totals[o])
    BY DEF Samples, Truths
  <1>2. /\ TP!Sound(Sample(tuple[o]), Came(totals[o]))
        /\ TP!Roomy(Sample(tuple[o]), tuple_hint[o])
        /\ tuple_hint \in [Sketch -> Widths]
    BY <1>1 DEF TupleInv, TP!IInv
  <1>3. DOMAIN tuple[o].summary = {h \in Came(totals[o]) : h < tuple[o].theta}
    BY <1>2 DEF TP!Sound, TP!Below, Sample
  <1> QED BY <1>2, <1>3 DEF TupleInv, Carried, Came

\* An operation on one object, as Theta sees it
LEMMA OneTuple ==
  ASSUME TupleInv, NEW o \in Sketch, NEW s \in TupleType, NEW w, NEW t \in [Hash -> Nat],
         Paired(s, t), TupleResult(o, s, w, t)
  PROVE  /\ Carried'
         /\ Samples' = [Samples EXCEPT ![o] = Sample(s)]
         /\ tuple_hint' = [tuple_hint EXCEPT ![o] = w]
         /\ Truths' = [Truths EXCEPT ![o] = Came(t)]
  <1>1. /\ tuple' = [tuple EXCEPT ![o] = s]
        /\ tuple_hint' = [tuple_hint EXCEPT ![o] = w]
        /\ totals' = [totals EXCEPT ![o] = t]
    BY DEF TupleResult
  <1>2. tuple \in [Sketch -> TupleType] /\ totals \in [Sketch -> [Hash -> Nat]]
    BY DEF TupleInv, Carried
  <1>3. \A p \in Sketch : /\ tuple'[p] = IF p = o THEN s ELSE tuple[p]
                          /\ totals'[p] = IF p = o THEN t ELSE totals[p]
    BY <1>1, <1>2
  <1>4. Carried'
    <2>1. \A p \in Sketch : Paired(tuple'[p], totals'[p])
      BY <1>3 DEF TupleInv, Carried
    <2> QED BY <1>1, <1>2, <2>1 DEF Carried
  <1>5. Samples' = [Samples EXCEPT ![o] = Sample(s)]
    <2>1. Samples' = [p \in Sketch |-> Sample(tuple'[p])]
      BY DEF Samples
    <2> QED BY <1>3, <2>1 DEF Samples
  <1>6. Truths' = [Truths EXCEPT ![o] = Came(t)]
    <2>1. Truths' = [p \in Sketch |-> Came(totals'[p])]
      BY DEF Truths
    <2> QED BY <1>3, <2>1 DEF Truths
  <1> QED BY <1>1, <1>4, <1>5, <1>6

LEMMA TrimFrom ==
  ASSUME NEW E, NEW theta, NEW w, NEW r \in TP!Trims(E, theta, w)
  PROVE  r.entries \subseteq E
  <1>1. CASE Cardinality(E) <= w
    BY <1>1, SameCardinality DEF TP!Trims
  <1>2. CASE ~(Cardinality(E) <= w)
    <2>1. PICK t \in E : r = [theta |-> t, entries |-> TP!Below(E, t)]
      BY <1>2, SameCardinality DEF TP!Trims
    <2> QED BY <2>1 DEF TP!Below
  <1> QED BY <1>1, <1>2

\* What an update and a union retain they had, or it came below their theta.
LEMMA UpdateFrom ==
  ASSUME TupleAssumption, NEW c \in TP!SketchType, NEW h \in Hash, NEW u \in TP!Updates(c, h)
  PROVE  /\ u.entries \subseteq c.entries \cup {h}
         /\ h \in u.entries /\ h \notin c.entries => h < c.theta
  <1>1. /\ c.theta \in 1 .. MAX_THETA /\ c.entries \in SUBSET Hash
        /\ c.entries = c.entries /\ h \in Nat /\ c.theta \in Nat
        /\ DOMAIN c = {"compact", "empty", "theta", "entries", "width"}
    BY DEF TP!SketchType, TupleAssumption
  <1>2. CASE h >= c.theta \/ h \in c.entries
    BY <1>1, <1>2 DEF TP!Updates, TP!SketchType
  <1>3. CASE ~(h >= c.theta \/ h \in c.entries)
    <2>1. h < c.theta
      BY <1>1, <1>3
    <2>2. CASE Cardinality(c.entries) < TP!RebuildCapacity(c.width)
      BY <1>1, <1>3, <2>1, <2>2, SameCardinality DEF TP!Updates, TP!SketchType
    <2>3. CASE ~(Cardinality(c.entries) < TP!RebuildCapacity(c.width))
      <3>1. PICK r \in TP!Trims(c.entries \cup {h}, c.theta, c.width) :
              u = [[c EXCEPT !.empty = FALSE] EXCEPT !.theta = r.theta, !.entries = r.entries]
        BY <1>3, <2>3, SameCardinality DEF TP!Updates
      <3>2. r.entries \subseteq c.entries \cup {h}
        BY TrimFrom
      <3> QED BY <2>1, <3>1, <3>2 DEF TP!SketchType
    <2> QED BY <2>2, <2>3
  <1> QED BY <1>2, <1>3

LEMMA UnionFrom ==
  ASSUME NEW a, NEW b, NEW w, NEW u \in TP!Unions(a, b, w), NEW h \in u.entries,
         TupleAssumption, a \in TP!SketchType, b \in TP!SketchType
  PROVE  h \in a.entries \cup b.entries /\ h < a.theta /\ h < b.theta
  <1> DEFINE theta == TP!SmallerOf(a.theta, b.theta)
             E == TP!Below(a.entries \cup b.entries, theta)
  <1>1. ~(a.empty /\ b.empty)
    BY DEF TP!Unions, TP!Compact
  <1>2. PICK r \in TP!Trims(E, theta, w) : u = TP!Compact(FALSE, r.theta, r.entries)
    BY <1>1 DEF TP!Unions
  <1>3. h \in E
    BY <1>2, TrimFrom DEF TP!Compact
  <1>4. a.theta \in 1 .. MAX_THETA /\ b.theta \in 1 .. MAX_THETA
        /\ a.entries \subseteq Hash /\ b.entries \subseteq Hash
    BY DEF TP!SketchType
  <1>5. h \in a.entries \cup b.entries /\ h < theta
    BY <1>3 DEF TP!Below
  <1>6. h \in Nat
    <2>1. h \in Hash
      BY <1>4, <1>5
    <2> QED BY <2>1 DEF TupleAssumption
  <1> QED BY <1>4, <1>5, <1>6 DEF TP!SmallerOf, TupleAssumption

----------------------------------------------------------------------------
(* Every operation is one of Theta and carries the totals *)

LEMMA CreateSteps ==
  ASSUME TupleAssumption, TupleInv, NEW o \in Sketch, NEW w \in Widths, TupleCreate(o, w)
  PROVE  TP!Create(o, w) /\ Carried'
  <1> DEFINE s == NewTuple(w)
             t == [h \in Hash |-> 0]
  <1>1. TP!NewUpdate(w) \in TP!SketchType /\ TP!NewUpdate(w).entries = {}
    BY Assumptions, TP!NewSound DEF TP!Sound, TP!NewUpdate
  <1>2. s = Carry(TP!NewUpdate(w), [h \in {} |-> 0])
    BY SameSamples DEF NewTuple
  <1>3. s \in TupleType /\ Sample(s) = TP!NewUpdate(w) /\ DOMAIN s.summary = {}
    <2> DEFINE u == TP!NewUpdate(w)
               f == [h \in {} |-> 0]
    <2>1. u \in TP!SketchType /\ u.entries = {} /\ s = Carry(u, f)
      BY <1>1, <1>2
    <2> HIDE DEF u, f, s
    <2>2. Sample(s) = u /\ s \in TupleType /\ s.summary = [h \in u.entries |-> f[h]]
      BY <2>1, CarryTyped
    <2> QED BY <2>1, <2>2 DEF u
  <1>4. t \in [Hash -> Nat] /\ Came(t) = {} /\ Paired(s, t)
    BY <1>3 DEF Came, Paired
  <1>5. TupleResult(o, s, w, t)
    BY DEF TupleCreate
  <1> HIDE DEF s, t
  <1> QED BY <1>3, <1>4, <1>5, OneTuple DEF TP!Create

LEMMA UpdateSteps ==
  ASSUME TupleAssumption, TupleInv, NEW o \in Sketch, NEW h \in Hash, NEW v \in Summand,
         TupleUpdate(o, h, v)
  PROVE  TP!Update(o, h) /\ Carried'
  <1> DEFINE c == Sample(tuple[o])
             f == tuple[o].summary
             g == [k \in {h} |-> v]
             t == [totals[o] EXCEPT ![h] = @ + v]
             came == [k \in Hash |-> IF k = h THEN v ELSE 0]
  <1>1. PICK s \in TupleUpdates(tuple[o], h, v) : TupleResult(o, s, tuple_hint[o], t)
    BY DEF TupleUpdate
  <1>2. PICK u \in TP!Updates(c, h) : s = Carry(u, Added(f, g))
    BY <1>1, SameUpdates DEF TupleUpdates
  <1>3. /\ tuple[o] \in TupleType /\ totals[o] \in [Hash -> Nat]
        /\ TP!Sound(c, Came(totals[o])) /\ TP!Roomy(c, tuple_hint[o])
        /\ tuple_hint[o] \in Widths
        /\ \A k \in Hash : k \in DOMAIN f <=> totals[o][k] > 0 /\ k < tuple[o].theta
        /\ \A k \in DOMAIN f : f[k] > 0 /\ f[k] = totals[o][k]
    BY ObjectFacts DEF Paired
  <1>4. ~c.compact
    BY DEF TupleUpdate, Sample
  <1>5. TP!Sound(u, Came(totals[o]) \cup {h})
    BY <1>2, <1>3, <1>4, Assumptions, TP!UpdateSound
  <1>6. v \in Nat /\ v > 0
    BY DEF TupleAssumption
  <1>7. \A k \in u.entries : k \in Hash /\ k \in DOMAIN f \cup DOMAIN g
                               /\ (k \notin DOMAIN f => totals[o][k] = 0)
    <2>1. /\ u.entries \subseteq DOMAIN f \cup {h}
          /\ h \in u.entries /\ h \notin DOMAIN f => h < tuple[o].theta
      <3>1. c.theta = tuple[o].theta /\ c.entries = DOMAIN f /\ c \in TP!SketchType
        BY <1>3 DEF Sample, TP!Sound
      <3>2. c.theta \in 1 .. MAX_THETA
        BY <3>1 DEF TP!SketchType
      <3> HIDE DEF c
      <3> QED BY <1>2, <3>1, <3>2, UpdateFrom, TupleAssumption
    <2>2. h \in u.entries /\ h \notin DOMAIN f => h < tuple[o].theta
      BY <2>1
    <2>3. u.entries \subseteq Hash
      BY <1>5 DEF TP!Sound, TP!SketchType
    <2> QED BY <1>3, <2>1, <2>2, <2>3
  <1>8. t \in [Hash -> Nat] /\ \A k \in Hash : t[k] = totals[o][k] + came[k]
    BY <1>3, <1>6
  <1>9. Came(t) = Came(totals[o]) \cup {h}
    BY <1>3, <1>6, <1>8 DEF Came
  <1>10. \A k \in u.entries : Added(f, g)[k] = t[k] /\ t[k] > 0
    <2>1. SUFFICES ASSUME NEW k \in u.entries
                   PROVE  Added(f, g)[k] = totals[o][k] + came[k] /\ totals[o][k] + came[k] > 0
      BY <1>7, <1>8
    <2>2. totals[o][k] \in Nat /\ came[k] \in Nat
      BY <1>3, <1>6, <1>7
    <2>3. k \in DOMAIN g => g[k] > 0 /\ g[k] = came[k]
      BY <1>6, <1>7
    <2>4. k \notin DOMAIN g => came[k] = 0
      BY <1>7
    <2>5. /\ k \in DOMAIN f \cup DOMAIN g
          /\ k \in DOMAIN f => f[k] > 0 /\ f[k] = totals[o][k]
          /\ k \notin DOMAIN f => totals[o][k] = 0
      BY <1>3, <1>7
    <2> HIDE DEF f, g, t, came
    <2> QED BY <2>2, <2>3, <2>4, <2>5 DEF Added
  <1>11. s \in TupleType /\ Sample(s) = u /\ Paired(s, t)
    <2>1. u \in TP!SketchType
      BY <1>5 DEF TP!Sound
    <2>2. \A k \in u.entries : Added(f, g)[k] \in Nat
      BY <1>7, <1>8, <1>10
    <2>3. /\ s \in TupleType /\ Sample(s) = u
          /\ s.summary = [k \in u.entries |-> Added(f, g)[k]]
      BY <1>2, <2>1, <2>2, CarryTyped
    <2> QED BY <1>10, <2>3 DEF Paired
  <1>12. /\ Carried'
         /\ Samples' = [Samples EXCEPT ![o] = u]
         /\ tuple_hint' = [tuple_hint EXCEPT ![o] = tuple_hint[o]]
         /\ Truths' = [Truths EXCEPT ![o] = Came(totals[o]) \cup {h}]
    BY <1>1, <1>8, <1>9, <1>11, OneTuple
  <1>13. Samples[o] = c /\ Truths[o] = Came(totals[o]) /\ tuple_hint \in [Sketch -> Widths]
    BY ObjectFacts DEF Samples, Truths
  <1> QED BY <1>2, <1>4, <1>12, <1>13 DEF TP!Update

LEMMA UnionCarried ==
  ASSUME TupleAssumption, TupleInv, NEW a \in Sketch, NEW b \in Sketch, NEW w \in Widths,
         NEW s \in TupleUnions(tuple[a], tuple[b], w)
  PROVE  LET t == [h \in Hash |-> totals[a][h] + totals[b][h]] IN
         /\ s \in TupleType /\ t \in [Hash -> Nat] /\ Paired(s, t)
         /\ Sample(s) \in TP!Unions(Samples[a], Samples[b], w)
         /\ Came(t) = Truths[a] \cup Truths[b]
  <1> DEFINE f == tuple[a].summary
             g == tuple[b].summary
             t == [h \in Hash |-> totals[a][h] + totals[b][h]]
  <1>1. PICK u \in TP!Unions(Sample(tuple[a]), Sample(tuple[b]), w) : s = Carry(u, Added(f, g))
    BY SameUnions DEF TupleUnions
  <1>2. /\ tuple[a] \in TupleType /\ totals[a] \in [Hash -> Nat]
        /\ TP!Sound(Sample(tuple[a]), Came(totals[a]))
        /\ \A h \in Hash : h \in DOMAIN f <=> totals[a][h] > 0 /\ h < tuple[a].theta
        /\ \A h \in DOMAIN f : f[h] > 0 /\ f[h] = totals[a][h]
    BY ObjectFacts DEF Paired
  <1>3. /\ tuple[b] \in TupleType /\ totals[b] \in [Hash -> Nat]
        /\ TP!Sound(Sample(tuple[b]), Came(totals[b]))
        /\ \A h \in Hash : h \in DOMAIN g <=> totals[b][h] > 0 /\ h < tuple[b].theta
        /\ \A h \in DOMAIN g : g[h] > 0 /\ g[h] = totals[b][h]
    BY ObjectFacts DEF Paired
  <1>4. u \in TP!SketchType
    <2>1. TP!Sound(u, Came(totals[a]) \cup Came(totals[b]))
      BY <1>1, <1>2, <1>3, Assumptions, TP!UnionSound
    <2> QED BY <2>1 DEF TP!Sound
  <1>5. ASSUME NEW h \in u.entries
        PROVE  /\ h \in Hash /\ h \in DOMAIN f \cup DOMAIN g
               /\ h \notin DOMAIN f => totals[a][h] = 0
               /\ h \notin DOMAIN g => totals[b][h] = 0
    <2>1. h \in Hash
      BY <1>4 DEF TP!SketchType
    <2>2. h \in DOMAIN f \cup DOMAIN g /\ h < tuple[a].theta /\ h < tuple[b].theta
      <3> DEFINE A == Sample(tuple[a])
                 B == Sample(tuple[b])
      <3>1. /\ A.theta = tuple[a].theta /\ A.entries = DOMAIN f /\ A \in TP!SketchType
            /\ B.theta = tuple[b].theta /\ B.entries = DOMAIN g /\ B \in TP!SketchType
        BY <1>2, <1>3 DEF Sample, TP!Sound
      <3> HIDE DEF A, B
      <3>2. u \in TP!Unions(A, B, w)
        BY <1>1 DEF A, B
      <3> QED BY <3>1, <3>2, UnionFrom
    <2> QED BY <1>2, <1>3, <2>1, <2>2
  <1>6. t \in [Hash -> Nat] /\ \A h \in Hash : t[h] = totals[a][h] + totals[b][h]
    BY <1>2, <1>3
  <1>7. Came(t) = Truths[a] \cup Truths[b]
    BY <1>2, <1>3, <1>6 DEF Came, Truths
  <1>8. ASSUME NEW h \in u.entries PROVE Added(f, g)[h] = t[h] /\ t[h] > 0 /\ t[h] \in Nat
    <2>1. totals[a][h] \in Nat /\ totals[b][h] \in Nat /\ t[h] = totals[a][h] + totals[b][h]
      BY <1>2, <1>3, <1>5, <1>6
    <2>2. /\ h \in DOMAIN f \cup DOMAIN g
          /\ h \in DOMAIN f => f[h] > 0 /\ f[h] = totals[a][h]
          /\ h \in DOMAIN g => g[h] > 0 /\ g[h] = totals[b][h]
      BY <1>2, <1>3, <1>5
    <2> HIDE DEF f, g, t
    <2> QED BY <1>5, <2>1, <2>2 DEF Added
  <1>9. /\ s \in TupleType /\ Sample(s) = u
        /\ s.summary = [h \in u.entries |-> Added(f, g)[h]]
    BY <1>1, <1>4, <1>8, CarryTyped
  <1>10. Paired(s, t)
    BY <1>8, <1>9 DEF Paired
  <1> QED BY <1>1, <1>6, <1>7, <1>9, <1>10 DEF Samples

LEMMA MergeSteps ==
  ASSUME TupleAssumption, TupleInv, NEW o \in Sketch, NEW p \in Sketch, NEW w \in Widths,
         TupleMerge(o, p, w)
  PROVE  TP!Merge(o, p, w) /\ Carried'
  <1> DEFINE t == [h \in Hash |-> totals[o][h] + totals[p][h]]
  <1>1. PICK s \in TupleUnions(tuple[o], tuple[p], w) : TupleResult(o, s, w, t)
    BY DEF TupleMerge
  <1>2. /\ s \in TupleType /\ t \in [Hash -> Nat] /\ Paired(s, t)
        /\ Sample(s) \in TP!Unions(Samples[o], Samples[p], w)
        /\ Came(t) = Truths[o] \cup Truths[p]
    BY UnionCarried
  <1> HIDE DEF t
  <1>3. /\ Carried' /\ Samples' = [Samples EXCEPT ![o] = Sample(s)]
        /\ tuple_hint' = [tuple_hint EXCEPT ![o] = w]
        /\ Truths' = [Truths EXCEPT ![o] = Came(t)]
    BY <1>1, <1>2, OneTuple
  <1>4. o # p
    BY DEF TupleMerge
  <1> QED BY <1>2, <1>3, <1>4 DEF TP!Merge

LEMMA AodUnionSteps ==
  ASSUME TupleAssumption, TupleInv, NEW r \in Sketch, NEW a \in Sketch, NEW b \in Sketch,
         NEW w \in Widths, AodUnion(r, a, b, w)
  PROVE  TP!ThetaUnion(r, a, b, w) /\ Carried'
  <1> DEFINE t == [h \in Hash |-> totals[a][h] + totals[b][h]]
  <1>1. PICK s \in TupleUnions(tuple[a], tuple[b], w) : TupleResult(r, s, w, t)
    BY DEF AodUnion
  <1>2. /\ s \in TupleType /\ t \in [Hash -> Nat] /\ Paired(s, t)
        /\ Sample(s) \in TP!Unions(Samples[a], Samples[b], w)
        /\ Came(t) = Truths[a] \cup Truths[b]
    BY UnionCarried
  <1> HIDE DEF t
  <1>3. /\ Carried' /\ Samples' = [Samples EXCEPT ![r] = Sample(s)]
        /\ tuple_hint' = [tuple_hint EXCEPT ![r] = w]
        /\ Truths' = [Truths EXCEPT ![r] = Came(t)]
    BY <1>1, <1>2, OneTuple
  <1> QED BY <1>2, <1>3 DEF TP!ThetaUnion

\* The last step of the operations that make a compact result at once
LEMMA ResultSteps ==
  ASSUME TupleInv, NEW r \in Sketch, NEW s \in TupleType, NEW u, NEW w,
         NEW t \in [Hash -> Nat], NEW U, Sample(s) = u, Came(t) = U, Paired(s, t),
         TupleResult(r, s, w, t)
  PROVE  TP!Result(r, u, w, U) /\ Carried'
  BY OneTuple DEF TP!Result

LEMMA AodIntersectionSteps ==
  ASSUME TupleAssumption, TupleInv, NEW r \in Sketch, NEW a \in Sketch, NEW b \in Sketch,
         AodIntersection(r, a, b)
  PROVE  TP!ThetaIntersection(r, a, b) /\ Carried'
  <1> DEFINE f == tuple[a].summary
             g == tuple[b].summary
             u == TP!Intersection(Sample(tuple[a]), Sample(tuple[b]))
             s == Carry(u, Added(f, g))
             t == [h \in Hash |-> IF 0 \in {totals[a][h], totals[b][h]} THEN 0
                                  ELSE totals[a][h] + totals[b][h]]
  <1>1. TupleResult(r, s, TP!DefaultWidth(a, b), t)
    BY SameIntersection, SameWidths DEF AodIntersection, TupleIntersection
  <1>2. /\ tuple[a] \in TupleType /\ totals[a] \in [Hash -> Nat]
        /\ TP!Sound(Sample(tuple[a]), Came(totals[a]))
        /\ \A h \in DOMAIN f : f[h] > 0 /\ f[h] = totals[a][h]
    BY ObjectFacts DEF Paired
  <1>3. /\ tuple[b] \in TupleType /\ totals[b] \in [Hash -> Nat]
        /\ TP!Sound(Sample(tuple[b]), Came(totals[b]))
        /\ \A h \in DOMAIN g : g[h] > 0 /\ g[h] = totals[b][h]
    BY ObjectFacts DEF Paired
  <1>4. u \in TP!SketchType
    <2>1. TP!Sound(u, Came(totals[a]) \cap Came(totals[b]))
      BY <1>2, <1>3, Assumptions, TP!IntersectionSound
    <2> QED BY <2>1 DEF TP!Sound
  <1>5. \A h \in u.entries : h \in Hash /\ h \in DOMAIN f /\ h \in DOMAIN g
    <2>1. u.entries \subseteq DOMAIN f \cap DOMAIN g
      BY DEF TP!Intersection, TP!Compact, TP!Below, Sample
    <2>2. u.entries \subseteq Hash
      BY <1>4 DEF TP!SketchType
    <2> QED BY <2>1, <2>2
  <1>6. /\ t \in [Hash -> Nat]
        /\ \A h \in Hash : t[h] = IF totals[a][h] = 0 \/ totals[b][h] = 0 THEN 0
                                  ELSE totals[a][h] + totals[b][h]
    BY <1>2, <1>3
  <1>7. Came(t) = Truths[a] \cap Truths[b]
    BY <1>2, <1>3, <1>6 DEF Came, Truths
  <1>8. ASSUME NEW h \in u.entries PROVE Added(f, g)[h] = t[h] /\ t[h] > 0 /\ t[h] \in Nat
    <2>1. /\ h \in DOMAIN f /\ h \in DOMAIN g /\ f[h] > 0 /\ g[h] > 0
          /\ f[h] = totals[a][h] /\ g[h] = totals[b][h]
      BY <1>2, <1>3, <1>5
    <2>2. totals[a][h] \in Nat /\ totals[b][h] \in Nat
      BY <1>2, <1>3, <1>5
    <2>3. t[h] = totals[a][h] + totals[b][h]
      BY <1>5, <1>6, <2>1, <2>2
    <2> HIDE DEF f, g, t, u
    <2> QED BY <2>1, <2>2, <2>3 DEF Added
  <1>9. s \in TupleType /\ Sample(s) = u /\ Paired(s, t)
    <2>1. /\ s \in TupleType /\ Sample(s) = u
          /\ s.summary = [h \in u.entries |-> Added(f, g)[h]]
      <3>1. \A h \in u.entries : Added(f, g)[h] \in Nat
        BY <1>8
      <3> HIDE DEF f, g, t, u
      <3> QED BY <1>4, <3>1, CarryTyped
    <2> QED BY <1>8, <2>1 DEF Paired
  <1>10. u = TP!Intersection(Samples[a], Samples[b])
    BY DEF Samples
  <1> HIDE DEF f, g, t, u, s
  <1>11. TP!Result(r, u, TP!DefaultWidth(a, b), Truths[a] \cap Truths[b]) /\ Carried'
    BY <1>1, <1>6, <1>7, <1>9, ResultSteps
  <1> QED BY <1>10, <1>11 DEF TP!ThetaIntersection

LEMMA AodDifferenceSteps ==
  ASSUME TupleAssumption, TupleInv, NEW r \in Sketch, NEW a \in Sketch, NEW b \in Sketch,
         AodDifference(r, a, b)
  PROVE  TP!ThetaDifference(r, a, b) /\ Carried'
  <1> DEFINE f == tuple[a].summary
             u == TP!Difference(Sample(tuple[a]), Sample(tuple[b]))
             s == Carry(u, f)
             t == [h \in Hash |-> IF totals[b][h] = 0 THEN totals[a][h] ELSE 0]
  <1>1. TupleResult(r, s, TP!DefaultWidth(a, b), t)
    BY SameDifference, SameWidths DEF AodDifference, TupleDifference
  <1>2. /\ tuple[a] \in TupleType /\ totals[a] \in [Hash -> Nat]
        /\ TP!Sound(Sample(tuple[a]), Came(totals[a]))
        /\ \A h \in DOMAIN f : f[h] > 0 /\ f[h] = totals[a][h]
    BY ObjectFacts DEF Paired
  <1>3. /\ totals[b] \in [Hash -> Nat]
        /\ TP!Sound(Sample(tuple[b]), Came(totals[b]))
    BY ObjectFacts
  <1>4. TP!Sound(u, Came(totals[a]) \ Came(totals[b]))
    BY <1>2, <1>3, Assumptions, TP!DifferenceSound
  <1>5. \A h \in u.entries : h \in Hash /\ h \in DOMAIN f /\ totals[b][h] = 0
    <2>1. u.entries \subseteq DOMAIN f
      BY DEF TP!Difference, TP!Compact, TP!Below, Sample
    <2>2. u.entries \subseteq Hash /\ u.entries \subseteq Came(totals[a]) \ Came(totals[b])
      BY <1>4 DEF TP!Sound, TP!SketchType, TP!Below
    <2> QED BY <1>3, <2>1, <2>2 DEF Came
  <1>6. /\ t \in [Hash -> Nat]
        /\ \A h \in Hash : t[h] = IF totals[b][h] = 0 THEN totals[a][h] ELSE 0
    BY <1>2, <1>3
  <1>7. Came(t) = Truths[a] \ Truths[b]
    BY <1>2, <1>3, <1>6 DEF Came, Truths
  <1>8. \A h \in u.entries : f[h] = t[h] /\ t[h] > 0 /\ t[h] \in Nat
    BY <1>2, <1>5, <1>6
  <1>9. s \in TupleType /\ Sample(s) = u /\ Paired(s, t)
    <2>1. /\ s \in TupleType /\ Sample(s) = u
          /\ s.summary = [h \in u.entries |-> f[h]]
      <3>1. (\A h \in u.entries : f[h] \in Nat) /\ u \in TP!SketchType
        BY <1>4, <1>8 DEF TP!Sound
      <3> HIDE DEF f, t, u
      <3> QED BY <3>1, CarryTyped
    <2> QED BY <1>8, <2>1 DEF Paired
  <1>10. u = TP!Difference(Samples[a], Samples[b])
    BY DEF Samples
  <1> HIDE DEF f, t, u, s
  <1>11. TP!Result(r, u, TP!DefaultWidth(a, b), Truths[a] \ Truths[b]) /\ Carried'
    BY <1>1, <1>6, <1>7, <1>9, ResultSteps
  <1> QED BY <1>10, <1>11 DEF TP!ThetaDifference

\* A payload read back is the sketch that was written, compacted.
LEMMA PayloadKeeps ==
  ASSUME TupleAssumption, NEW c \in TupleType
  PROVE  LET u == TP!Compact(c.empty, c.theta, DOMAIN c.summary)
             s == TupleDeserialized(TuplePayload(c))
         IN s \in TupleType /\ Sample(s) = u /\ s.summary = c.summary
  <1> DEFINE D == DOMAIN c.summary
             keys == InOrder(D)
             p == TuplePayload(c)
             s == TupleDeserialized(p)
             u == TP!Compact(c.empty, c.theta, D)
             at(h) == CHOOSE i \in DOMAIN p.keys : p.keys[i] = h
             f == [h \in D |-> p.values[at(h)]]
  <1>1. D \in SUBSET Hash /\ c.summary \in [D -> Nat]
    BY SampleTyped
  <1>2. /\ DOMAIN keys = 1 .. Cardinality(D) /\ keys \in [1 .. Cardinality(D) -> D]
        /\ \A h \in D : \E i \in DOMAIN keys : keys[i] = h
        /\ \A i, j \in DOMAIN keys : keys[i] = keys[j] => i = j
    BY <1>1, InOrderListsAll
  <1>3. {keys[i] : i \in DOMAIN keys} = D
    <2> DEFINE K == {keys[i] : i \in DOMAIN keys}
    <2> HIDE DEF keys, D
    <2>1. ASSUME NEW h \in D PROVE h \in K
      BY <1>2
    <2>2. ASSUME NEW h \in K PROVE h \in D
      BY <1>2
    <2> QED BY <2>1, <2>2
  <1>4. /\ p.empty = c.empty /\ p.theta = c.theta /\ p.keys = keys
        /\ p.values = [i \in DOMAIN keys |-> c.summary[keys[i]]]
    BY DEF TuplePayload
  <1>5. \A h \in D : f[h] = c.summary[h]
    <2> SUFFICES ASSUME NEW h \in D PROVE p.values[at(h)] = c.summary[h]
      OBVIOUS
    <2>1. at(h) \in DOMAIN keys /\ keys[at(h)] = h
      BY <1>2, <1>4
    <2> HIDE DEF at, keys, p
    <2> QED BY <1>4, <2>1
  <1>6. s = Carry(u, f)
    <2> DEFINE K == {p.keys[i] : i \in DOMAIN p.keys}
    <2>1. K = D
      BY <1>3, <1>4
    <2>2. s = Carry(TP!Compact(p.empty, p.theta, K), [h \in K |-> p.values[at(h)]])
      BY SameSamples DEF TupleDeserialized
    <2> HIDE DEF K, p, s, at
    <2> QED BY <1>4, <2>1, <2>2
  <1>7. u \in TP!SketchType /\ u.entries = D
    BY <1>1 DEF TP!Compact, TP!SketchType, TupleType
  <1>8. s \in TupleType /\ Sample(s) = u /\ s.summary = [h \in D |-> f[h]]
    <2>1. \A h \in u.entries : f[h] \in Nat
      BY <1>1, <1>5, <1>7
    <2> HIDE DEF s, u, f
    <2> QED BY <1>6, <1>7, <2>1, CarryTyped
  <1>9. s.summary = c.summary
    <2> HIDE DEF s, u, f
    <2> QED BY <1>1, <1>5, <1>8
  <1> QED BY <1>8, <1>9

LEMMA RestoreSteps ==
  ASSUME TupleAssumption, TupleInv, NEW r \in Sketch, NEW o \in Sketch, TupleRestore(r, o)
  PROVE  TP!Restore(r, o) /\ Carried'
  <1> DEFINE c == tuple[o]
             s == TupleDeserialized(TuplePayload(c))
             u == TP!Compact(c.empty, c.theta, DOMAIN c.summary)
  <1>1. PICK w \in TP!HintsFromRetained(Cardinality(DOMAIN c.summary)) :
          TupleResult(r, s, w, totals[o])
    BY SameWidths DEF TupleRestore
  <1>2. c \in TupleType /\ totals[o] \in [Hash -> Nat] /\ Paired(c, totals[o])
    BY ObjectFacts
  <1>3. s \in TupleType /\ Sample(s) = u /\ s.summary = c.summary
    <2> HIDE DEF c
    <2> QED BY <1>2, PayloadKeeps
  <1>4. Paired(s, totals[o])
    BY <1>2, <1>3 DEF Paired
  <1>5. TP!Result(r, u, w, Came(totals[o])) /\ Carried'
    <2> HIDE DEF s, u
    <2> QED BY <1>1, <1>2, <1>3, <1>4, ResultSteps
  <1>6. /\ Samples[o].empty = c.empty /\ Samples[o].theta = c.theta
        /\ Samples[o].entries = DOMAIN c.summary /\ Truths[o] = Came(totals[o])
    BY DEF Samples, Truths, Sample
  <1> QED BY <1>1, <1>5, <1>6, SameCardinality DEF TP!Restore

----------------------------------------------------------------------------
(* The invariant is inductive, and every step one of Theta *)

LEMMA InitSteps == TupleAssumption /\ TupleInit => TupleInv /\ TP!Init
  <1> SUFFICES ASSUME TupleAssumption, TupleInit PROVE TupleInv /\ TP!Init
    OBVIOUS
  <1>1. PICK w \in [Sketch -> Widths] :
          /\ tuple = [o \in Sketch |-> NewTuple(w[o])]
          /\ tuple_hint = w
          /\ totals = [o \in Sketch |-> [h \in Hash |-> 0]]
    BY DEF TupleInit
  <1>2. ASSUME NEW o \in Sketch
        PROVE  /\ tuple[o] \in TupleType /\ totals[o] \in [Hash -> Nat]
               /\ Sample(tuple[o]) = TP!NewUpdate(w[o])
               /\ Came(totals[o]) = {} /\ Paired(tuple[o], totals[o])
    <2> DEFINE u == TP!NewUpdate(w[o])
               f == [h \in {} |-> 0]
    <2>1. u \in TP!SketchType /\ u.entries = {}
      BY Assumptions, TP!NewSound DEF TP!Sound, TP!NewUpdate
    <2>2. tuple[o] = Carry(u, f) /\ totals[o] = [h \in Hash |-> 0]
      BY <1>1, SameSamples DEF NewTuple
    <2> HIDE DEF u, f
    <2>3. \A h \in u.entries : f[h] \in Nat
      BY <2>1
    <2>4. /\ Sample(tuple[o]) = u /\ tuple[o] \in TupleType
          /\ tuple[o].summary = [h \in u.entries |-> f[h]]
      <3>1. /\ Carry(u, f) \in TupleType /\ Sample(Carry(u, f)) = u
            /\ Carry(u, f).summary = [h \in u.entries |-> f[h]]
        BY <2>1, <2>3, CarryTyped
      <3> QED BY <2>2, <3>1
    <2>5. totals[o] \in [Hash -> Nat] /\ Came(totals[o]) = {}
      BY <2>2 DEF Came
    <2>6. Paired(tuple[o], totals[o])
      BY <2>1, <2>4 DEF Paired
    <2> QED BY <2>4, <2>5, <2>6 DEF u
  <1>3. Carried
    BY <1>1, <1>2 DEF Carried
  <1>4. TP!Init
    <2>1. Samples = [o \in Sketch |-> TP!NewUpdate(w[o])] /\ Truths = [o \in Sketch |-> {}]
      BY <1>2 DEF Samples, Truths
    <2> QED BY <1>1, <2>1 DEF TP!Init
  <1>5. TP!IInv
    BY <1>4, Assumptions, TP!InitIInv
  <1> QED BY <1>3, <1>4, <1>5 DEF TupleInv

LEMMA NextSteps ==
  ASSUME TupleAssumption, TupleInv, TupleNext
  PROVE  TP!Next /\ Carried'
  <1>1. ASSUME NEW o \in Sketch, NEW w \in Widths, TupleCreate(o, w)
        PROVE  TP!Next /\ Carried'
    BY <1>1, CreateSteps DEF TP!Next
  <1>2. ASSUME NEW o \in Sketch, NEW h \in Hash, NEW v \in Summand, TupleUpdate(o, h, v)
        PROVE  TP!Next /\ Carried'
    BY <1>2, UpdateSteps DEF TP!Next
  <1>3. \A a, b \in Sketch : TP!DefaultWidth(a, b) \in Widths
    <2>1. tuple_hint \in [Sketch -> Widths]
      BY DEF TupleInv, TP!IInv
    <2> QED BY <2>1 DEF TP!DefaultWidth, TP!LargerOf
  <1>4. ASSUME NEW o \in Sketch, NEW p \in Sketch, NEW w \in Widths, TupleMerge(o, p, w)
        PROVE  TP!Next /\ Carried'
    BY <1>4, MergeSteps DEF TP!Next
  <1>5. ASSUME NEW o \in Sketch, NEW p \in Sketch, TupleRestore(o, p)
        PROVE  TP!Next /\ Carried'
    BY <1>5, RestoreSteps DEF TP!Next
  <1>6. ASSUME NEW r \in Sketch, NEW a \in Sketch, NEW b \in Sketch, NEW w \in Widths,
               AodUnion(r, a, b, w)
        PROVE  TP!Next /\ Carried'
    BY <1>6, AodUnionSteps DEF TP!Next
  <1>7. ASSUME NEW r \in Sketch, NEW a \in Sketch, NEW b \in Sketch, AodIntersection(r, a, b)
        PROVE  TP!Next /\ Carried'
    BY <1>7, AodIntersectionSteps DEF TP!Next
  <1>8. ASSUME NEW r \in Sketch, NEW a \in Sketch, NEW b \in Sketch, AodDifference(r, a, b)
        PROVE  TP!Next /\ Carried'
    BY <1>8, AodDifferenceSteps DEF TP!Next
  <1>9. \A a, b \in Sketch : T!DefaultWidth(a, b) \in Widths
    BY <1>3, SameWidths
  <1> QED BY <1>1, <1>2, <1>4, <1>5, <1>6, <1>7, <1>8, <1>9 DEF TupleNext

LEMMA Stutters == TupleInv /\ UNCHANGED tupleVars => Carried' /\ UNCHANGED TP!vars
  BY DEF TupleInv, Carried, Paired, tupleVars, TP!vars, Samples, Sample, Truths, Came

LEMMA NextTupleInv ==
  ASSUME TupleAssumption
  PROVE  TupleInv /\ [TupleNext]_tupleVars => TupleInv' /\ [TP!Next]_(TP!vars)
  <1> SUFFICES ASSUME TupleInv, [TupleNext]_tupleVars
               PROVE  TupleInv' /\ [TP!Next]_(TP!vars)
    OBVIOUS
  <1>1. Carried' /\ [TP!Next]_(TP!vars)
    BY NextSteps, Stutters
  <1>2. TP!IInv'
    BY <1>1, Assumptions, TP!NextIInv DEF TupleInv
  <1> QED BY <1>1, <1>2 DEF TupleInv

----------------------------------------------------------------------------
(* Theorems *)

\* The totals and the sampling invariant hold in every reachable state.
THEOREM TupleInvariance ==
  ASSUME TupleAssumption PROVE TupleSpec => []TupleInv
  <1>1. TupleInit => TupleInv
    BY InitSteps
  <1>2. TupleInv /\ [TupleNext]_tupleVars => TupleInv'
    BY NextTupleInv
  <1> QED BY <1>1, <1>2, PTL DEF TupleSpec

\* A retained key carries the whole of what came with it, whatever rebuilt,
\* united, cut or restored the sketch: columns are never mixed up between keys,
\* and none is counted twice or lost.
THEOREM SummariesCarried ==
  ASSUME TupleAssumption PROVE TupleSpec => []SummariesPaired
  <1>1. TupleInv => SummariesPaired
    BY DEF TupleInv, Carried, Paired, SummariesPaired
  <1> QED BY <1>1, TupleInvariance, PTL

\* Array of doubles sketches are theta sketches: every creation, update, union,
\* intersection, difference, merge and round trip is that of Theta on the keys.
THEOREM TupleImplementsTheta ==
  ASSUME TupleAssumption PROVE TupleSpec => T!Spec
  <1>1. TupleInit => T!Init
    BY InitSteps, SameInit
  <1>2. TupleInv /\ [TupleNext]_tupleVars => [T!Next]_(T!vars)
    BY NextTupleInv, SameNext, SameVars
  <1> QED BY <1>1, <1>2, TupleInvariance, PTL DEF TupleSpec, T!Spec

\* Hence their keys are exactly those of their set below theta, so that column
\* sums over theta are sums over a sample at the rate theta, and is_empty() is
\* right.
THEOREM TupleSamplesExact ==
  ASSUME TupleAssumption PROVE TupleSpec => [](T!SampleExact /\ T!EmptyFlagSound)
  <1>1. TupleInv => T!SampleExact /\ T!EmptyFlagSound
    BY DEF TupleInv, TP!IInv, TP!Sound, TP!Below, T!SampleExact, T!EmptyFlagSound, T!Below,
           Samples, Truths, Came
  <1> QED BY <1>1, TupleInvariance, PTL
=============================================================================
