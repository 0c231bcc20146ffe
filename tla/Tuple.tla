------------------------------- MODULE Tuple -------------------------------
(***************************************************************************)
(* Array-of-doubles sketches (datasketches/tuple): theta sketches whose    *)
(* entries carry a summary, the sum of the values that came with the key.  *)
(* Tables, unions, intersections and differences are the templates of      *)
(* theta_*_base, so a sketch here is a sample of Theta together with its   *)
(* summaries.                                                              *)
(*                                                                         *)
(* The columns of an array are summed one by one and never meet: one of    *)
(* them is modelled.  Values are integers, their sums exact.               *)
(***************************************************************************)
EXTENDS Integers, FiniteSets

CONSTANTS
  Hash, MAX_THETA, Sketch,                      \* as in Theta
  Widths, DEFAULT_WIDTH, MIN_WIDTH, MAX_WIDTH,
  Summand,   \* values that come with a key, greater than 0
  MaxTotal   \* bound: what one key sums up to

TupleAssumption ==
  /\ MAX_THETA \in Nat \ {0} /\ Hash \subseteq 1 .. MAX_THETA - 1
  /\ Widths \subseteq Nat \ {0} /\ {DEFAULT_WIDTH, MIN_WIDTH, MAX_WIDTH} \subseteq Widths
  /\ \A v, w \in Widths : v < w => 2 * v <= w
  /\ Summand \subseteq Nat \ {0}

VARIABLES
  tuple,       \* the native sketch of each object: [compact, empty, theta,
               \* width] of Theta, and summary, a function on the entries
  tuple_hint,  \* private$lg_k_hint, as a width
  totals       \* history: what each key of the object's set sums up to, and
               \* 0 for the other hashes

tupleVars == <<tuple, tuple_hint, totals>>

\* A sketch without its summaries
Sample(s) ==
  [compact |-> s.compact, empty |-> s.empty, theta |-> s.theta,
   entries |-> DOMAIN s.summary, width |-> s.width]

T == INSTANCE Theta WITH
  sk <- [o \in Sketch |-> Sample(tuple[o])],
  hint <- tuple_hint,
  truth <- [o \in Sketch |-> {h \in Hash : totals[o][h] > 0}]

\* The entries of a sample with their summaries
Carry(u, summary) ==
  [compact |-> u.compact, empty |-> u.empty, theta |-> u.theta, width |-> u.width,
   summary |-> [h \in u.entries |-> summary[h]]]

----------------------------------------------------------------------------
(* Summaries *)

\* The update policy, and the policy of unions and intersections
Added(f, g) ==
  [h \in DOMAIN f \cup DOMAIN g |->
     (IF h \in DOMAIN f THEN f[h] ELSE 0) + (IF h \in DOMAIN g THEN g[h] ELSE 0)]

NewTuple(w) == Carry(T!NewUpdate(w), [h \in {} |-> 0])

TupleUpdates(s, h, v) ==
  {Carry(u, Added(s.summary, [k \in {h} |-> v])) : u \in T!Updates(Sample(s), h)}

TupleUnions(a, b, w) ==
  {Carry(u, Added(a.summary, b.summary)) : u \in T!Unions(Sample(a), Sample(b), w)}

TupleIntersection(a, b) ==
  Carry(T!Intersection(Sample(a), Sample(b)), Added(a.summary, b.summary))

\* Entries that stay keep the values of a.
TupleDifference(a, b) == Carry(T!Difference(Sample(a), Sample(b)), a.summary)

InOrder(S) ==
  CHOOSE keys \in [1 .. Cardinality(S) -> S] :
    \A i, j \in 1 .. Cardinality(S) : i < j => keys[i] < keys[j]

\* Keys and values are written one after the other, both in key order.
TuplePayload(s) ==
  LET keys == InOrder(DOMAIN s.summary) IN
  [empty |-> s.empty, theta |-> s.theta, keys |-> keys,
   values |-> [i \in DOMAIN keys |-> s.summary[keys[i]]]]

TupleDeserialized(p) ==
  Carry(T!Compact(p.empty, p.theta, {p.keys[i] : i \in DOMAIN p.keys}),
        [h \in {p.keys[i] : i \in DOMAIN p.keys} |->
           p.values[CHOOSE i \in DOMAIN p.keys : p.keys[i] = h]])

----------------------------------------------------------------------------
(* Operations on the R objects *)

TupleInit ==
  \E w \in [Sketch -> Widths] :
    /\ tuple = [o \in Sketch |-> NewTuple(w[o])]
    /\ tuple_hint = w
    /\ totals = [o \in Sketch |-> [h \in Hash |-> 0]]

TupleResult(o, s, w, t) ==
  /\ \A h \in Hash : t[h] <= MaxTotal
  /\ tuple' = [tuple EXCEPT ![o] = s]
  /\ tuple_hint' = [tuple_hint EXCEPT ![o] = w]
  /\ totals' = [totals EXCEPT ![o] = t]

TupleCreate(o, w) ==
  TupleResult(o, NewTuple(w), w, [h \in Hash |-> 0])

TupleUpdate(o, h, v) ==
  /\ ~tuple[o].compact
  /\ \E s \in TupleUpdates(tuple[o], h, v) :
       TupleResult(o, s, tuple_hint[o], [totals[o] EXCEPT ![h] = @ + v])

TupleMerge(o, p, w) ==
  /\ o # p
  /\ \E s \in TupleUnions(tuple[o], tuple[p], w) :
       TupleResult(o, s, w, [h \in Hash |-> totals[o][h] + totals[p][h]])

AodUnion(r, a, b, w) ==
  \E s \in TupleUnions(tuple[a], tuple[b], w) :
    TupleResult(r, s, w, [h \in Hash |-> totals[a][h] + totals[b][h]])

AodIntersection(r, a, b) ==
  TupleResult(r, TupleIntersection(tuple[a], tuple[b]), T!DefaultWidth(a, b),
              [h \in Hash |-> IF 0 \in {totals[a][h], totals[b][h]} THEN 0
                             ELSE totals[a][h] + totals[b][h]])

AodDifference(r, a, b) ==
  TupleResult(r, TupleDifference(tuple[a], tuple[b]), T!DefaultWidth(a, b),
              [h \in Hash |-> IF totals[b][h] = 0 THEN totals[a][h] ELSE 0])

TupleRestore(r, o) ==
  \E w \in T!HintsFromRetained(Cardinality(DOMAIN tuple[o].summary)) :
    TupleResult(r, TupleDeserialized(TuplePayload(tuple[o])), w, totals[o])

TupleNext ==
  \/ \E o \in Sketch, w \in Widths : TupleCreate(o, w)
  \/ \E o \in Sketch, h \in Hash, v \in Summand : TupleUpdate(o, h, v)
  \/ \E o, p \in Sketch :
       \/ \E w \in Widths \cup {T!DefaultWidth(o, p)} : TupleMerge(o, p, w)
       \/ TupleRestore(o, p)
  \/ \E r, a, b \in Sketch :
       \/ \E w \in Widths \cup {T!DefaultWidth(a, b)} : AodUnion(r, a, b, w)
       \/ AodIntersection(r, a, b)
       \/ AodDifference(r, a, b)

TupleSpec == TupleInit /\ [][TupleNext]_tupleVars

----------------------------------------------------------------------------
(* Properties *)

\* A retained key carries the whole of what came with it, whatever rebuilt,
\* united, cut or restored the sketch; column_sums() then only scales by theta.
SummariesPaired ==
  \A o \in Sketch : LET s == tuple[o].summary IN
    \A h \in DOMAIN s : s[h] > 0 /\ s[h] = totals[o][h]
=============================================================================
