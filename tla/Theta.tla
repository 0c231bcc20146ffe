------------------------------- MODULE Theta -------------------------------
(***************************************************************************)
(* Theta sketches as samples: a sketch retains the hashes of its stream    *)
(* that are below a threshold theta.  An update sketch lowers theta when   *)
(* its table overflows (rebuild); merge, the set operations and            *)
(* deserialization make compact sketches, which can no longer be updated.  *)
(* The tables and the ordered arrays the samples are kept in are           *)
(* ThetaTable, which implements this module.                               *)
(*                                                                         *)
(* Each R object holds a native sketch and the width a later merge or      *)
(* union is sized with (private$lg_k_hint).  All objects have one seed:    *)
(* the R methods reject operands whose seeds differ.                       *)
(***************************************************************************)
EXTENDS Integers, FiniteSets

CONSTANTS
  Hash,          \* hash values of the stream's items
  MAX_THETA,     \* above every hash
  Sketch,        \* R objects
  Widths,        \* the legal nominal sizes 2^lg_k
  DEFAULT_WIDTH, \* 2^12 in the code
  MIN_WIDTH,     \* 2^MIN_LG_K
  MAX_WIDTH      \* 2^MAX_LG_K

ASSUME HashAssumption ==
  /\ MAX_THETA \in Nat \ {0}
  /\ Hash \subseteq 1..MAX_THETA - 1
ASSUME WidthAssumption ==
  /\ Widths \subseteq Nat \ {0}
  /\ {DEFAULT_WIDTH, MIN_WIDTH, MAX_WIDTH} \subseteq Widths
  /\ \A v, w \in Widths : v < w => 2 * v <= w   \* powers of two

VARIABLES
  sk,     \* the native sketch of each object
  hint,   \* private$lg_k_hint, as a width
  truth   \* history: hashes of the set the object stands for

vars == <<sk, hint, truth>>

----------------------------------------------------------------------------
(* Sketches *)

\* A compact sketch has no nominal size of its own (width 0).
SketchType ==
  [compact : BOOLEAN, empty : BOOLEAN, theta : 1..MAX_THETA,
   entries : SUBSET Hash, width : Widths \cup {0}]

NewUpdate(w) ==
  [compact |-> FALSE, empty |-> TRUE, theta |-> MAX_THETA, entries |-> {}, width |-> w]
Compact(empty, theta, entries) ==
  [compact |-> TRUE, empty |-> empty, theta |-> theta, entries |-> entries, width |-> 0]

SmallerOf(x, y) == IF x < y THEN x ELSE y
LargerOf(x, y) == IF x < y THEN y ELSE x
Below(E, theta) == {h \in E : h < theta}

\* get_capacity at the full table size 2 * width: REBUILD_THRESHOLD 15/16.
RebuildCapacity(w) == (15 * (2 * w)) \div 16

Trims_OneLess(E, theta, w) ==
  IF Cardinality(E) <= w THEN {[theta |-> theta, entries |-> E]}
  ELSE {[theta |-> t, entries |-> Below(E, t)] :
          t \in {t \in E : Cardinality(Below(E, t)) = w - 1}}

\* std::nth_element at position w: the w smallest entries stay, and the entry
\* with exactly w below it becomes theta.  (The set has one member.)
Trims(E, theta, w) ==
  IF Cardinality(E) <= w THEN {[theta |-> theta, entries |-> E]}
  ELSE {[theta |-> t, entries |-> Below(E, t)] :
          t \in {t \in E : Cardinality(Below(E, t)) = w}}

----------------------------------------------------------------------------
(* Set operations: the possible results *)

\* Feeding a then b into a union of width w, and get_result: entries below the
\* smaller theta, trimmed to the width.
Unions(a, b, w) ==
  IF a.empty /\ b.empty THEN {Compact(TRUE, MAX_THETA, {})}
  ELSE LET theta == SmallerOf(a.theta, b.theta) IN
       {Compact(FALSE, r.theta, r.entries) :
          r \in Trims(Below(a.entries \cup b.entries, theta), theta, w)}

Intersection_KeepsTheta(a, b) ==
  LET empty == a.empty \/ b.empty
      theta == IF empty THEN MAX_THETA ELSE a.theta
      entries == IF empty THEN {} ELSE Below(a.entries \cap b.entries, theta)
  IN Compact(empty \/ (entries = {} /\ theta = MAX_THETA), theta, entries)

Intersection(a, b) ==
  LET empty == a.empty \/ b.empty
      theta == IF empty THEN MAX_THETA ELSE SmallerOf(a.theta, b.theta)
      entries == IF empty THEN {} ELSE Below(a.entries \cap b.entries, theta)
  IN Compact(empty \/ (entries = {} /\ theta = MAX_THETA), theta, entries)

Difference_NeverEmpties(a, b) ==
  LET theta == SmallerOf(a.theta, b.theta)
      entries == Below(a.entries \ b.entries, theta)
  IN IF a.empty \/ (a.entries # {} /\ b.empty) THEN Compact(a.empty, a.theta, a.entries)
     ELSE Compact(FALSE, theta, entries)

\* theta_a_not_b: a itself when there is nothing to take out of it.
Difference(a, b) ==
  LET theta == SmallerOf(a.theta, b.theta)
      entries == Below(a.entries \ b.entries, theta)
  IN IF a.empty \/ (a.entries # {} /\ b.empty) THEN Compact(a.empty, a.theta, a.entries)
     ELSE Compact(entries = {} /\ theta = MAX_THETA, theta, entries)

\* Two objects that hold one native sketch are identical; so are two empty ones.
\* The union jaccard compares with is wide enough for both samples.
JaccardWidths(a, b) ==
  LET n == Cardinality(a.entries) + Cardinality(b.entries) IN
  {w \in Widths : /\ MIN_WIDTH <= w /\ w <= MAX_WIDTH
                  /\ n <= w \/ w = MAX_WIDTH
                  /\ \A v \in Widths : MIN_WIDTH <= v /\ n <= v => w <= v}

SameAs_Retained(u, a, b) ==
  /\ Cardinality(u.entries) = Cardinality(a.entries)
  /\ u.theta = a.theta

\* identical_sets: equal counts and thetas, without comparing the entries.
SameAs(u, a, b) ==
  /\ Cardinality(u.entries) = Cardinality(a.entries)
  /\ Cardinality(u.entries) = Cardinality(b.entries)
  /\ u.theta = a.theta
  /\ u.theta = b.theta

\* jaccard answers (1, 1, 1)
JaccardIdentical(a, b) ==
  \/ a.empty /\ b.empty
  \/ /\ ~a.empty /\ ~b.empty
     /\ \E w \in JaccardWidths(a, b) : \E u \in Unions(a, b, w) : SameAs(u, a, b)

----------------------------------------------------------------------------
(* Operations on the R objects *)

HintsFromRetained_Raw(n) == {n}

\* lg_k_hint_from_retained: the retained count rounded down to a power of two,
\* but never below the default.
HintsFromRetained(n) ==
  LET known == {DEFAULT_WIDTH} \cup {w \in Widths : w <= n} IN
  {w \in known : \A v \in known : v <= w}

Init ==
  /\ \E w \in [Sketch -> Widths] :
       /\ sk = [s \in Sketch |-> NewUpdate(w[s])]
       /\ hint = w
  /\ truth = [s \in Sketch |-> {}]

\* theta(lg_k = ): a fresh update sketch
Create(s, w) ==
  /\ sk' = [sk EXCEPT ![s] = NewUpdate(w)]
  /\ hint' = [hint EXCEPT ![s] = w]
  /\ truth' = [truth EXCEPT ![s] = {}]

\* update(value): hash_and_screen marks the sketch non-empty even when the hash
\* is screened out; the insertion that overflows the table rebuilds it.
Updates(c, h) ==
  LET d == [c EXCEPT !.empty = FALSE] IN
  IF h >= c.theta \/ h \in c.entries THEN {d}
  ELSE IF Cardinality(c.entries) < RebuildCapacity(c.width)
  THEN {[d EXCEPT !.entries = @ \cup {h}]}
  ELSE {[d EXCEPT !.theta = r.theta, !.entries = r.entries] :
          r \in Trims(c.entries \cup {h}, c.theta, c.width)}

\* A compact receiver is refused.
Update(s, h) ==
  /\ ~sk[s].compact
  /\ truth' = [truth EXCEPT ![s] = @ \cup {h}]
  /\ \E c \in Updates(sk[s], h) : sk' = [sk EXCEPT ![s] = c]
  /\ UNCHANGED hint

\* The width of merge and theta_union without an lg_k argument
DefaultWidth_Receiver(s, o) == hint[s]
DefaultWidth(s, o) == LargerOf(hint[s], hint[o])

\* $merge(other, lg_k): the receiver becomes the compact union of both.
Merge(s, o, w) ==
  /\ s # o
  /\ truth' = [truth EXCEPT ![s] = truth[s] \cup truth[o]]
  /\ hint' = [hint EXCEPT ![s] = w]
  /\ \E u \in Unions(sk[s], sk[o], w) : sk' = [sk EXCEPT ![s] = u]

\* The top-level functions make a new object, here held in r.
Result(r, u, w, t) ==
  /\ truth' = [truth EXCEPT ![r] = t]
  /\ hint' = [hint EXCEPT ![r] = w]
  /\ sk' = [sk EXCEPT ![r] = u]

ThetaUnion(r, a, b, w) ==
  /\ truth' = [truth EXCEPT ![r] = truth[a] \cup truth[b]]
  /\ hint' = [hint EXCEPT ![r] = w]
  /\ \E u \in Unions(sk[a], sk[b], w) : sk' = [sk EXCEPT ![r] = u]

ThetaIntersection(r, a, b) ==
  Result(r, Intersection(sk[a], sk[b]), DefaultWidth(a, b), truth[a] \cap truth[b])

ThetaDifference(r, a, b) ==
  Result(r, Difference(sk[a], sk[b]), DefaultWidth(a, b), truth[a] \ truth[b])

\* theta(bytes = o$serialize()): compact, with a guessed width
Restore(r, o) ==
  \E w \in HintsFromRetained(Cardinality(sk[o].entries)) :
    Result(r, Compact(sk[o].empty, sk[o].theta, sk[o].entries), w, truth[o])

Next ==
  \/ \E s \in Sketch, w \in Widths : Create(s, w)
  \/ \E s \in Sketch, h \in Hash : Update(s, h)
  \/ \E s, o \in Sketch :
       \/ \E w \in Widths \cup {DefaultWidth(s, o)} : Merge(s, o, w)
       \/ Restore(s, o)
  \/ \E r, a, b \in Sketch :
       \/ \E w \in Widths \cup {DefaultWidth(a, b)} : ThetaUnion(r, a, b, w)
       \/ ThetaIntersection(r, a, b)
       \/ ThetaDifference(r, a, b)

Spec == Init /\ [][Next]_vars

----------------------------------------------------------------------------
(* Properties *)

\* Sketches stay well formed, and the width a merge is sized with is a legal
\* nominal size whatever count it was guessed from.
TypeOK ==
  /\ sk \in [Sketch -> SketchType]
  /\ hint \in [Sketch -> Widths]
  /\ truth \in [Sketch -> SUBSET Hash]

\* The sampling guarantee every estimate rests on: whatever updates, rebuilds,
\* merges, set operations and round trips made a sketch, it retains exactly the
\* hashes of its set that are below theta, so theta is the sampling rate.
SampleExact ==
  \A s \in Sketch : sk[s].entries = Below(truth[s], sk[s].theta)

\* is_empty() answers for the set: an empty sketch stands for the empty set and
\* samples everything, and in exact mode the flag is never wrong.
EmptyFlagSound ==
  \A s \in Sketch :
    /\ sk[s].empty => truth[s] = {} /\ sk[s].theta = MAX_THETA
    /\ sk[s].theta = MAX_THETA => (sk[s].empty <=> truth[s] = {})

\* The accuracy of an update sketch: its table is never over capacity, once
\* theta has dropped at least the nominal number of hashes is retained, and
\* then the retained count gives the width back after a round trip ("recover
\* lg_k exactly, wherever in the resize cycle").
UpdateSketchKeepsWidth ==
  \A s \in Sketch : ~sk[s].compact =>
    LET n == Cardinality(sk[s].entries) IN
    /\ n <= RebuildCapacity(sk[s].width)
    /\ sk[s].theta < MAX_THETA =>
         /\ n >= sk[s].width
         /\ sk[s].width >= DEFAULT_WIDTH => HintsFromRetained(n) = {sk[s].width}

\* Jaccard's shortcut compares counts and thetas only; it never answers exactly
\* 1 for sketches with different samples while the union it builds can hold both.
JaccardOneMeansEqual ==
  \A a, b \in Sketch :
    /\ JaccardIdentical(sk[a], sk[b])
    /\ Cardinality(sk[a].entries) + Cardinality(sk[b].entries) <= MAX_WIDTH
    => sk[a].entries = sk[b].entries /\ sk[a].theta = sk[b].theta

\* "sized for the larger configured lg_k": a default merge of update sketches
\* retains the full width of the wider one, or all there is.
MergeKeepsWidth ==
  [][\A s, o \in Sketch :
       /\ ~sk[s].compact /\ ~sk[o].compact
       /\ Merge(s, o, DefaultWidth(s, o))
       => LET all == Below(sk[s].entries \cup sk[o].entries,
                           SmallerOf(sk[s].theta, sk[o].theta))
          IN Cardinality(sk'[s].entries) >=
               SmallerOf(Cardinality(all), LargerOf(sk[s].width, sk[o].width))]_vars

\* The claim of the documentation that the code does not keep: "recover a hint
\* from the retained-entry count so a round-tripped sketch still unions at its
\* original width".  Uniting two restored sketches would then sample at least as
\* much as uniting the originals.
RoundTripUnionsAtWidth ==
  \A a, b \in Sketch : ~sk[a].compact /\ ~sk[b].compact =>
    \A v \in HintsFromRetained(Cardinality(sk[a].entries)),
       w \in HintsFromRetained(Cardinality(sk[b].entries)) :
      \A original \in Unions(sk[a], sk[b], DefaultWidth(a, b)),
         restored \in Unions(sk[a], sk[b], LargerOf(v, w)) :
        restored.theta >= original.theta
============================================================================
