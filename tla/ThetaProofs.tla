---------------------------- MODULE ThetaProofs ----------------------------
(***************************************************************************)
(* What holds of Theta for every set of hashes, every set of widths and    *)
(* every sequence of updates, merges, set operations and round trips: the  *)
(* sketches are exact samples below theta, their flags and widths are      *)
(* right, and Jaccard's shortcut is sound.                                 *)
(***************************************************************************)
EXTENDS Theta, FiniteSetTheorems, TLAPS

\* Sketch c stands for the set T.
Sound(c, T) ==
  /\ c \in SketchType
  /\ T \in SUBSET Hash
  /\ c.entries = Below(T, c.theta)
  /\ c.empty => T = {} /\ c.theta = MAX_THETA
  /\ c.theta = MAX_THETA => (c.empty <=> T = {})

\* An update sketch has its hint as width and is within its table; rebuilt, it
\* holds at least its width.
Roomy(c, w) ==
  ~c.compact =>
    /\ c.width = w
    /\ Cardinality(c.entries) <= RebuildCapacity(w)
    /\ c.theta < MAX_THETA => Cardinality(c.entries) >= w

IInv ==
  /\ sk \in [Sketch -> SketchType]
  /\ hint \in [Sketch -> Widths]
  /\ truth \in [Sketch -> SUBSET Hash]
  /\ \A s \in Sketch : Sound(sk[s], truth[s]) /\ Roomy(sk[s], hint[s])

----------------------------------------------------------------------------
(* Samples *)

LEMMA SampleFinite ==
  ASSUME NEW E \in SUBSET Hash
  PROVE  IsFiniteSet(E) /\ Cardinality(E) \in Nat
  <1>1. MAX_THETA - 1 \in Int
    BY HashAssumption
  <1>2. IsFiniteSet(1..MAX_THETA - 1)
    BY <1>1, FS_Interval
  <1>3. E \subseteq 1..MAX_THETA - 1
    BY HashAssumption
  <1> QED BY <1>2, <1>3, FS_Subset, FS_CardinalityType

LEMMA HashBelow == \A h \in Hash : h \in 1..MAX_THETA /\ h < MAX_THETA
  BY HashAssumption

LEMMA CapacityBetween ==
  ASSUME NEW w \in Widths
  PROVE  w <= RebuildCapacity(w) /\ RebuildCapacity(w) < 2 * w /\ RebuildCapacity(w) \in Nat
  BY WidthAssumption DEF RebuildCapacity

\* A trimmed sample is the sample below the new threshold, and holds w hashes
\* unless there were no more than w to begin with.
LEMMA TrimmedSample ==
  ASSUME NEW E \in SUBSET Hash, NEW theta \in 1..MAX_THETA, NEW w \in Widths,
         NEW r \in Trims(E, theta, w), \A h \in E : h < theta
  PROVE  /\ r.theta \in 1..MAX_THETA /\ r.theta <= theta
         /\ r.entries = Below(E, r.theta)
         /\ IF Cardinality(E) <= w THEN r.theta = theta /\ r.entries = E
            ELSE r.theta < MAX_THETA /\ Cardinality(r.entries) = w
  <1>1. CASE Cardinality(E) <= w
    <2>1. r.theta = theta /\ r.entries = E
      BY <1>1 DEF Trims
    <2>2. Below(E, theta) = E
      BY DEF Below
    <2> QED BY <1>1, <2>1, <2>2
  <1>2. CASE ~(Cardinality(E) <= w)
    <2>1. PICK t \in E : Cardinality(Below(E, t)) = w /\ r = [theta |-> t, entries |-> Below(E, t)]
      BY <1>2 DEF Trims
    <2>2. t \in 1..MAX_THETA /\ t < MAX_THETA /\ t <= theta
      BY HashBelow
    <2> QED BY <1>2, <2>1, <2>2
  <1> QED BY <1>1, <1>2

----------------------------------------------------------------------------
(* The operations keep samples sound *)

LEMMA NewSound ==
  ASSUME NEW w \in Widths
  PROVE  Sound(NewUpdate(w), {}) /\ Roomy(NewUpdate(w), w)
  <1>1. Cardinality({}) = 0
    BY FS_EmptySet
  <1>2. 0 <= RebuildCapacity(w)
    BY CapacityBetween
  <1> QED BY <1>1, <1>2, HashAssumption DEF Sound, Roomy, NewUpdate, SketchType, Below

LEMMA UpdateSound ==
  ASSUME NEW c, NEW T, Sound(c, T), NEW w \in Widths, Roomy(c, w), ~c.compact,
         NEW h \in Hash, NEW d \in Updates(c, h)
  PROVE  Sound(d, T \cup {h}) /\ Roomy(d, w)
  <1> DEFINE E == c.entries \cup {h}
             n == Cardinality(c.entries)
  <1>1. /\ c \in SketchType /\ T \in SUBSET Hash /\ c.entries \in SUBSET Hash
        /\ c.theta \in 1..MAX_THETA /\ c.width = w
        /\ c.entries = Below(T, c.theta)
    BY DEF Sound, SketchType, Roomy
  <1>2. IsFiniteSet(c.entries) /\ n \in Nat
    BY <1>1, SampleFinite
  <1>4. CASE h >= c.theta \/ h \in c.entries
    <2>1. d = [c EXCEPT !.empty = FALSE]
      BY <1>4 DEF Updates
    <2>2. d \in SketchType /\ d.empty = FALSE /\ d.compact = FALSE /\ d.width = w
          /\ d.theta = c.theta /\ d.entries = c.entries
      BY <1>1, <2>1 DEF SketchType
    <2>3. Below(T, c.theta) = Below(T \cup {h}, c.theta)
      BY <1>1, <1>4, HashBelow DEF Below
    <2> QED BY <1>1, <2>2, <2>3 DEF Sound, Roomy
  <1>5. CASE ~(h >= c.theta \/ h \in c.entries) /\ n < RebuildCapacity(w)
    <2>1. d = [c EXCEPT !.empty = FALSE, !.entries = E]
      BY <1>1, <1>5 DEF Updates
    <2>2. d \in SketchType /\ d.empty = FALSE /\ d.compact = FALSE /\ d.width = w
          /\ d.theta = c.theta /\ d.entries = E
      BY <1>1, <2>1 DEF SketchType
    <2>3. E = Below(T \cup {h}, c.theta)
      BY <1>1, <1>5, HashBelow DEF Below
    <2>4. Cardinality(E) = n + 1
      BY <1>2, <1>5, FS_AddElement
    <2>5. Cardinality(E) <= RebuildCapacity(w)
      BY <1>2, <1>5, <2>4, CapacityBetween
    <2>6. c.theta < MAX_THETA => Cardinality(E) >= w
      BY <1>1, <1>2, <2>4, WidthAssumption DEF Roomy
    <2> QED BY <1>1, <2>2, <2>3, <2>5, <2>6 DEF Sound, Roomy
  <1>6. CASE ~(h >= c.theta \/ h \in c.entries) /\ ~(n < RebuildCapacity(w))
    <2>1. PICK r \in Trims(E, c.theta, w) :
            d = [c EXCEPT !.empty = FALSE, !.theta = r.theta, !.entries = r.entries]
      BY <1>1, <1>6 DEF Updates
    <2>2. \A g \in E : g < c.theta
      BY <1>1, <1>6, HashBelow DEF Below
    <2>3. Cardinality(E) = n + 1
      BY <1>2, <1>6, FS_AddElement
    <2>4. ~(Cardinality(E) <= w)
      BY <1>2, <1>6, <2>3, CapacityBetween, WidthAssumption
    <2>5. /\ r.theta \in 1..MAX_THETA /\ r.theta <= c.theta /\ r.theta < MAX_THETA
          /\ r.entries = Below(E, r.theta) /\ Cardinality(r.entries) = w
      BY <1>1, <2>2, <2>4, TrimmedSample
    <2>6. r.entries \in SUBSET Hash
      BY <1>1, <2>5 DEF Below
    <2>7. d \in SketchType /\ d.empty = FALSE /\ d.compact = FALSE /\ d.width = w
          /\ d.theta = r.theta /\ d.entries = r.entries
      BY <1>1, <2>1, <2>5, <2>6 DEF SketchType
    <2>8. Below(E, r.theta) = Below(T \cup {h}, r.theta)
      BY <1>1, <2>5, HashBelow DEF Below
    <2> QED BY <1>1, <2>5, <2>7, <2>8, CapacityBetween, WidthAssumption DEF Sound, Roomy
  <1> QED BY <1>4, <1>5, <1>6

LEMMA SmallerOfThetas ==
  ASSUME NEW x \in 1..MAX_THETA, NEW y \in 1..MAX_THETA
  PROVE  /\ SmallerOf(x, y) \in 1..MAX_THETA
         /\ SmallerOf(x, y) <= x /\ SmallerOf(x, y) <= y
         /\ SmallerOf(x, y) = MAX_THETA => x = MAX_THETA /\ y = MAX_THETA
  BY HashAssumption DEF SmallerOf

\* What makes a compact sketch stand for T
LEMMA CompactSound ==
  ASSUME NEW e \in BOOLEAN, NEW t \in 1..MAX_THETA, NEW T \in SUBSET Hash,
         e => T = {} /\ t = MAX_THETA,
         t = MAX_THETA => (e <=> T = {})
  PROVE  LET u == Compact(e, t, Below(T, t)) IN Sound(u, T) /\ u.compact
  <1> DEFINE u == Compact(e, t, Below(T, t))
  <1>1. Below(T, t) \in SUBSET Hash
    BY DEF Below
  <1>2. /\ u.compact = TRUE /\ u.empty = e /\ u.theta = t
        /\ u.entries = Below(T, t) /\ u \in SketchType
    BY <1>1 DEF Compact, SketchType
  <1> QED BY <1>2 DEF Sound

LEMMA UnionSound ==
  ASSUME NEW a, NEW A, Sound(a, A), NEW b, NEW B, Sound(b, B),
         NEW w \in Widths, NEW u \in Unions(a, b, w)
  PROVE  Sound(u, A \cup B) /\ u.compact
  <1> DEFINE theta == SmallerOf(a.theta, b.theta)
             E == Below(a.entries \cup b.entries, theta)
  <1>1. /\ a.theta \in 1..MAX_THETA /\ b.theta \in 1..MAX_THETA
        /\ a.entries \in SUBSET Hash /\ b.entries \in SUBSET Hash
        /\ A \in SUBSET Hash /\ B \in SUBSET Hash
    BY DEF Sound, SketchType
  <1>2. CASE a.empty /\ b.empty
    <2>1. u = Compact(TRUE, MAX_THETA, {}) /\ A = {} /\ B = {}
      BY <1>2 DEF Unions, Sound
    <2> QED BY <2>1, HashAssumption DEF Compact, Sound, SketchType, Below
  <1>3. CASE ~(a.empty /\ b.empty)
    <2>1. PICK r \in Trims(E, theta, w) : u = Compact(FALSE, r.theta, r.entries)
      BY <1>3 DEF Unions
    <2>2. theta \in 1..MAX_THETA /\ theta <= a.theta /\ theta <= b.theta
      BY <1>1, SmallerOfThetas
    <2>3. E \in SUBSET Hash /\ \A h \in E : h < theta
      BY <1>1 DEF Below
    <2>4. /\ r.theta \in 1..MAX_THETA /\ r.theta <= theta
          /\ r.entries = Below(E, r.theta)
      BY <2>2, <2>3, TrimmedSample
    <2>5. Below(E, r.theta) = Below(A \cup B, r.theta)
      <3>1. \A h \in Hash : h < r.theta => h < theta /\ h < a.theta /\ h < b.theta
        BY <1>1, <2>2, <2>4, HashBelow
      <3>2. \A h \in Hash : h < r.theta => (h \in E <=> h \in A \cup B)
        BY <3>1 DEF Below, Sound
      <3> QED BY <1>1, <2>3, <3>2 DEF Below
    <2>6. u.theta = MAX_THETA => A \cup B # {}
      <3>1. r.theta = MAX_THETA => a.theta = MAX_THETA /\ b.theta = MAX_THETA
        BY <1>1, <2>2, <2>4, HashAssumption
      <3> QED BY <1>3, <2>1, <3>1 DEF Sound, Compact
    <2>7. u \in SketchType
      BY <2>1, <2>3, <2>4 DEF Compact, SketchType, Below
    <2> QED BY <1>1, <2>1, <2>4, <2>5, <2>6, <2>7 DEF Sound, Compact
  <1> QED BY <1>2, <1>3

LEMMA IntersectionSound ==
  ASSUME NEW a, NEW A, Sound(a, A), NEW b, NEW B, Sound(b, B)
  PROVE  Sound(Intersection(a, b), A \cap B) /\ Intersection(a, b).compact
  <1> DEFINE u == Intersection(a, b)
             theta == SmallerOf(a.theta, b.theta)
             E == Below(a.entries \cap b.entries, theta)
  <1>1. /\ a.theta \in 1..MAX_THETA /\ b.theta \in 1..MAX_THETA
        /\ a.entries \in SUBSET Hash /\ b.entries \in SUBSET Hash
        /\ A \in SUBSET Hash /\ B \in SUBSET Hash
    BY DEF Sound, SketchType
  <1>2. CASE a.empty \/ b.empty
    <2>1. u = Compact(TRUE, MAX_THETA, {}) /\ A \cap B = {}
      BY <1>2 DEF Intersection, Sound
    <2>2. Below({}, MAX_THETA) = {} /\ MAX_THETA \in 1..MAX_THETA
      BY HashAssumption DEF Below
    <2> QED BY <2>1, <2>2, CompactSound
  <1>3. CASE ~(a.empty \/ b.empty)
    <2>1. u = Compact(E = {} /\ theta = MAX_THETA, theta, E)
      BY <1>3 DEF Intersection
    <2>2. theta \in 1..MAX_THETA /\ theta <= a.theta /\ theta <= b.theta
      BY <1>1, SmallerOfThetas
    <2>3. E = Below(A \cap B, theta)
      <3>1. \A h \in Hash : h < theta => h < a.theta /\ h < b.theta
        BY <1>1, <2>2, HashBelow
      <3>2. \A h \in Hash : h < theta =>
              (h \in a.entries \cap b.entries <=> h \in A \cap B)
        BY <3>1 DEF Below, Sound
      <3> QED BY <1>1, <3>2 DEF Below
    <2>4. theta = MAX_THETA => Below(A \cap B, theta) = A \cap B
      BY <1>1, HashBelow DEF Below
    <2>5. (E = {} /\ theta = MAX_THETA) \in BOOLEAN
      OBVIOUS
    <2> QED BY <1>1, <2>1, <2>2, <2>3, <2>4, <2>5, CompactSound
  <1> QED BY <1>2, <1>3

LEMMA DifferenceSound ==
  ASSUME NEW a, NEW A, Sound(a, A), NEW b, NEW B, Sound(b, B)
  PROVE  Sound(Difference(a, b), A \ B) /\ Difference(a, b).compact
  <1> DEFINE u == Difference(a, b)
             theta == SmallerOf(a.theta, b.theta)
             E == Below(a.entries \ b.entries, theta)
  <1>1. /\ a.theta \in 1..MAX_THETA /\ b.theta \in 1..MAX_THETA
        /\ a.entries \in SUBSET Hash /\ b.entries \in SUBSET Hash
        /\ A \in SUBSET Hash /\ B \in SUBSET Hash
    BY DEF Sound, SketchType
  <1>2. CASE a.empty \/ (a.entries # {} /\ b.empty)
    <2>1. u = Compact(a.empty, a.theta, a.entries)
      BY <1>2 DEF Difference
    <2>2. A \ B = A
      BY <1>2 DEF Sound
    <2> QED BY <2>1, <2>2 DEF Sound, Compact, SketchType
  <1>3. CASE ~(a.empty \/ (a.entries # {} /\ b.empty))
    <2>1. u = Compact(E = {} /\ theta = MAX_THETA, theta, E)
      BY <1>3 DEF Difference
    <2>2. theta \in 1..MAX_THETA /\ theta <= a.theta /\ theta <= b.theta
      BY <1>1, SmallerOfThetas
    <2>3. E = Below(A \ B, theta)
      <3>1. \A h \in Hash : h < theta => h < a.theta /\ h < b.theta
        BY <1>1, <2>2, HashBelow
      <3>2. \A h \in Hash : h < theta =>
              (h \in a.entries \ b.entries <=> h \in A \ B)
        BY <3>1 DEF Below, Sound
      <3> QED BY <1>1, <3>2 DEF Below
    <2>4. theta = MAX_THETA => Below(A \ B, theta) = A \ B
      BY <1>1, HashBelow DEF Below
    <2>5. (E = {} /\ theta = MAX_THETA) \in BOOLEAN
      OBVIOUS
    <2> QED BY <1>1, <2>1, <2>2, <2>3, <2>4, <2>5, CompactSound
  <1> QED BY <1>2, <1>3

LEMMA RestoreSound ==
  ASSUME NEW a, NEW A, Sound(a, A)
  PROVE  LET u == Compact(a.empty, a.theta, a.entries) IN Sound(u, A) /\ u.compact
  BY DEF Sound, Compact, SketchType

LEMMA HintLegal == \A n : HintsFromRetained(n) \subseteq Widths
  BY WidthAssumption DEF HintsFromRetained

LEMMA DefaultLegal ==
  ASSUME hint \in [Sketch -> Widths], NEW a \in Sketch, NEW b \in Sketch
  PROVE  DefaultWidth(a, b) \in Widths
  BY DEF DefaultWidth, LargerOf

----------------------------------------------------------------------------
(* The invariant is inductive *)

LEMMA InitIInv == Init => IInv
  <1> SUFFICES ASSUME Init PROVE IInv
    OBVIOUS
  <1>1. PICK w \in [Sketch -> Widths] :
          /\ sk = [s \in Sketch |-> NewUpdate(w[s])]
          /\ hint = w
          /\ truth = [s \in Sketch |-> {}]
    BY DEF Init
  <1>2. \A s \in Sketch : Sound(sk[s], truth[s]) /\ Roomy(sk[s], hint[s])
    BY <1>1, NewSound
  <1>3. \A s \in Sketch : sk[s] \in SketchType
    BY <1>2 DEF Sound
  <1> QED BY <1>1, <1>2, <1>3 DEF IInv

\* An operation that leaves one object with a sound sketch keeps the invariant.
LEMMA OneObject ==
  ASSUME IInv, NEW s \in Sketch, NEW c, NEW w \in Widths, NEW T,
         Sound(c, T), Roomy(c, w),
         sk' = [sk EXCEPT ![s] = c],
         hint' = [hint EXCEPT ![s] = w],
         truth' = [truth EXCEPT ![s] = T]
  PROVE  IInv'
  <1>1. c \in SketchType /\ T \in SUBSET Hash
    BY DEF Sound
  <1>2. /\ sk' \in [Sketch -> SketchType] /\ hint' \in [Sketch -> Widths]
        /\ truth' \in [Sketch -> SUBSET Hash]
    BY <1>1 DEF IInv
  <1>3. ASSUME NEW r \in Sketch
        PROVE  Sound(sk'[r], truth'[r]) /\ Roomy(sk'[r], hint'[r])
    <2>1. CASE r = s
      BY <2>1 DEF IInv
    <2>2. CASE r # s
      BY <2>2 DEF IInv
    <2> QED BY <2>1, <2>2
  <1> QED BY <1>2, <1>3 DEF IInv

LEMMA ResultIInv ==
  ASSUME IInv, NEW r \in Sketch, NEW u, NEW w \in Widths, NEW T,
         Sound(u, T), u.compact, Result(r, u, w, T)
  PROVE  IInv'
  BY OneObject DEF Result, Roomy

LEMMA NextIInv == IInv /\ [Next]_vars => IInv'
  <1> SUFFICES ASSUME IInv, [Next]_vars PROVE IInv'
    OBVIOUS
  <1>1. ASSUME NEW s \in Sketch, NEW w \in Widths, Create(s, w) PROVE IInv'
    BY <1>1, NewSound, OneObject DEF Create
  <1>2. ASSUME NEW s \in Sketch, NEW h \in Hash, Update(s, h) PROVE IInv'
    <2>1. PICK c \in Updates(sk[s], h) : sk' = [sk EXCEPT ![s] = c]
      BY <1>2 DEF Update
    <2>2. hint[s] \in Widths /\ ~sk[s].compact
      BY <1>2 DEF IInv, Update
    <2>3. Sound(c, truth[s] \cup {h}) /\ Roomy(c, hint[s])
      BY <2>2, UpdateSound DEF IInv
    <2>4. /\ hint' = [hint EXCEPT ![s] = hint[s]]
          /\ truth' = [truth EXCEPT ![s] = truth[s] \cup {h}]
      BY <1>2 DEF Update, IInv
    <2> QED BY <2>1, <2>2, <2>3, <2>4, OneObject
  <1>3. ASSUME NEW s \in Sketch, NEW o \in Sketch,
               NEW w \in Widths \cup {DefaultWidth(s, o)}, Merge(s, o, w)
        PROVE  IInv'
    <2>1. w \in Widths
      BY DefaultLegal DEF IInv
    <2>2. PICK u \in Unions(sk[s], sk[o], w) : sk' = [sk EXCEPT ![s] = u]
      BY <1>3 DEF Merge
    <2>3. Sound(u, truth[s] \cup truth[o]) /\ u.compact
      BY <2>1, UnionSound DEF IInv
    <2> QED BY <1>3, <2>1, <2>2, <2>3, ResultIInv DEF Merge, Result
  <1>4. ASSUME NEW s \in Sketch, NEW o \in Sketch, Restore(s, o) PROVE IInv'
    <2>1. PICK w \in HintsFromRetained(Cardinality(sk[o].entries)) :
            Result(s, Compact(sk[o].empty, sk[o].theta, sk[o].entries), w, truth[o])
      BY <1>4 DEF Restore
    <2>2. w \in Widths
      BY HintLegal
    <2>3. Sound(sk[o], truth[o])
      BY DEF IInv
    <2> DEFINE u == Compact(sk[o].empty, sk[o].theta, sk[o].entries)
    <2>4. Sound(u, truth[o]) /\ u.compact
      BY <2>3, RestoreSound
    <2>5. Result(s, u, w, truth[o])
      BY <2>1
    <2> HIDE DEF u
    <2> QED BY <2>2, <2>4, <2>5, ResultIInv
  <1>5. ASSUME NEW r \in Sketch, NEW a \in Sketch, NEW b \in Sketch,
               NEW w \in Widths \cup {DefaultWidth(a, b)}, ThetaUnion(r, a, b, w)
        PROVE  IInv'
    <2>1. w \in Widths
      BY DefaultLegal DEF IInv
    <2>2. PICK u \in Unions(sk[a], sk[b], w) : Result(r, u, w, truth[a] \cup truth[b])
      BY <1>5 DEF ThetaUnion, Result
    <2>3. Sound(u, truth[a] \cup truth[b]) /\ u.compact
      BY <2>1, UnionSound DEF IInv
    <2> QED BY <2>1, <2>2, <2>3, ResultIInv
  <1>6. ASSUME NEW r \in Sketch, NEW a \in Sketch, NEW b \in Sketch,
               ThetaIntersection(r, a, b) \/ ThetaDifference(r, a, b)
        PROVE  IInv'
    <2>1. DefaultWidth(a, b) \in Widths
      BY DefaultLegal DEF IInv
    <2>2. CASE ThetaIntersection(r, a, b)
      BY <2>1, <2>2, IntersectionSound, ResultIInv DEF ThetaIntersection, IInv
    <2>3. CASE ThetaDifference(r, a, b)
      BY <2>1, <2>3, DifferenceSound, ResultIInv DEF ThetaDifference, IInv
    <2> QED BY <1>6, <2>2, <2>3
  <1>7. CASE UNCHANGED vars
    BY <1>7 DEF vars, IInv
  <1> QED BY <1>1, <1>2, <1>3, <1>4, <1>5, <1>6, <1>7 DEF Next

----------------------------------------------------------------------------
(* The theorems *)

\* IInv holds in every reachable state.
THEOREM Invariance == Spec => []IInv
  BY InitIInv, NextIInv, PTL DEF Spec

\* Sketches stay well formed and every hint is a legal nominal size.
THEOREM TypeCorrect == Spec => []TypeOK
  <1>1. IInv => TypeOK
    BY DEF IInv, TypeOK
  <1> QED BY <1>1, Invariance, PTL

\* Every sketch is exactly the sample of its set below its theta.
THEOREM SamplesExact == Spec => []SampleExact
  <1>1. IInv => SampleExact
    BY DEF IInv, SampleExact, Sound
  <1> QED BY <1>1, Invariance, PTL

\* is_empty() answers for the set the sketch stands for.
THEOREM EmptyFlagsSound == Spec => []EmptyFlagSound
  <1>1. IInv => EmptyFlagSound
    BY DEF IInv, EmptyFlagSound, Sound
  <1> QED BY <1>1, Invariance, PTL

\* An update sketch in estimation mode retains at least its width, fewer than
\* twice its width, and its width can be told from the count.
THEOREM WidthsKept == Spec => []UpdateSketchKeepsWidth
  <1>1. ASSUME IInv, NEW s \in Sketch, ~sk[s].compact
        PROVE  LET n == Cardinality(sk[s].entries) IN
               /\ n <= RebuildCapacity(sk[s].width)
               /\ sk[s].theta < MAX_THETA =>
                    /\ n >= sk[s].width
                    /\ sk[s].width >= DEFAULT_WIDTH => HintsFromRetained(n) = {sk[s].width}
    <2> DEFINE n == Cardinality(sk[s].entries)
               w == sk[s].width
    <2>1. sk[s].entries \in SUBSET Hash /\ w = hint[s] /\ w \in Widths
      BY <1>1 DEF IInv, SketchType, Roomy
    <2>2. n \in Nat
      BY <2>1, SampleFinite
    <2>3. n <= RebuildCapacity(w) /\ (sk[s].theta < MAX_THETA => n >= w)
      BY <1>1, <2>1 DEF IInv, Roomy
    <2>4. ASSUME n >= w, w >= DEFAULT_WIDTH PROVE HintsFromRetained(n) = {w}
      <3> DEFINE known == {DEFAULT_WIDTH} \cup {v \in Widths : v <= n}
      <3>1. n < 2 * w
        <4>1. /\ RebuildCapacity(w) \in Nat /\ RebuildCapacity(w) < 2 * w
              /\ w \in Nat
          BY <2>1, CapacityBetween, WidthAssumption
        <4> QED BY <2>2, <2>3, <4>1
      <3>2. w \in known /\ known \subseteq Widths
        BY <2>1, <2>4, WidthAssumption
      <3>3. ASSUME NEW v \in known PROVE v <= w
        <4>1. v \in Nat /\ v \in Widths /\ w \in Nat
          BY <2>1, <3>2, WidthAssumption
        <4>2. w < v => 2 * w <= v
          BY <2>1, <4>1, WidthAssumption
        <4>3. v = DEFAULT_WIDTH \/ v <= n
          OBVIOUS
        <4> QED BY <2>2, <2>4, <3>1, <4>1, <4>2, <4>3
      <3>4. \A v \in known : (\A x \in known : x <= v) => v = w
        <4>1. \A v \in known : v \in Nat
          BY <3>2, WidthAssumption
        <4> QED BY <3>2, <3>3, <4>1
      <3> QED BY <3>2, <3>3, <3>4 DEF HintsFromRetained
    <2> QED BY <2>3, <2>4
  <1>2. IInv => UpdateSketchKeepsWidth
    BY <1>1 DEF UpdateSketchKeepsWidth
  <1> QED BY <1>2, Invariance, PTL

\* The union Jaccard builds is wide enough to compare counts instead of entries.
THEOREM JaccardSound == Spec => []JaccardOneMeansEqual
  <1>1. ASSUME IInv, NEW p \in Sketch, NEW q \in Sketch,
               JaccardIdentical(sk[p], sk[q]),
               Cardinality(sk[p].entries) + Cardinality(sk[q].entries) <= MAX_WIDTH
        PROVE  sk[p].entries = sk[q].entries /\ sk[p].theta = sk[q].theta
    <2> DEFINE a == sk[p]
               b == sk[q]
               n == Cardinality(a.entries) + Cardinality(b.entries)
               theta == SmallerOf(a.theta, b.theta)
               both == a.entries \cup b.entries
               E == Below(both, theta)
    <2>1. Sound(a, truth[p]) /\ Sound(b, truth[q])
      BY <1>1 DEF IInv
    <2>2. /\ a.entries \in SUBSET Hash /\ b.entries \in SUBSET Hash
          /\ a.theta \in 1..MAX_THETA /\ b.theta \in 1..MAX_THETA
          /\ a.entries = Below(truth[p], a.theta) /\ b.entries = Below(truth[q], b.theta)
      BY <2>1 DEF Sound, SketchType
    <2>3. CASE a.empty /\ b.empty
      BY <2>1, <2>3 DEF Sound, Below
    <2>4. CASE ~(a.empty /\ b.empty)
      <3>1. PICK w \in JaccardWidths(a, b) : \E u \in Unions(a, b, w) : SameAs(u, a, b)
        BY <1>1, <2>4 DEF JaccardIdentical
      <3>2. PICK u \in Unions(a, b, w) : SameAs(u, a, b)
        BY <3>1
      <3>3. w \in Widths /\ n <= w
        BY <1>1 DEF JaccardWidths
      <3>4. PICK r \in Trims(E, theta, w) : u = Compact(FALSE, r.theta, r.entries)
        BY <2>4 DEF Unions
      <3>5. /\ IsFiniteSet(a.entries) /\ Cardinality(a.entries) \in Nat
            /\ IsFiniteSet(b.entries) /\ Cardinality(b.entries) \in Nat
            /\ IsFiniteSet(both) /\ Cardinality(both) \in Nat
            /\ E \in SUBSET both /\ Cardinality(E) \in Nat
            /\ Cardinality(a.entries \cap b.entries) \in Nat
        BY <2>2, SampleFinite DEF Below
      <3>6. Cardinality(both) <= n
        <4>1. Cardinality(both) = Cardinality(a.entries) + Cardinality(b.entries)
                                    - Cardinality(a.entries \cap b.entries)
          BY <3>5, FS_Union
        <4> QED BY <3>5, <4>1
      <3>7. Cardinality(E) <= Cardinality(both)
        BY <3>5, FS_Subset
      <3>8. Cardinality(E) <= w
        BY <3>3, <3>5, <3>6, <3>7, WidthAssumption
      <3>9. r.theta = theta /\ r.entries = E
        BY <3>4, <3>8 DEF Trims
      <3>10. /\ a.theta = theta /\ b.theta = theta
             /\ Cardinality(E) = Cardinality(a.entries)
             /\ Cardinality(E) = Cardinality(b.entries)
        BY <3>2, <3>4, <3>9 DEF SameAs, Compact
      <3>11. E = both
        BY <2>2, <3>10 DEF Below
      <3>12. a.entries = both /\ b.entries = both
        <4>1. a.entries \in SUBSET both /\ b.entries \in SUBSET both
          OBVIOUS
        <4> QED BY <3>5, <3>10, <3>11, <4>1, FS_Subset
      <3> QED BY <3>10, <3>12
    <2> QED BY <2>3, <2>4
  <1>2. IInv => JaccardOneMeansEqual
    BY <1>1 DEF JaccardOneMeansEqual
  <1> QED BY <1>2, Invariance, PTL

\* A default merge of update sketches keeps the width of the wider one.
THEOREM MergesKeepWidth == Spec => MergeKeepsWidth
  <1> DEFINE All(s, o) == Below(sk[s].entries \cup sk[o].entries,
                                SmallerOf(sk[s].theta, sk[o].theta))
             Kept == \A s, o \in Sketch :
                       /\ ~sk[s].compact /\ ~sk[o].compact
                       /\ Merge(s, o, DefaultWidth(s, o))
                       => LET all == All(s, o)
                          IN Cardinality(sk'[s].entries) >=
                               SmallerOf(Cardinality(all),
                                         LargerOf(sk[s].width, sk[o].width))
  <1>1. ASSUME IInv, NEW s \in Sketch, NEW o \in Sketch,
               ~sk[s].compact, ~sk[o].compact, Merge(s, o, DefaultWidth(s, o))
        PROVE  Cardinality(sk'[s].entries) >=
                 SmallerOf(Cardinality(All(s, o)), LargerOf(sk[s].width, sk[o].width))
    <2> DEFINE w == LargerOf(sk[s].width, sk[o].width)
               theta == SmallerOf(sk[s].theta, sk[o].theta)
    <2>1. sk[s].width = hint[s] /\ sk[o].width = hint[o]
      BY <1>1 DEF IInv, Roomy
    <2>2. w = DefaultWidth(s, o) /\ w \in Widths
      BY <1>1, <2>1, DefaultLegal DEF IInv, DefaultWidth
    <2>3. PICK u \in Unions(sk[s], sk[o], w) : sk'[s] = u
      BY <1>1, <2>2 DEF Merge, IInv
    <2>4. /\ sk[s].entries \in SUBSET Hash /\ sk[o].entries \in SUBSET Hash
          /\ sk[s].theta \in 1..MAX_THETA /\ sk[o].theta \in 1..MAX_THETA
      BY <1>1 DEF IInv, SketchType
    <2>5. All(s, o) \in SUBSET Hash /\ Cardinality(All(s, o)) \in Nat
      BY <2>4, SampleFinite DEF Below
    <2>6. w \in Nat
      BY <2>2, WidthAssumption
    <2>7. CASE sk[s].empty /\ sk[o].empty
      <3>1. u.entries = {}
        BY <2>7 DEF Unions, Compact
      <3>2. All(s, o) = {}
        BY <1>1, <2>7 DEF IInv, Sound, Below
      <3>3. Cardinality({}) = 0
        BY FS_EmptySet
      <3> QED BY <2>3, <2>6, <3>1, <3>2, <3>3 DEF SmallerOf
    <2>8. CASE ~(sk[s].empty /\ sk[o].empty)
      <3>1. PICK r \in Trims(All(s, o), theta, w) : u = Compact(FALSE, r.theta, r.entries)
        BY <2>8 DEF Unions
      <3>2. theta \in 1..MAX_THETA /\ \A h \in All(s, o) : h < theta
        BY <2>4, SmallerOfThetas DEF Below
      <3>3. IF Cardinality(All(s, o)) <= w THEN r.entries = All(s, o)
            ELSE Cardinality(r.entries) = w
        <4> HIDE DEF All, theta
        <4> QED BY <2>2, <2>5, <3>1, <3>2, TrimmedSample
      <3>4. u.entries = r.entries
        BY <3>1 DEF Compact
      <3> QED BY <2>3, <2>5, <2>6, <3>3, <3>4 DEF SmallerOf
    <2> QED BY <2>7, <2>8
  <1>2. IInv /\ [Next]_vars => [Kept]_vars
    BY <1>1
  <1> QED BY <1>2, Invariance, PTL DEF Spec, MergeKeepsWidth
============================================================================
