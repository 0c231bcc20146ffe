--------------------------------- MODULE KLL ---------------------------------
(***************************************************************************)
(* The KLL quantiles sketch: a stack of levels in which an item of height  *)
(* h stands for 2^h items of the stream.  When the buffer is full one      *)
(* level is halved into the next, keeping every other item; a merge adds   *)
(* the levels up and halves every level that is too full in one sweep.     *)
(* Each coin toss of the code is a choice, so operations return the set of *)
(* their outcomes.  Height h of the code is levels[h + 1].                 *)
(***************************************************************************)
EXTENDS Integers, Sequences, FiniteSetsExt, TLC

CONSTANTS
  Sketch,   \* R objects
  Item,     \* the values of the stream
  K,        \* configured widths
  M,        \* DEFAULT_M, the least capacity of a level
  NoView, NoItem,
  MAX_HELD,  \* bound: items all sketches together hold for a further update
  MAX_N      \* bound: items of a merged sketch

ASSUME KLLAssumption ==
  /\ Item \subseteq Int /\ IsFiniteSet(Item)
  /\ K \subseteq Nat \ {0} /\ M \in Nat \ {0, 1} /\ {MAX_HELD, MAX_N} \subseteq Nat
  /\ \A k \in K : k >= M

VARIABLE sk   \* the sketches; `seen`, `slack` and `ks` are histories

vars == <<sk>>

----------------------------------------------------------------------------
(* Capacities *)

Power(base, e) == LET p[i \in 0..e] == IF i = 0 THEN 1 ELSE base * p[i - 1] IN p[e]

\* round(k (2/3)^depth)
IntCapAux(k, depth) == (((2 * k * Power(2, depth)) \div Power(3, depth)) + 1) \div 2

IntCap(k, depth) ==
  LET half == depth \div 2
  IN IF depth <= 30 THEN IntCapAux(k, depth) ELSE IntCapAux(IntCapAux(k, half), depth - half)

LevelCapacity(k, num, height) == Max({M, IntCap(k, num - height - 1)})

TotalCapacity(k, num) == SumFunction([h \in 0..(num - 1) |-> LevelCapacity(k, num, h)])

\* floor(log2(n)) + 1
UbOnNumLevels(n) == IF n = 0 THEN 1 ELSE 1 + Max({d \in 0..n : Power(2, d) <= n})

Heights(levels) == 0..(Len(levels) - 1)
Level(levels, h) == IF h < Len(levels) THEN levels[h + 1] ELSE <<>>

Retained(levels) == SumFunction([h \in Heights(levels) |-> Len(Level(levels, h))])

TotalWeight(levels) ==
  SumFunction([h \in Heights(levels) |-> Power(2, h) * Len(Level(levels, h))])

Free(s) == s.capacity - Retained(s.levels)

----------------------------------------------------------------------------
(* Halving a level *)

Sorted(seq) == \A i \in 1..(Len(seq) - 1) : seq[i] <= seq[i + 1]

Occurrences(seq, x) == Cardinality({i \in DOMAIN seq : seq[i] = x})

\* std::sort
Sort(seq) ==
  CHOOSE t \in [1..Len(seq) -> Item] :
    Sorted(t) /\ \A x \in Item : Occurrences(t, x) = Occurrences(seq, x)

\* Of the two heads of a and b, with i and j items taken, a's is next.
FromFirst(a, b, i, j) == j = Len(b) \/ (i < Len(a) /\ a[i + 1] < b[j + 1])

\* How many of the first c items of the merge are a's.
TakenFromFirst(a, b) ==
  LET taken[c \in 0..(Len(a) + Len(b))] ==
        IF c = 0 THEN 0
        ELSE LET i == taken[c - 1] IN IF FromFirst(a, b, i, c - 1 - i) THEN i + 1 ELSE i
  IN taken

\* The keep-smaller-head merge; right only for sorted arguments.
MergeSorted(a, b) ==
  LET taken == TakenFromFirst(a, b) IN
  [c \in 1..(Len(a) + Len(b)) |->
     IF taken[c] > taken[c - 1] THEN a[taken[c]] ELSE b[c - taken[c]]]

\* Every other item, from a random first one.
Halves(seq) ==
  {[i \in 1..(Len(seq) \div 2) |-> seq[2 * i - offset]] : offset \in {0, 1}}

\* Height h of `levels` halved into h + 1; an odd first item stays behind.
HalvedUp(levels, h, sorted) ==
  LET pop == Level(levels, h)
      left == SubSeq(pop, 1, Len(pop) % 2)
      body == SubSeq(pop, Len(left) + 1, Len(pop))
      ordered == IF h = 0 /\ ~sorted THEN Sort(body) ELSE body
  IN {[levels EXCEPT ![h + 1] = left, ![h + 2] = MergeSorted(half, @)] : half \in Halves(ordered)}

----------------------------------------------------------------------------
(* Updates *)

Fresh(k) ==
  [k |-> k, minK |-> k, n |-> 0, levels |-> << <<>> >>, sorted |-> FALSE,
   capacity |-> TotalCapacity(k, 1), min |-> NoItem, max |-> NoItem, view |-> NoView,
   seen |-> [x \in Item |-> 0], slack |-> 0, ks |-> {}]

Init == sk \in [Sketch -> {Fresh(k) : k \in K}]

FullLevels(s) ==
  {h \in Heights(s.levels) : Len(Level(s.levels, h)) >= LevelCapacity(s.k, Len(s.levels), h)}

WithTopLevel_OldDepth(s) ==
  [s EXCEPT !.levels = Append(@, <<>>),
            !.capacity = @ + LevelCapacity(s.k, Len(s.levels), 0)]

WithTopLevel(s) ==
  [s EXCEPT !.levels = Append(@, <<>>),
            !.capacity = @ + LevelCapacity(s.k, Len(s.levels) + 1, 0)]

\* compress_while_updating()
Compressed(s) ==
  LET h == Min(FullLevels(s))
      t == IF h = Len(s.levels) - 1 THEN WithTopLevel(s) ELSE s
  IN {[t EXCEPT !.levels = levels, !.slack = @ + Power(2, h), !.ks = @ \cup {s.k}] :
        levels \in HalvedUp(t.levels, h, s.sorted)}

\* internal_update()
Inserted(s, x) ==
  {[t EXCEPT !.levels[1] = <<x>> \o @, !.n = @ + 1, !.sorted = FALSE] :
     t \in IF Free(s) = 0 THEN Compressed(s) ELSE {s}}

MinMax_OnlyWiden(s, low, high) ==
  IF s.n = 0 THEN s
  ELSE [s EXCEPT !.min = IF low < @ THEN low ELSE @, !.max = IF @ < high THEN high ELSE @]

MinMax(s, low, high) ==
  [s EXCEPT !.min = IF s.n = 0 \/ low < @ THEN low ELSE @,
            !.max = IF s.n = 0 \/ @ < high THEN high ELSE @]

TotalN == SumFunction([o \in Sketch |-> sk[o].n])

NoCachedView_Kept(s) == s

\* reset_sorted_view()
NoCachedView(s) == [s EXCEPT !.view = NoView]

Create(o, k) == sk' = [sk EXCEPT ![o] = Fresh(k)]

Update(o, x) ==
  LET s == [MinMax(sk[o], x, x) EXCEPT !.seen[x] = @ + 1]
  IN /\ TotalN < MAX_HELD
     /\ \E t \in Inserted(s, x) : sk' = [sk EXCEPT ![o] = NoCachedView(t)]

----------------------------------------------------------------------------
(* Merges *)

\* One turn of general_compress().  `target` is the capacity of the levels so far.
CompressedAt(w, k, sorted, h) ==
  LET num == Len(w.levels)
      fits == \/ Retained(w.levels) < w.target
              \/ Len(Level(w.levels, h)) < LevelCapacity(k, num, h)
      top == h = num - 1
      room == IF top THEN Append(w.levels, <<>>) ELSE w.levels
      target == IF top THEN w.target + LevelCapacity(k, num + 1, 0) ELSE w.target
  IN IF h >= num \/ fits THEN {w}
     ELSE {[levels |-> levels, target |-> target, slack |-> w.slack + Power(2, h), ks |-> {k}] :
             levels \in HalvedUp(room, h, sorted)}

GeneralCompressed(k, levels, sorted, n) ==
  LET start == [levels |-> levels, target |-> TotalCapacity(k, Len(levels)), slack |-> 0,
                ks |-> {}]
      turns == UbOnNumLevels(n) + 1
      sweep[h \in 0..turns] ==
        IF h = 0 THEN {start} ELSE UNION {CompressedAt(w, k, sorted, h - 1) : w \in sweep[h - 1]}
  IN sweep[turns]

\* populate_work_arrays(): level zero of the other sketch is already in s.
WorkLevels(s, t) ==
  [i \in 1..Max({Len(s.levels), Len(t.levels)}) |->
     IF i = 1 THEN s.levels[1]
     ELSE MergeSorted(Level(s.levels, i - 1), Level(t.levels, i - 1))]

\* merge_higher_levels()
HigherMerged(s, t, n) ==
  {[s EXCEPT !.levels = w.levels, !.capacity = w.target,
             !.slack = @ + w.slack, !.ks = @ \cup w.ks] :
     w \in GeneralCompressed(s.k, WorkLevels(s, t), s.sorted, n)}

\* min_k_, for the rank error
EffectiveK(s, t) == IF Len(t.levels) > 1 THEN Min({s.minK, t.minK}) ELSE s.minK

\* s with the items of level zero of another sketch.
WithItems(s, items) ==
  LET fed[i \in 0..Len(items)] ==
        IF i = 0 THEN {s} ELSE UNION {Inserted(u, items[i]) : u \in fed[i - 1]}
  IN fed[Len(items)]

Merged(s, t) ==
  LET n == s.n + t.n
      base == WithItems(MinMax(s, t.min, t.max), t.levels[1])
      all == IF Len(t.levels) >= 2 THEN UNION {HigherMerged(u, t, n) : u \in base} ELSE base
  IN {NoCachedView([u EXCEPT !.n = n, !.minK = EffectiveK(s, t),
                             !.seen = [x \in Item |-> s.seen[x] + t.seen[x]],
                             !.slack = @ + t.slack, !.ks = @ \cup t.ks]) : u \in all}

\* o$merge(p); the R method refuses a self-merge, an empty p changes nothing.
Merge(o, p) ==
  /\ o # p /\ sk[p].n > 0
  /\ sk[o].n + sk[p].n <= MAX_N
  /\ \E t \in Merged(sk[o], sk[p]) : sk' = [sk EXCEPT ![o] = t]

----------------------------------------------------------------------------
(* Queries *)

ViewOf(levels) ==
  [x \in Item |->
     SumFunction([h \in Heights(levels) |-> Power(2, h) * Occurrences(Level(levels, h), x)])]

\* setup_sorted_view(): a query sorts level zero in place and keeps the view.
Queried(s) ==
  [s EXCEPT !.levels[1] = IF s.sorted THEN @ ELSE Sort(@),
            !.sorted = TRUE,
            !.view = ViewOf(s.levels)]

Query(o) ==
  /\ sk[o].n > 0 /\ sk[o].view = NoView
  /\ sk' = [sk EXCEPT ![o] = Queried(sk[o])]

UpTo(x, inclusive) == {y \in Item : y < x \/ (inclusive /\ y = x)}

\* The weight at or below x, and below x: get_rank() times n.
Below(view, x, inclusive) == SumFunctionOnSet(view, UpTo(x, inclusive))

\* get_quantile(weight / n)
Quantile(view, weight, inclusive) ==
  LET held == {x \in Item : view[x] > 0}
      enough == {x \in held : \/ Below(view, x, TRUE) > weight
                              \/ inclusive /\ Below(view, x, TRUE) = weight}
  IN IF enough = {} THEN Max(held) ELSE Min(enough)

----------------------------------------------------------------------------
(* Serialization *)

Payload(s) ==
  CASE s.n = 0 -> [k |-> s.k, n |-> 0]
    [] s.n = 1 -> [k |-> s.k, n |-> 1, sorted |-> s.sorted, items |-> s.levels[1]]
    [] OTHER   -> [k |-> s.k, n |-> s.n, minK |-> s.minK, sorted |-> s.sorted,
                   levels |-> s.levels, min |-> s.min, max |-> s.max]

\* The capacity is not in the payload: it is derived from k and the levels.
Deserialized(b) ==
  CASE b.n = 0 -> Fresh(b.k)
    [] b.n = 1 -> [Fresh(b.k) EXCEPT !.n = 1, !.levels = <<b.items>>, !.sorted = b.sorted,
                                     !.min = b.items[1], !.max = b.items[1]]
    [] OTHER   -> [Fresh(b.k) EXCEPT !.n = b.n, !.minK = b.minK, !.levels = b.levels,
                                     !.sorted = b.sorted, !.min = b.min, !.max = b.max,
                                     !.capacity = TotalCapacity(b.k, Len(b.levels))]

Restored(s) ==
  [Deserialized(Payload(s)) EXCEPT !.seen = s.seen, !.slack = s.slack, !.ks = s.ks]

\* o <- kll_doubles(bytes = o$serialize())
Restore(o) == sk' = [sk EXCEPT ![o] = Restored(@)]

Next ==
  \/ \E o \in Sketch : \/ \E k \in K : Create(o, k)
                       \/ \E x \in Item : Update(o, x)
                       \/ Query(o)
                       \/ Restore(o)
  \/ \E o, p \in Sketch : Merge(o, p)

Spec == Init /\ [][Next]_vars

----------------------------------------------------------------------------
(* Properties *)

TypeOK ==
  \A o \in Sketch : LET s == sk[o] IN
    /\ s.k \in K /\ s.minK \in K /\ s.n \in Nat /\ s.capacity \in Nat
    /\ s.levels \in Seq(Seq(Item)) /\ s.sorted \in BOOLEAN
    /\ IF s.n = 0 THEN s.min = NoItem /\ s.max = NoItem ELSE {s.min, s.max} \subseteq Item
    /\ s.view = NoView \/ s.view \in [Item -> Nat]

WeightsAddUp(s) ==
  TotalWeight(s.levels) = s.n /\ s.n = SumFunction(s.seen)

LevelsSorted(s) ==
  /\ \A h \in Heights(s.levels) \ {0} : Sorted(Level(s.levels, h))
  /\ s.sorted => Sorted(s.levels[1])

FitsCapacity(s) ==
  /\ s.capacity = TotalCapacity(s.k, Len(s.levels))
  /\ Free(s) >= 0
  /\ Free(s) = 0 => FullLevels(s) # {}
  /\ Len(s.levels) <= UbOnNumLevels(s.n)

\* None of the std::logic_errors about the state of a sketch is ever due: the
\* weights of the retained items add up to n, the levels above zero are sorted,
\* the items fit a buffer whose size is that of the levels, which n bounds, and
\* once it is full there is a level to compact.
NoLogicError ==
  \A o \in Sketch : WeightsAddUp(sk[o]) /\ LevelsSorted(sk[o]) /\ FitsCapacity(sk[o])

TrueBelow(s, x, inclusive) == SumFunctionOnSet(s.seen, UpTo(x, inclusive))

\* The minimum and maximum are exact.  Ranks and quantiles, read from the cached
\* view, are off by at most the weight of one item of each level halved so far;
\* before the first halving they are exact.
AnswersBracketTruth ==
  \A o \in Sketch : LET s == sk[o] IN
    /\ s.n > 0 => LET held == {x \in Item : s.seen[x] > 0}
                  IN s.min = Min(held) /\ s.max = Max(held)
    /\ s.view # NoView => \A inclusive \in BOOLEAN :
         /\ \A x \in Item : Below(s.view, x, inclusive) - TrueBelow(s, x, inclusive)
                               \in -s.slack..s.slack
         /\ \A w \in 0..s.n : LET q == Quantile(s.view, w, inclusive) IN
              /\ TrueBelow(s, q, FALSE) <= w + s.slack
              /\ TrueBelow(s, q, TRUE) >= w - s.slack

\* The width the rank error is computed from is no larger than any width by
\* which an absorbed item has been halved away.
EffectiveKSound == \A o \in Sketch : \A k \in sk[o].ks : sk[o].minK <= k

\* A sketch read back from its bytes is the sketch, up to the cached view.
RestoreFaithful == \A o \in Sketch : Restored(sk[o]) = [sk[o] EXCEPT !.view = NoView]
=============================================================================
