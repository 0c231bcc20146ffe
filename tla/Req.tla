--------------------------------- MODULE Req ---------------------------------
(***************************************************************************)
(* The REQ quantiles sketch (datasketches/req) behind R's req objects: a   *)
(* stack of compactors, where an item of compactor h stands for 2^h items  *)
(* of the stream.  A full compactor promotes every other item of its       *)
(* sections at one end of the rank range, and the number of compactions it *)
(* has done (state) says how many sections.  Ranks at the other end stay   *)
(* exact, and the error bounds rely on it.                                 *)
(*                                                                         *)
(* A compactor is sorted before anything reads it, so its items are a      *)
(* sorted sequence.  Operations that toss coins return the set of their    *)
(* outcomes.  Compactor h of the code is levels[h + 1].                    *)
(***************************************************************************)
EXTENDS Integers, Sequences, SequencesExt

CONSTANTS
  ReqSketch,   \* native sketches, one behind each R object
  ReqValue,    \* values of the stream, numbers
  Width,       \* values of k that R lets through
  BYTE,        \* 2^8: the constructor takes k through a uint8_t
  MIN_K, INIT_NUM_SECTIONS,
  Unseen,      \* no sorted view; no least or greatest item
  MaxHeld,     \* bound: items of all sketches that take a further update
  MaxItems     \* bound: items of a merged sketch

VARIABLES
  req,       \* [k, hra, n, levels, nom, retained, min, max, view] of each;
             \* nom and retained are max_nom_size_ and num_retained_
  streamed,  \* history: how often each value was absorbed
  widths     \* history: the k_ of the compactions that went into a sketch

reqVars == <<req, streamed, widths>>

----------------------------------------------------------------------------
(* Compactors: [items, state, sections, halvings, coin].  section_size_raw_ *)
(* is k / sqrt(2)^halvings.                                                 *)

\* std::max<uint8_t>(k & -2, MIN_K)
ActualK(k) == LET b == (k - (k % 2)) % BYTE IN IF b < MIN_K THEN MIN_K ELSE b

\* nearest_even(k / sqrt(2)^halvings)
NearestEven(k, halvings) ==
  Max({e \in 0 .. k + 1 : e % 2 = 0 /\ (e = 0 \/ (e - 1)^2 * 2^halvings <= k^2)})

SectionSize(k, l) == NearestEven(k, l.halvings)
NomCapacity(k, l) == 2 * l.sections * SectionSize(k, l)

NewCompactor ==
  [items |-> <<>>, state |-> 0, sections |-> INIT_NUM_SECTIONS,
   halvings |-> 0, coin |-> FALSE]

SumOver(levels, Of(_)) == FoldLeft(LAMBDA n, l : n + Of(l), 0, levels)
MaxNomSize(k, levels) == SumOver(levels, LAMBDA l : NomCapacity(k, l))
NumRetained(levels) == SumOver(levels, LAMBDA l : Len(l.items))

MergeSorted(a, b) == SortSeq(a \o b, <)

ensure_enough_sections(k, l) ==
  IF /\ l.state >= 2^(l.sections - 1)
     /\ NearestEven(k, l.halvings + 1) >= MIN_K
  THEN [l EXCEPT !.sections = 2 * @, !.halvings = @ + 1]
  ELSE l

RECURSIVE EnoughSections(_, _)
EnoughSections(k, l) ==
  LET m == ensure_enough_sections(k, l) IN
  IF m = l THEN l ELSE EnoughSections(k, m)

\* count_trailing_zeros_in_u64(~state)
RECURSIVE TrailingOnes(_)
TrailingOnes(state) ==
  IF state % 2 = 0 THEN 0 ELSE 1 + TrailingOnes(state \div 2)

NonCompact_AnyParity(k, l) ==
  LET due == TrailingOnes(l.state) + 1
      secs == IF due < l.sections THEN due ELSE l.sections
  IN NomCapacity(k, l) \div 2 + (l.sections - secs) * SectionSize(k, l)

NonCompact_Unprotected(k, l) ==
  LET due == TrailingOnes(l.state) + 1
      secs == IF due < l.sections THEN due ELSE l.sections
      stay == (l.sections - secs) * SectionSize(k, l)
  IN stay + ((Len(l.items) - stay) % 2)

\* compute_compaction_range: how many items stay; the others are even in number
NonCompact(k, l) ==
  LET due == TrailingOnes(l.state) + 1
      secs == IF due < l.sections THEN due ELSE l.sections
      stay == NomCapacity(k, l) \div 2 + (l.sections - secs) * SectionSize(k, l)
  IN stay + ((Len(l.items) - stay) % 2)

CompactedPart(k, hra, l) ==
  LET stay == NonCompact(k, l) IN
  IF hra THEN SubSeq(l.items, 1, Len(l.items) - stay)
  ELSE SubSeq(l.items, stay + 1, Len(l.items))

StayingPart(k, hra, l) ==
  LET stay == NonCompact(k, l) IN
  IF hra THEN SubSeq(l.items, Len(l.items) - stay + 1, Len(l.items))
  ELSE SubSeq(l.items, 1, stay)

EvensOrOdds(items, odds) ==
  [i \in 1 .. Len(items) \div 2 |-> items[IF odds THEN 2 * i ELSE 2 * i - 1]]

Coins(l) == IF l.state % 2 = 1 THEN {~l.coin} ELSE BOOLEAN

\* compact: both compactors afterwards
Compacted(k, hra, l, next) ==
  {<<ensure_enough_sections(k,
       [l EXCEPT !.items = StayingPart(k, hra, l), !.state = @ + 1, !.coin = coin]),
     [next EXCEPT !.items = MergeSorted(EvensOrOdds(CompactedPart(k, hra, l), coin), @)]>> :
   coin \in Coins(l)}

----------------------------------------------------------------------------
(* Sketches *)

Grown(s) ==
  LET levels == Append(s.levels, NewCompactor) IN
  [s EXCEPT !.levels = levels, !.nom = MaxNomSize(s.k, levels)]

NewReq(k, hra) ==
  Grown([k |-> k, hra |-> hra, n |-> 0, levels |-> <<>>, nom |-> 0,
         retained |-> 0, min |-> Unseen, max |-> Unseen, view |-> Unseen])

CompactAt_StaleNom(s, h) ==
  LET t == IF h = Len(s.levels) THEN Grown(s) ELSE s IN
  {[t EXCEPT !.levels[h] = pair[1], !.levels[h + 1] = pair[2],
             !.retained = @ - (Len(pair[2].items) - Len(t.levels[h + 1].items))] :
     pair \in Compacted(s.k, s.hra, t.levels[h], t.levels[h + 1])}

\* One turn of compress, with its updates of the two counters
CompactAt(s, h) ==
  LET t == IF h = Len(s.levels) THEN Grown(s) ELSE s IN
  {[t EXCEPT !.levels[h] = pair[1], !.levels[h + 1] = pair[2],
             !.retained = @ - (Len(pair[2].items) - Len(t.levels[h + 1].items)),
             !.nom = @ + NomCapacity(s.k, pair[1]) - NomCapacity(s.k, t.levels[h])] :
     pair \in Compacted(s.k, s.hra, t.levels[h], t.levels[h + 1])}

RECURSIVE CompressFrom(_, _)
CompressFrom(s, h) ==
  IF h > Len(s.levels) THEN {s}
  ELSE IF Len(s.levels[h].items) >= NomCapacity(s.k, s.levels[h])
  THEN UNION {CompressFrom(t, h + 1) : t \in CompactAt(s, h)}
  ELSE CompressFrom(s, h + 1)

compress(s) == CompressFrom(s, 1)

MinMax(s, low, high) ==
  [s EXCEPT !.min = IF s.n = 0 \/ low < @ THEN low ELSE @,
            !.max = IF s.n = 0 \/ high > @ THEN high ELSE @]

\* reset_sorted_view
Unviewed(s) == [s EXCEPT !.view = Unseen]

Updated(s, x) ==
  LET t == [MinMax(s, x, x) EXCEPT !.levels[1].items = MergeSorted(<<x>>, @),
                                   !.retained = @ + 1, !.n = @ + 1]
  IN {Unviewed(u) : u \in IF t.retained = t.nom THEN compress(t) ELSE {t}}

\* state |= other.state
RECURSIVE BitOr(_, _)
BitOr(a, b) ==
  IF a = 0 THEN b
  ELSE 2 * BitOr(a \div 2, b \div 2) + (IF a % 2 = 1 \/ b % 2 = 1 THEN 1 ELSE 0)

MergedLevel(k, l, m) ==
  LET sized == EnoughSections(k, [l EXCEPT !.state = BitOr(@, m.state)]) IN
  [sized EXCEPT !.items = MergeSorted(@, m.items)]

RECURSIVE GrownTo(_, _)
GrownTo(s, num) == IF Len(s.levels) >= num THEN s ELSE GrownTo(Grown(s), num)

Merged(s, o) ==
  LET tall == GrownTo(MinMax(s, o.min, o.max), Len(o.levels))
      levels == [h \in DOMAIN tall.levels |->
                   IF h <= Len(o.levels)
                   THEN MergedLevel(s.k, tall.levels[h], o.levels[h])
                   ELSE tall.levels[h]]
      t == [tall EXCEPT !.levels = levels, !.n = @ + o.n,
                        !.nom = MaxNomSize(s.k, levels),
                        !.retained = NumRetained(levels)]
  IN {Unviewed(u) : u \in IF t.retained >= t.nom THEN compress(t) ELSE {t}}

----------------------------------------------------------------------------
(* Serialization *)

\* Up to MIN_K items are written raw: without the state of their compactor.
Deserialized_NoState(s) ==
  {[s EXCEPT !.levels = [h \in DOMAIN @ |-> [@[h] EXCEPT !.state = 0]], !.view = Unseen]}

\* The coin is not written, the counters and, of one level, n and the
\* extremes are derived.
Deserialized(s) ==
  LET read == [h \in DOMAIN s.levels |->
                 IF s.n <= MIN_K THEN [NewCompactor EXCEPT !.items = s.levels[h].items]
                 ELSE s.levels[h]]
      lone == s.levels[1].items
  IN IF s.n = 0 THEN {NewReq(s.k, s.hra)}
     ELSE {[s EXCEPT
              !.levels = [h \in DOMAIN read |-> [read[h] EXCEPT !.coin = coins[h]]],
              !.n = IF Len(read) = 1 THEN Len(lone) ELSE @,
              !.min = IF Len(read) = 1 THEN Head(lone) ELSE @,
              !.max = IF Len(read) = 1 THEN Last(lone) ELSE @,
              !.nom = MaxNomSize(s.k, read), !.retained = NumRetained(read),
              !.view = Unseen] :
            coins \in [DOMAIN read -> BOOLEAN]}

----------------------------------------------------------------------------
(* Operations *)

TotalN == MapThenSumSet(LAMBDA o : req[o].n, ReqSketch)

ReqInit ==
  /\ req \in [ReqSketch -> {NewReq(ActualK(k), hra) : k \in Width, hra \in BOOLEAN}]
  /\ streamed = [o \in ReqSketch |-> [x \in ReqValue |-> 0]]
  /\ widths = [o \in ReqSketch |-> {}]

Halved(s, t) == \E h \in DOMAIN t.levels : h > Len(s.levels) \/ t.levels[h].state # s.levels[h].state

UpdateReq(o, x) ==
  /\ TotalN < MaxHeld
  /\ \E t \in Updated(req[o], x) :
       /\ req' = [req EXCEPT ![o] = t]
       /\ widths' = [widths EXCEPT ![o] = IF Halved(req[o], t) THEN @ \cup {t.k} ELSE @]
  /\ streamed' = [streamed EXCEPT ![o][x] = @ + 1]

\* o$merge(p): not with itself, not with the other accuracy
MergeReq(o, p) ==
  /\ o # p /\ req[o].hra = req[p].hra
  /\ req[p].n > 0 /\ req[o].n + req[p].n <= MaxItems
  /\ \E t \in Merged(req[o], req[p]) : req' = [req EXCEPT ![o] = t]
  /\ widths' = [widths EXCEPT ![o] = @ \cup widths[p] \cup {req[o].k}]
  /\ streamed' = [streamed EXCEPT ![o] = [x \in ReqValue |-> @[x] + streamed[p][x]]]

Occurrences(items, x) == Len(SelectSeq(items, LAMBDA y : y = x))

ViewOf(levels) ==
  [x \in ReqValue |->
     FoldLeftDomain(LAMBDA n, h : n + 2^(h - 1) * Occurrences(levels[h].items, x), 0, levels)]

\* quantile, cdf and pmf keep the sorted view; rank reads the compactors
QueryReq(o) ==
  /\ req[o].n > 0 /\ req[o].view = Unseen
  /\ req' = [req EXCEPT ![o].view = ViewOf(req[o].levels)]
  /\ UNCHANGED <<streamed, widths>>

\* o <- req(bytes = o$serialize())
RestoreReq(o) ==
  /\ \E t \in Deserialized(req[o]) : req' = [req EXCEPT ![o] = t]
  /\ UNCHANGED <<streamed, widths>>

ReqNext ==
  \/ \E o \in ReqSketch : \/ QueryReq(o) \/ RestoreReq(o)
                           \/ \E x \in ReqValue : UpdateReq(o, x)
  \/ \E o, p \in ReqSketch : MergeReq(o, p)

ReqSpec == ReqInit /\ [][ReqNext]_reqVars

----------------------------------------------------------------------------
(* Properties *)

ReqTypeOK ==
  /\ \A o \in ReqSketch : LET s == req[o] IN
       /\ s.k \in Nat /\ s.k % 2 = 0 /\ s.hra \in BOOLEAN /\ s.n \in 0 .. MaxItems
       /\ \A h \in DOMAIN s.levels : LET l == s.levels[h] IN
            l.items \in Seq(ReqValue) /\ l.state \in Nat /\ l.coin \in BOOLEAN
       /\ s.view = Unseen \/ s.view \in [ReqValue -> Nat]
  /\ streamed \in [ReqSketch -> [ReqValue -> Nat]]

\* Compactions, whose range is even and never empty, merges and restores keep
\* the weight: the items, by weight, are as many as were absorbed, and the
\* extremes are exact.  A view that is kept is that of the items.
ReqWeightConserved ==
  \A o \in ReqSketch :
    LET s == req[o]
        came == {x \in ReqValue : streamed[o][x] > 0}
    IN /\ s.n = MapThenSumSet(LAMBDA x : streamed[o][x], ReqValue)
       /\ s.n = FoldLeftDomain(LAMBDA n, h : n + 2^(h - 1) * Len(s.levels[h].items), 0, s.levels)
       /\ came # {} => s.min = Min(came) /\ s.max = Max(came)
       /\ s.view # Unseen => s.view = ViewOf(s.levels)

\* Compression is due when the number of items is EQUAL to the nominal size;
\* both are kept up to date by hand.  The trigger is never overstepped.
CompressionNotMissed ==
  \A o \in ReqSketch : LET s == req[o] IN
    /\ s.nom = MaxNomSize(s.k, s.levels) /\ s.retained = NumRetained(s.levels)
    /\ s.retained < s.nom

AtMost(count, x) == MapThenSumSet(LAMBDA y : count[y], {y \in ReqValue : y <= x})

\* is_exact_rank, of the rank w / n
ClaimsExact(s, w) ==
  LET base == s.k * INIT_NUM_SECTIONS IN
  \/ Len(s.levels) = 1
  \/ s.n <= base
  \/ IF s.hra THEN w >= s.n - base ELSE w <= base

\* At the true ranks where the bounds are the rank itself the sketch makes no
\* error, unless a narrower sketch was merged in: the least k is not kept.
ExactRanksExact ==
  \A o \in ReqSketch : \A x \in ReqValue :
    LET true == AtMost(streamed[o], x) IN
    (\A k \in widths[o] : k >= req[o].k) /\ ClaimsExact(req[o], true)
      => AtMost(ViewOf(req[o].levels), x) = true

\* What a sketch writes is what it reads back, up to the coins and the view.
ReqRestored ==
  \A o \in ReqSketch :
    LET Plain(s) == [s EXCEPT !.view = Unseen,
                       !.levels = [h \in DOMAIN @ |-> [@[h] EXCEPT !.coin = FALSE]]]
    IN \A t \in Deserialized(req[o]) : Plain(t) = Plain(req[o])

\* "`k`: Sketch width [...] even whole number in `[4, 1024]`"
\* (R/quantiles-req.R).
WidthAsConfigured == \A o \in ReqSketch : req[o].k \in Width
=============================================================================
