----------------------------- MODULE ThetaTable -----------------------------
(***************************************************************************)
(* Theta sketches over their real storage: update sketches are probing     *)
(* tables that grow and rebuild, compact sketches are sorted arrays, and   *)
(* the set operations feed one entry after the other into tables, stopping *)
(* early on sorted input.  It implements Theta.                            *)
(***************************************************************************)
EXTENDS ThetaUpdateSketchBase

CONSTANTS
  Hash, Sketch,
  LgKs,            \* lg_k of the sketches and unions
  DEFAULT_LG_K,    \* 12 in the code
  BYTE, BLOCK      \* of payloads, see ThetaPayload

VARIABLES sk, hint, truth

vars == <<sk, hint, truth>>

Updatable(t) == [compact |-> FALSE, table |-> t]
CompactSketch(empty, theta, entries) ==
  [compact |-> TRUE, empty |-> empty, theta |-> theta, entries |-> entries]

IsEmpty(c) == IF c.compact THEN c.empty ELSE c.table.empty
Theta64(c) ==
  IF c.compact THEN c.theta ELSE IF c.table.empty THEN MAX_THETA ELSE c.table.theta

\* The entries in the order of the sketch's iterator
Entries(c) == IF c.compact THEN c.entries ELSE KeysInOrder(c.table)
NumRetained(c) == Len(Entries(c))
IsOrdered(c) == c.compact \/ c.table.num <= 1

Sorted(S) == [i \in 1 .. Cardinality(S) |-> Nth(S, i - 1)]

\* for (entry: c) with the early stop at an entry that is not below theta
EntriesBelow_NoOrderCheck(c, theta) ==
  LET E == Entries(c)
      stop == {j \in DOMAIN E : E[j] >= theta}
  IN IF stop = {} THEN E ELSE SubSeq(E, 1, Min(stop) - 1)

EntriesBelow(c, theta) ==
  LET E == Entries(c)
      stop == {j \in DOMAIN E : E[j] >= theta}
  IN IF IsOrdered(c) /\ stop # {} THEN SubSeq(E, 1, Min(stop) - 1)
     ELSE SelectSeq(E, LAMBDA h : h < theta)

T == INSTANCE Theta WITH
       Widths <- {2^lg : lg \in LgKs},
       DEFAULT_WIDTH <- 2^DEFAULT_LG_K,
       MIN_WIDTH <- 2^Min(LgKs),
       MAX_WIDTH <- 2^Max(LgKs),
       hint <- [s \in Sketch |-> 2^hint[s]],
       sk <- [s \in Sketch |->
               IF sk[s].compact
               THEN [compact |-> TRUE, empty |-> sk[s].empty, theta |-> sk[s].theta,
                     entries |-> ToSet(sk[s].entries), width |-> 0]
               ELSE [compact |-> FALSE, empty |-> sk[s].table.empty,
                     theta |-> sk[s].table.theta,
                     entries |-> KeysOf(sk[s].table),
                     width |-> 2^sk[s].table.lg_nom]]

----------------------------------------------------------------------------
(* Union *)

\* u is [table, theta]: the union's table and union_theta_.
UnionFeeds(u, h) ==
  IF h < u.theta /\ h < u.table.theta
  THEN {[u EXCEPT !.table = t] : t \in InsertsAbsent(u.table, h)}
  ELSE {u}

\* Feeding stops early by itself: on sorted input every later entry is screened.
UnionUpdates(u, c) ==
  IF IsEmpty(c) THEN {u}
  ELSE LET start == [table |-> [u.table EXCEPT !.empty = FALSE],
                     theta |-> SmallerOf(u.theta, Theta64(c))]
       IN {[v EXCEPT !.theta = SmallerOf(@, v.table.theta)] :
             v \in FoldLeft(LAMBDA us, h : UNION {UnionFeeds(v, h) : v \in us},
                            {start}, EntriesBelow(c, start.theta))}

UnionResult(u) ==
  LET theta == SmallerOf(u.theta, u.table.theta)
      keys == {h \in KeysOf(u.table) : h < theta}
      nominal == 2^u.table.lg_nom
  IN IF u.table.empty THEN CompactSketch(TRUE, u.theta, <<>>)
     ELSE IF Cardinality(keys) > nominal
     THEN CompactSketch(FALSE, Nth(keys, nominal), Sorted(Smallest(keys, nominal)))
     ELSE CompactSketch(FALSE, theta, Sorted(keys))

Unions(a, b, lg_k) ==
  LET start == [table |-> Build(lg_k), theta |-> MAX_THETA] IN
  {UnionResult(u) : u \in UNION {UnionUpdates(v, b) : v \in UnionUpdates(start, a)}}

----------------------------------------------------------------------------
(* Intersection and difference *)

\* A table for a known number of keys that is never resized or rebuilt, or, with
\* lg_nom = lg_cur as in the difference, can be resized in place.
TablesOf(keys, count, lg_nom_gap) ==
  LET lg == LgSizeFromCount(count) IN
  FoldLeft(LAMBDA ts, h : UNION {Inserts(t, h) : t \in ts},
           {NewTable(lg, lg - lg_nom_gap, 0, MAX_THETA, FALSE)}, keys)

\* The first update copies a into a table, the second looks b's entries up.
Intersections(a, b) ==
  LET empty == IsEmpty(a) \/ IsEmpty(b)
      theta == IF empty THEN MAX_THETA ELSE SmallerOf(Theta64(a), Theta64(b))
  IN IF NumRetained(a) = 0 \/ NumRetained(b) = 0
     THEN {CompactSketch(empty, theta, <<>>)}
     ELSE {LET matched == SelectSeq(EntriesBelow(b, theta), LAMBDA h : Holds(t, h))
           IN CompactSketch(empty \/ (matched = <<>> /\ theta = MAX_THETA), theta,
                            Sorted(ToSet(matched))) :
             t \in TablesOf(Entries(a), NumRetained(a), 1)}

HashBased(a, b) == NumRetained(b) > 0 /\ ~(IsOrdered(a) /\ IsOrdered(b))

\* The table of the hash-based difference: b's entries below theta
LookupTables(b, theta) == TablesOf(EntriesBelow(b, theta), NumRetained(b), 0)

Differences(a, b) ==
  LET theta == SmallerOf(Theta64(a), Theta64(b))
      below == EntriesBelow(a, theta)
      Rest(entries) ==
        CompactSketch(entries = <<>> /\ theta = MAX_THETA, theta, Sorted(ToSet(entries)))
  IN IF IsEmpty(a) \/ (NumRetained(a) > 0 /\ IsEmpty(b))
     THEN {CompactSketch(IsEmpty(a), Theta64(a), Sorted(ToSet(Entries(a))))}
     ELSE IF ~HashBased(a, b)
     THEN {Rest(SelectSeq(below, LAMBDA h : h \notin ToSet(Entries(b))))}
     ELSE {Rest(SelectSeq(below, LAMBDA h : ~Holds(t, h))) : t \in LookupTables(b, theta)}

----------------------------------------------------------------------------
(* Operations on the R objects *)

LgHint(n) ==
  Max({DEFAULT_LG_K} \cup {lg \in LgKs : 2^lg <= n})

Init ==
  /\ hint \in [Sketch -> LgKs]
  /\ sk = [s \in Sketch |-> Updatable(Build(hint[s]))]
  /\ truth = [s \in Sketch |-> {}]

Set(s, c, lg, t) ==
  /\ sk' = [sk EXCEPT ![s] = c]
  /\ hint' = [hint EXCEPT ![s] = lg]
  /\ truth' = [truth EXCEPT ![s] = t]

Create(s, lg) == Set(s, Updatable(Build(lg)), lg, {})

Update(s, h) ==
  /\ ~sk[s].compact
  /\ \E t \in TableUpdates(sk[s].table, h) :
       Set(s, Updatable(t), hint[s], truth[s] \cup {h})

DefaultLg(s, o) == T!LargerOf(hint[s], hint[o])

Merge(s, o, lg) ==
  /\ s # o
  /\ \E u \in Unions(sk[s], sk[o], lg) : Set(s, u, lg, truth[s] \cup truth[o])

\* The top-level functions make a new object, held in any variable.
ThetaUnion(a, b, lg) ==
  \E u \in Unions(sk[a], sk[b], lg), r \in Sketch : Set(r, u, lg, truth[a] \cup truth[b])

ThetaIntersection(a, b) ==
  \E u \in Intersections(sk[a], sk[b]), r \in Sketch :
    Set(r, u, DefaultLg(a, b), truth[a] \cap truth[b])

ThetaDifference(a, b) ==
  \E u \in Differences(sk[a], sk[b]), r \in Sketch :
    Set(r, u, DefaultLg(a, b), truth[a] \ truth[b])

P == INSTANCE ThetaPayload

\* theta_serialize_cpp writes compact(true), sorted.
Payload(c) ==
  P!SerializeCompressed([empty |-> IsEmpty(c), theta |-> Theta64(c),
                         entries |-> Sorted(ToSet(Entries(c)))])

Restore(r, o) ==
  LET c == P!Deserialize(Payload(sk[o])) IN
  Set(r, CompactSketch(c.empty, c.theta, c.entries), LgHint(Len(c.entries)), truth[o])

Next ==
  \/ \E s \in Sketch, lg \in LgKs : Create(s, lg)
  \/ \E s \in Sketch, h \in Hash : Update(s, h)
  \/ \E s, o \in Sketch :
       \/ \E lg \in LgKs : Merge(s, o, lg)
       \/ Restore(s, o)
  \/ \E a, b \in Sketch :
       \/ \E lg \in LgKs : ThetaUnion(a, b, lg)
       \/ ThetaIntersection(a, b)
       \/ ThetaDifference(a, b)

Spec == Init /\ [][Next]_vars

----------------------------------------------------------------------------
(* Properties *)

\* Every table is sound whatever growth and rebuilds led to it: its count is
\* right, it has a free slot for the search to end at (no "key not found and no
\* empty slots!"), and the search for each of its keys finds it.
TableWellFormed ==
  \A s \in Sketch : ~sk[s].compact =>
    LET t == sk[s].table IN
    /\ t.num = Cardinality({p \in DOMAIN t.slot : t.slot[p] # 0})
    /\ \E p \in DOMAIN t.slot : t.slot[p] = 0
    /\ \A p \in DOMAIN t.slot : t.slot[p] # 0 => Find(t.slot, t.lg_cur, t.slot[p]) = p

\* A compact sketch is sorted and below its theta, which its readers' early
\* stops and the sort-based difference rely on.
CompactSorted ==
  \A s \in Sketch : sk[s].compact =>
    LET E == sk[s].entries IN
    /\ \A i, j \in DOMAIN E : i < j => E[i] < E[j]
    /\ \A i \in DOMAIN E : E[i] < sk[s].theta

\* Tables, probing, early stops and the order of feeding are invisible: every
\* operation gives a result that Theta allows.
ImplementsTheta == T!Spec
============================================================================
