------------------------- MODULE SketchObjectProofs -------------------------
(***************************************************************************)
(* What holds of the R objects for every class, seed, stream and length of *)
(* a history: the seed that R compares is the one the native sketch hashed *)
(* with, through interrupted updates, merges, payloads read with another   *)
(* seed, and revived objects; an update absorbs each given element once,   *)
(* in order and with its own weight; and a call that fails changes nothing.*)
(***************************************************************************)
EXTENDS SketchObject, InductionTheorems, SequenceTheorems

Fields == {"class", "seed", "hashed", "live", "compact", "seen"}

\* A live sketch that holds hashes, or can still take some, has R's seed.  An
\* empty sketch that was read from bytes may have another, but it is compact.
Agrees(s) ==
  /\ DOMAIN s = Fields
  /\ s.class \in Freezing /\ s.live /\ (~s.compact \/ s.seen # <<>>) => s.hashed = s.seed

\* The sketch of a running update can take what comes.
IInv ==
  /\ DOMAIN obj = Object \cup {Temp}
  /\ \A o \in Object \cup {Temp} : Bound(o) => Agrees(obj[o])
  /\ Running => /\ call.on \in Object \cup {Temp} /\ call.bind \in Object
                /\ Agrees(obj[call.on]) /\ obj[call.on].live /\ ~obj[call.on].compact

----------------------------------------------------------------------------
(* Seeds of a sketch *)

LEMMA FreshAgrees ==
  ASSUME NEW c, NEW seed
  PROVE  Agrees(Fresh(c, seed)) /\ Fresh(c, seed).live /\ ~Fresh(c, seed).compact
  BY DEF Agrees, Fresh, Fields

LEMMA RevivedAgrees ==
  ASSUME NEW c, NEW seed
  PROVE  Agrees([Fresh(c, seed) EXCEPT !.live = FALSE])
  BY DEF Agrees, Fresh, Fields

\* An element changes neither seed.
LEMMA AppendAgrees ==
  ASSUME NEW s, Agrees(s), s.live, ~s.compact, NEW seen
  PROVE  LET t == [s EXCEPT !.seen = seen] IN Agrees(t) /\ t.live /\ ~t.compact
  BY DEF Agrees, Fields

LEMMA MergedAgrees ==
  ASSUME NEW s, Agrees(s), NEW seen
  PROVE  Agrees([s EXCEPT !.seen = seen, !.hashed = s.seed, !.compact = s.class \in Freezing])
  BY DEF Agrees, Fields

\* Another seed is refused unless the payload is empty, and then the sketch is
\* compact.
LEMMA RestoredAgrees ==
  ASSUME NEW t, Agrees(t), NEW c, NEW seed, Readable(t, c, seed)
  PROVE  Agrees(Restored(t, seed))
  BY DEF Agrees, Fields, Readable, Restored

----------------------------------------------------------------------------
(* Seeds agree *)

LEMMA TempApart == Temp \notin Object
  BY SketchObjectAssumption

LEMMA InitInvariant ==
  ASSUME Init
  PROVE  IInv
  BY DEF Init, IInv, Bound, Running

\* An object is bound to a sketch that agrees, no call runs.
LEMMA BindInvariant ==
  ASSUME IInv, ~Running, NEW o \in Object, NEW s, Agrees(s),
         obj' = [obj EXCEPT ![o] = s], UNCHANGED call
  PROVE  IInv'
  BY DEF IInv, Bound, Running

LEMMA EndsInvariant ==
  ASSUME IInv, NEW how, Ends(how)
  PROVE  IInv'
  BY DEF IInv, Ends, Bound, Running

LEMMA CreateInvariant ==
  ASSUME IInv, NEW o \in Object, NEW c \in Class, NEW seed \in SeedsOf(c), Create(o, c, seed)
  PROVE  IInv'
  BY FreshAgrees, BindInvariant DEF Create

LEMMA ConstructInvariant ==
  ASSUME IInv, NEW o \in Object, NEW c \in Class, NEW seed \in SeedsOf(c), NEW x, NEW w,
         Construct(o, c, seed, x, w)
  PROVE  IInv'
  <1>1. CASE Ends("classed")
    BY <1>1, EndsInvariant
  <1>2. CASE /\ obj' = [obj EXCEPT ![Temp] = Fresh(c, seed)]
             /\ call' = [on |-> Temp, x |-> x, w |-> w, i |-> 0, before |-> <<>>, bind |-> o]
    <2>1. call'.on = Temp /\ call'.bind = o /\ obj'[Temp] = Fresh(c, seed)
      BY <1>2 DEF IInv
    <2>2. DOMAIN obj' = Object \cup {Temp}
      BY <1>2 DEF IInv
    <2>3. \A p \in Object \cup {Temp} : Bound(p)' => Agrees(obj'[p])
      BY <1>2, <2>1, FreshAgrees DEF IInv, Bound
    <2> QED BY <2>1, <2>2, <2>3, FreshAgrees DEF IInv
  <1> QED BY <1>1, <1>2 DEF Construct

LEMMA UpdateInvariant ==
  ASSUME IInv, NEW o \in Object, NEW x, NEW w, Update(o, x, w)
  PROVE  IInv'
  <1>1. ASSUME NEW how, Ends(how) PROVE IInv'
    BY <1>1, EndsInvariant
  <1>2. CASE obj[o].live /\ ~obj[o].compact /\ Begin(o, obj[o], x, w)
    <2>1. DOMAIN obj' = Object \cup {Temp} /\ \A r \in Object \cup {Temp} : obj'[r] = obj[r]
      BY <1>2 DEF Begin, IInv
    <2>2. call'.on = o /\ call'.bind = o
      BY <1>2 DEF Begin
    <2>3. Agrees(obj[o])
      BY DEF IInv, Update
    <2> QED BY <1>2, <2>1, <2>2, <2>3 DEF IInv, Bound
  <1> QED BY <1>1, <1>2 DEF Update

\* What was under construction is bound or dropped.
LEMMA ReturnInvariant ==
  ASSUME IInv, Running, NEW how, Return(how)
  PROVE  IInv'
  <1>1. ~Running'
    BY DEF Return, Running
  <1>2. CASE call.on # Temp
    BY <1>1, <1>2 DEF Return, IInv, Bound
  <1>3. CASE call.on = Temp
    <2>1. Agrees(obj[Temp]) /\ call.bind \in Object /\ call.bind # Temp
      BY <1>3, TempApart DEF IInv
    <2>2. obj' = [obj EXCEPT ![Temp] = Unbound,
                             ![call.bind] = IF how = "ok" THEN obj[Temp] ELSE @]
      BY <1>3 DEF Return
    <2>3. DOMAIN obj' = Object \cup {Temp} /\ obj'[Temp] = Unbound
      BY <2>1, <2>2 DEF IInv
    <2>4. obj'[call.bind] = IF how = "ok" THEN obj[Temp] ELSE obj[call.bind]
      BY <2>1, <2>2 DEF IInv
    <2>5. \A p \in Object \ {call.bind} : obj'[p] = obj[p]
      BY <2>2, TempApart DEF IInv
    <2> QED BY <1>1, <2>1, <2>3, <2>4, <2>5 DEF IInv, Bound
  <1> QED BY <1>2, <1>3

LEMMA AbsorbInvariant ==
  ASSUME IInv, Absorb
  PROVE  IInv'
  <1> DEFINE e == Rest[call.i + 1]
             s == obj[call.on]
  <1>1. Running
    BY DEF Absorb
  <1>2. CASE Return("native")
    BY <1>1, <1>2, ReturnInvariant
  <1>3. CASE obj' = obj /\ call' = [call EXCEPT !.i = @ + 1]
    <2>1. call'.on = call.on /\ call'.bind = call.bind
      BY <1>3
    <2> QED BY <1>1, <1>3, <2>1 DEF IInv, Bound
  <1>4. CASE obj' = [obj EXCEPT ![call.on].seen = Append(@, e)] /\ call' = [call EXCEPT !.i = @ + 1]
    <2>1. call'.on = call.on /\ call'.bind = call.bind
      BY <1>4
    <2>2. call.on \in Object \cup {Temp} /\ Agrees(s) /\ s.live /\ ~s.compact
      BY <1>1 DEF IInv
    <2> DEFINE t == [s EXCEPT !.seen = Append(s.seen, e)]
    <2>3. Agrees(t) /\ t.live /\ ~t.compact
      BY <2>2, AppendAgrees
    <2>4. obj' = [obj EXCEPT ![call.on] = t]
      BY <1>4
    <2> HIDE DEF t, s, e
    <2>5. DOMAIN obj' = Object \cup {Temp} /\ obj'[call.on] = t
      BY <2>2, <2>4 DEF IInv
    <2>6. \A p \in Object \cup {Temp} : Bound(p)' => Agrees(obj'[p])
      BY <2>3, <2>4 DEF IInv, Bound
    <2> QED BY <1>1, <2>1, <2>2, <2>3, <2>5, <2>6 DEF IInv
  <1> QED BY <1>2, <1>3, <1>4 DEF Absorb

LEMMA MergeInvariant ==
  ASSUME IInv, NEW o \in Object, NEW p \in Object, Merge(o, p)
  PROVE  IInv'
  <1> DEFINE s == obj[o]
             t == obj[p]
             u == [s EXCEPT !.seen = s.seen \o t.seen, !.hashed = s.seed,
                            !.compact = s.class \in Freezing]
  <1>1. ASSUME NEW how, Ends(how) PROVE IInv'
    BY <1>1, EndsInvariant
  <1>2. CASE /\ obj' = [obj EXCEPT ![o].seen = @ \o t.seen, ![o].hashed = s.seed,
                                   ![o].compact = s.class \in Freezing]
             /\ UNCHANGED call
    <2>1. ~Running /\ Agrees(s)
      BY DEF Merge, IInv
    <2>2. Agrees(u)
      BY <2>1, MergedAgrees
    <2>3. obj' = [obj EXCEPT ![o] = u]
      BY <1>2 DEF IInv
    <2> HIDE DEF u
    <2> QED BY <1>2, <2>1, <2>2, <2>3, BindInvariant
  <1> QED BY <1>1, <1>2 DEF Merge

LEMMA RestoreInvariant ==
  ASSUME IInv, NEW o \in Object, NEW p \in Object, NEW c \in Class, NEW seed \in SeedsOf(c),
         Restore(o, p, c, seed)
  PROVE  IInv'
  <1>1. ASSUME NEW how, Ends(how) PROVE IInv'
    BY <1>1, EndsInvariant
  <1>2. CASE /\ Readable(obj[p], c, seed)
             /\ obj' = [obj EXCEPT ![o] = Restored(obj[p], seed)]
             /\ UNCHANGED call
    <2>1. ~Running /\ Agrees(obj[p])
      BY DEF Restore, IInv
    <2>2. Agrees(Restored(obj[p], seed))
      BY <1>2, <2>1, RestoredAgrees
    <2> QED BY <1>2, <2>1, <2>2, BindInvariant
  <1> QED BY <1>1, <1>2 DEF Restore

LEMMA ReadRDSInvariant ==
  ASSUME IInv, NEW o \in Object, NEW p \in Object, ReadRDS(o, p)
  PROVE  IInv'
  BY RevivedAgrees, BindInvariant DEF ReadRDS

LEMMA NextInvariant ==
  ASSUME IInv, [Next]_vars
  PROVE  IInv'
  <1>1. CASE UNCHANGED vars
    BY <1>1 DEF vars, IInv, Bound, Running
  <1>2. CASE Absorb
    BY <1>2, AbsorbInvariant
  <1>3. CASE Interrupt \/ Finish
    BY <1>3, ReturnInvariant DEF Interrupt, Finish
  <1>4. ASSUME NEW o \in Object, NEW c \in Class, NEW seed \in SeedsOf(c),
               \/ Create(o, c, seed)
               \/ \E x \in Streams : \E w \in WeightArgs(Len(x)) : Construct(o, c, seed, x, w)
        PROVE  IInv'
    BY <1>4, CreateInvariant, ConstructInvariant
  <1>5. ASSUME NEW o \in Object,
               \/ \E x \in Streams : \E w \in WeightArgs(Len(x)) : Update(o, x, w)
               \/ Display(o) \/ Query(o)
        PROVE  IInv'
    BY <1>5, UpdateInvariant, EndsInvariant DEF Display, Query
  <1>6. ASSUME NEW o \in Object, NEW p \in Object,
               \/ Merge(o, p)
               \/ \E c \in Class : \E seed \in SeedsOf(c) : Restore(o, p, c, seed)
               \/ ReadRDS(o, p)
        PROVE  IInv'
    BY <1>6, MergeInvariant, RestoreInvariant, ReadRDSInvariant
  <1> QED BY <1>1, <1>2, <1>3, <1>4, <1>5, <1>6 DEF Next

----------------------------------------------------------------------------
(* Theorems about seeds *)

\* Sketches agree with their objects, the one of a running update included.
THEOREM Invariance == Spec => []IInv
  <1>1. Init => IInv
    BY InitInvariant
  <1>2. IInv /\ [Next]_vars => IInv'
    BY NextInvariant
  <1> QED BY <1>1, <1>2, PTL DEF Spec

\* The seed that R compares before a merge is the one the native sketch hashed with.
THEOREM SeedsAlwaysAgree == Spec => []SeedsAgree
  <1>1. IInv => SeedsAgree
    BY DEF IInv, SeedsAgree, Agrees
  <1> QED BY <1>1, Invariance, PTL

\* So no union meets a hash of another seed: a merge that R lets through does
\* not fail on it.
THEOREM MergesMatch ==
  Spec => [](\A o, p \in Object :
               LET s == obj[o] t == obj[p] IN
               /\ Bound(o) /\ Bound(p) /\ s.live /\ t.live
               /\ s.class \in Freezing /\ t.class = s.class /\ ~SeedsDiffer(s, t)
               => ~SeedHashMismatch(s, s.seed) /\ ~SeedHashMismatch(t, s.seed))
  <1>1. SeedsAgree =>
          \A o, p \in Object :
            LET s == obj[o] t == obj[p] IN
            /\ Bound(o) /\ Bound(p) /\ s.live /\ t.live
            /\ s.class \in Freezing /\ t.class = s.class /\ ~SeedsDiffer(s, t)
            => ~SeedHashMismatch(s, s.seed) /\ ~SeedHashMismatch(t, s.seed)
    BY DEF SeedsAgree, SeedsDiffer, SeedHashMismatch
  <1> QED BY <1>1, SeedsAlwaysAgree, PTL

----------------------------------------------------------------------------
(* Streams: what filtering keeps *)

\* What Kept computes: one step appends at most one value.
LEMMA KeptDef ==
  ASSUME NEW x, Len(x) \in Nat, NEW v, NEW V,
         \A n \in 1..Len(x) : x[n] # NA => v[n] \in V
  PROVE  /\ Kept(v, x) \in [0..Len(x) -> Seq(V)]
         /\ Kept(v, x)[0] = <<>>
         /\ \A n \in 1..Len(x) :
              Kept(v, x)[n] = IF x[n] = NA THEN Kept(v, x)[n - 1]
                              ELSE Append(Kept(v, x)[n - 1], v[n])
  <1> DEFINE N == Len(x)
             S == Seq(V)
             base == <<>>
             Next1(f, n) == IF n = 0 THEN <<>>
                            ELSE IF x[n] = NA THEN f[n - 1] ELSE Append(f[n - 1], v[n])
             Grow(n, p) == IF x[n] = NA THEN p ELSE Append(p, v[n])
             step == [n \in 1..N |-> [p \in S |-> Grow(n, p)]]
             kept == CHOOSE g : g = [n \in 0..N |-> Next1(g, n)]
  <1>1. <<>> \in S
    OBVIOUS
  <1>2. \A n \in 1..N : \A p \in S : Grow(n, p) \in S
    OBVIOUS
  <1>3. step \in [1..N -> [S -> S]] /\ \A n \in 1..N : \A p \in S : step[n][p] = Grow(n, p)
    <2> HIDE DEF S, Grow, N
    <2> QED BY <1>2
  <1>4. Kept(v, x) = kept
    BY DEF Kept
  <1>5. N \in Nat
    OBVIOUS
  <1>6. PICK f : Recursive(f, N, S, base, step)
    <2>1. base \in S /\ step \in [1..N -> [S -> S]]
      BY <1>1, <1>3
    <2> HIDE DEF base, step, S, N
    <2> QED BY <1>5, <2>1, RecursionExists
  <1>7. f \in [0..N -> S] /\ f[0] = <<>> /\ \A n \in 1..N : f[n] = step[n][f[n - 1]]
    BY <1>6 DEF Recursive
  <1>8. ASSUME NEW n \in 0..N PROVE f[n] = Next1(f, n)
    <2>1. CASE n = 0
      BY <1>7, <2>1
    <2>2. CASE n # 0
      <3>1. n \in 1..N /\ n - 1 \in 0..N
        BY <1>5, <2>2
      <3>2. f[n] = Grow(n, f[n - 1])
        <4> HIDE DEF step, S, N, Grow
        <4> QED BY <1>3, <1>7, <3>1
      <3> QED BY <2>2, <3>2
    <2> QED BY <2>1, <2>2
  <1>9. f = [n \in 0..N |-> Next1(f, n)]
    <2> HIDE DEF Next1, S, N
    <2> QED BY <1>7, <1>8
  <1>10. kept = [n \in 0..N |-> Next1(kept, n)]
    <2> HIDE DEF Next1, N
    <2> QED BY <1>9
  <1> HIDE DEF kept
  <1>11. \A n \in 0..N : kept[n] = Next1(kept, n)
    <2> HIDE DEF Next1, N
    <2> QED BY <1>10
  <1>12. kept[0] = <<>>
    <2>1. 0 \in 0..N
      BY <1>5
    <2> QED BY <1>11, <2>1
  <1>13. ASSUME NEW n \in 1..N PROVE kept[n] = Grow(n, kept[n - 1])
    <2>1. n \in 0..N /\ n # 0
      BY <1>5
    <2> QED BY <1>11, <2>1
  <1>14. ASSUME NEW n \in 0..N, n + 1 <= N, kept[n] \in S PROVE kept[n + 1] \in S
    <2>1. n + 1 \in 1..N /\ (n + 1) - 1 = n
      BY <1>5, <1>14
    <2>2. kept[n + 1] = Grow(n + 1, kept[n])
      BY <1>13, <2>1
    <2> HIDE DEF S, Grow
    <2> QED BY <1>2, <1>14, <2>1, <2>2
  <1>15. \A n \in 0..N : kept[n] \in S
    <2> HIDE DEF S, N
    <2> QED BY <1>1, <1>5, <1>12, <1>14, RecursionType
  <1>16. kept \in [0..N -> S]
    <2> HIDE DEF Next1, S, N
    <2> QED BY <1>10, <1>15
  <1> QED BY <1>4, <1>12, <1>13, <1>16

\* The arguments of an update that passed the validators.
Valid(x, w) ==
  /\ x \in Streams /\ w \in Seq(Weight)
  /\ Len(w) \in {1, Len(x)} /\ Len(w) > 0
  /\ \A i \in DOMAIN w : w[i] >= 0

LEMMA StreamLength ==
  ASSUME NEW x \in Streams
  PROVE  x \in Seq(Item \cup {NA}) /\ Len(x) \in Nat /\ DOMAIN x = 1..Len(x)
  BY SketchObjectAssumption DEF Streams, Vectors

LEMMA OwnElement ==
  ASSUME NEW x, NEW w, Valid(x, w), NEW n \in 1..Len(x)
  PROVE  /\ Own(x, w)[n] = [item |-> x[n], weight |-> w[IF Len(w) = 1 THEN 1 ELSE n]]
         /\ Own(x, w)[n].item = x[n] /\ Own(x, w)[n].weight \in Nat
         /\ x[n] # NA => Own(x, w)[n] \in Element
  <1>1. n \in DOMAIN x /\ x[n] \in Item \cup {NA}
    BY StreamLength DEF Valid
  <1>2. (IF Len(w) = 1 THEN 1 ELSE n) \in DOMAIN w
    BY DEF Valid
  <1>3. ASSUME NEW i \in DOMAIN w PROVE w[i] \in Weight /\ w[i] \in Nat
    <2>1. w \in Seq(Weight) /\ w[i] >= 0
      BY DEF Valid
    <2>2. w[i] \in Weight /\ Weight \subseteq Int
      BY <2>1, SketchObjectAssumption
    <2>3. w[i] \in Int
      BY <2>2
    <2> DEFINE k == w[i]
    <2>4. k \in Int /\ k >= 0 => k \in Nat
      OBVIOUS
    <2> QED BY <2>1, <2>2, <2>3, <2>4
  <1> QED BY <1>1, <1>2, <1>3 DEF Own, Element

\* The kept elements: Given is the recursion over the stream.
LEMMA GivenDef ==
  ASSUME NEW x, NEW w, Valid(x, w)
  PROVE  /\ Given(x, w, 0) = <<>>
         /\ \A n \in 0..Len(x) : Given(x, w, n) \in Seq(Element)
         /\ \A n \in 1..Len(x) :
              Given(x, w, n) = IF x[n] = NA THEN Given(x, w, n - 1)
                               ELSE Append(Given(x, w, n - 1), Own(x, w)[n])
  <1> DEFINE v == Own(x, w)
  <1>1. Len(x) \in Nat
    BY StreamLength DEF Valid
  <1>2. \A n \in 1..Len(x) : x[n] # NA => v[n] \in Element
    BY OwnElement
  <1> HIDE DEF v
  <1>3. /\ Kept(v, x) \in [0..Len(x) -> Seq(Element)]
        /\ Kept(v, x)[0] = <<>>
        /\ \A n \in 1..Len(x) :
             Kept(v, x)[n] = IF x[n] = NA THEN Kept(v, x)[n - 1]
                             ELSE Append(Kept(v, x)[n - 1], v[n])
    BY <1>1, <1>2, KeptDef
  <1> QED BY <1>3 DEF Given, v

\* The prefixes of a sequence do not see what is appended to it.
LEMMA AppendPrefix ==
  ASSUME NEW S, NEW s \in Seq(S), NEW e \in S, NEW k \in 0..Len(s)
  PROVE  SubSeq(Append(s, e), 1, k) = SubSeq(s, 1, k)
  <1>1. Append(s, e) \in Seq(S) /\ Len(Append(s, e)) = Len(s) + 1
    OBVIOUS
  <1>2. /\ SubSeq(Append(s, e), 1, k) \in Seq(S) /\ Len(SubSeq(Append(s, e), 1, k)) = k
        /\ SubSeq(s, 1, k) \in Seq(S) /\ Len(SubSeq(s, 1, k)) = k
    BY <1>1
  <1>3. \A i \in 1..k : SubSeq(Append(s, e), 1, k)[i] = SubSeq(s, 1, k)[i]
    BY <1>1
  <1> QED BY <1>2, <1>3, SeqEqual

\* Every prefix of what is kept is what a prefix of the stream keeps.
LEMMA GivenPrefix ==
  ASSUME NEW x, NEW w, Valid(x, w), NEW i \in 0..Len(Given(x, w, Len(x)))
  PROVE  \E j \in 0..Len(x) : Given(x, w, j) = SubSeq(Given(x, w, Len(x)), 1, i)
  <1> DEFINE N == Len(x)
             g(n) == Given(x, w, n)
             P(n) == \A k \in 0..Len(g(n)) : \E j \in 0..n : g(j) = SubSeq(g(n), 1, k)
             G == {n \in 0..N : P(n)}
  <1>1. /\ N \in Nat /\ g(0) = <<>>
        /\ \A n \in 0..N : g(n) \in Seq(Element)
        /\ \A n \in 1..N : g(n) = IF x[n] = NA THEN g(n - 1) ELSE Append(g(n - 1), Own(x, w)[n])
    BY GivenDef, StreamLength DEF Valid
  <1> HIDE DEF N, g
  <1>2. 0 \in G
    BY <1>1
  <1>3. ASSUME NEW n \in 1..N, n - 1 \in G PROVE n \in G
    <2>1. /\ n - 1 \in 0..N /\ n \in 0..N /\ P(n - 1)
          /\ g(n - 1) \in Seq(Element) /\ g(n) \in Seq(Element)
      BY <1>1, <1>3
    <2>2. ASSUME NEW k \in 0..Len(g(n)) PROVE \E j \in 0..n : g(j) = SubSeq(g(n), 1, k)
      <3>1. CASE k = Len(g(n))
        <4>1. SubSeq(g(n), 1, k) = g(n)
          BY <2>1, <3>1
        <4>2. n \in 0..n
          BY <1>1
        <4> QED BY <4>1, <4>2
      <3>2. CASE k # Len(g(n))
        <4>1. k \in 0..Len(g(n - 1)) /\ SubSeq(g(n), 1, k) = SubSeq(g(n - 1), 1, k)
          <5>1. CASE x[n] = NA
            <6>1. g(n) = g(n - 1)
              BY <1>1, <5>1
            <6> QED BY <2>1, <3>2, <6>1
          <5>2. CASE x[n] # NA
            <6>1. g(n) = Append(g(n - 1), Own(x, w)[n]) /\ Own(x, w)[n] \in Element
              BY <1>1, <5>2, OwnElement DEF N
            <6>2. Len(g(n)) = Len(g(n - 1)) + 1 /\ k \in 0..Len(g(n - 1))
              BY <2>1, <3>2, <6>1
            <6> QED BY <2>1, <6>1, <6>2, AppendPrefix
          <5> QED BY <5>1, <5>2
        <4>2. PICK j \in 0..n - 1 : g(j) = SubSeq(g(n - 1), 1, k)
          BY <2>1, <4>1
        <4>3. j \in 0..n
          BY <1>1
        <4> QED BY <4>1, <4>2, <4>3
      <3> QED BY <3>1, <3>2
    <2> QED BY <2>1, <2>2
  <1>4. 0..N \subseteq G
    <2> HIDE DEF G
    <2> QED BY <1>1, <1>2, <1>3, UptoInduction
  <1> QED BY <1>1, <1>4 DEF N, g

\* Filtering elements and weights apart keeps each element's own weight.
LEMMA KeptTogether ==
  ASSUME NEW x, NEW w, Valid(x, w)
  PROVE  \A n \in 0..Len(x) :
           /\ Kept(x, x)[n] \in Seq(Item) /\ Len(Kept(x, x)[n]) = Len(Given(x, w, n))
           /\ Len(w) # 1 => /\ Kept(w, x)[n] \in Seq(Weight)
                            /\ Len(Kept(w, x)[n]) = Len(Given(x, w, n))
           /\ \A i \in 1..Len(Given(x, w, n)) :
                Given(x, w, n)[i] =
                  [item |-> Kept(x, x)[n][i],
                   weight |-> IF Len(w) = 1 THEN w[1] ELSE Kept(w, x)[n][i]]
  <1> DEFINE N == Len(x)
             g(n) == Given(x, w, n)
             a(n) == Kept(x, x)[n]
             b(n) == Kept(w, x)[n]
             v == Own(x, w)
             P(n) == /\ Len(a(n)) = Len(g(n))
                     /\ Len(w) # 1 => Len(b(n)) = Len(g(n))
                     /\ \A i \in 1..Len(g(n)) :
                          g(n)[i] = [item |-> a(n)[i],
                                     weight |-> IF Len(w) = 1 THEN w[1] ELSE b(n)[i]]
             G == {n \in 0..N : P(n)}
  <1>1. /\ N \in Nat /\ g(0) = <<>>
        /\ \A n \in 0..N : g(n) \in Seq(Element)
        /\ \A n \in 1..N : g(n) = IF x[n] = NA THEN g(n - 1) ELSE Append(g(n - 1), v[n])
    BY GivenDef, StreamLength DEF Valid
  <1>2. \A n \in 1..N :
          /\ v[n] = [item |-> x[n], weight |-> IF Len(w) = 1 THEN w[1] ELSE w[n]]
          /\ x[n] # NA => v[n] \in Element
    BY OwnElement
  <1>3. /\ a(0) = <<>> /\ \A n \in 0..N : a(n) \in Seq(Item)
        /\ \A n \in 1..N : a(n) = IF x[n] = NA THEN a(n - 1) ELSE Append(a(n - 1), x[n])
    <2>1. \A n \in 1..N : x[n] # NA => x[n] \in Item
      BY StreamLength DEF Valid
    <2>2. /\ Kept(x, x) \in [0..N -> Seq(Item)] /\ Kept(x, x)[0] = <<>>
          /\ \A n \in 1..N : Kept(x, x)[n] = IF x[n] = NA THEN Kept(x, x)[n - 1]
                                             ELSE Append(Kept(x, x)[n - 1], x[n])
      BY <1>1, <2>1, KeptDef
    <2> QED BY <2>2
  <1>4. Len(w) # 1 =>
          /\ b(0) = <<>> /\ \A n \in 0..N : b(n) \in Seq(Weight)
          /\ \A n \in 1..N : b(n) = IF x[n] = NA THEN b(n - 1) ELSE Append(b(n - 1), w[n])
    <2>1. Len(w) # 1 => \A n \in 1..N : x[n] # NA => w[n] \in Weight
      BY DEF Valid
    <2>2. Len(w) # 1 =>
          /\ Kept(w, x) \in [0..N -> Seq(Weight)] /\ Kept(w, x)[0] = <<>>
          /\ \A n \in 1..N : Kept(w, x)[n] = IF x[n] = NA THEN Kept(w, x)[n - 1]
                                             ELSE Append(Kept(w, x)[n - 1], w[n])
      BY <1>1, <2>1, KeptDef
    <2> QED BY <2>2
  <1> HIDE DEF N, g, a, b, v
  <1>5. 0 \in G
    BY <1>1, <1>3, <1>4
  <1>6. ASSUME NEW n \in 1..N, n - 1 \in G PROVE n \in G
    <2>1. n - 1 \in 0..N /\ n \in 0..N /\ P(n - 1)
      BY <1>1, <1>6
    <2>2. CASE x[n] = NA
      <3>1. g(n) = g(n - 1) /\ a(n) = a(n - 1) /\ (Len(w) # 1 => b(n) = b(n - 1))
        BY <1>1, <1>3, <1>4, <2>2
      <3> QED BY <2>1, <3>1
    <2>3. CASE x[n] # NA
      <3>1. /\ g(n) = Append(g(n - 1), v[n]) /\ a(n) = Append(a(n - 1), x[n])
            /\ Len(w) # 1 => b(n) = Append(b(n - 1), w[n])
        BY <1>1, <1>3, <1>4, <2>3
      <3>2. /\ g(n - 1) \in Seq(Element) /\ a(n - 1) \in Seq(Item)
            /\ Len(w) # 1 => b(n - 1) \in Seq(Weight)
        BY <1>1, <1>3, <1>4, <2>1
      <3>3. Len(g(n)) = Len(g(n - 1)) + 1 /\ Len(a(n)) = Len(g(n))
        BY <2>1, <3>1, <3>2
      <3>4. Len(w) # 1 => Len(b(n)) = Len(g(n))
        BY <2>1, <3>1, <3>2, <3>3
      <3>5. ASSUME NEW i \in 1..Len(g(n))
            PROVE  g(n)[i] = [item |-> a(n)[i],
                              weight |-> IF Len(w) = 1 THEN w[1] ELSE b(n)[i]]
        <4>1. CASE i = Len(g(n))
          <5>1. g(n)[i] = v[n] /\ a(n)[i] = x[n] /\ (Len(w) # 1 => b(n)[i] = w[n])
            BY <2>1, <3>1, <3>2, <3>3, <3>4, <4>1
          <5> QED BY <1>2, <5>1
        <4>2. CASE i # Len(g(n))
          <5>1. i \in 1..Len(g(n - 1))
            BY <3>2, <3>3, <4>2
          <5>2. /\ g(n)[i] = g(n - 1)[i] /\ a(n)[i] = a(n - 1)[i]
                /\ Len(w) # 1 => b(n)[i] = b(n - 1)[i]
            <6>1. g(n)[i] = g(n - 1)[i]
              BY <3>1, <3>2, <5>1
            <6>2. i \in 1..Len(a(n - 1)) /\ a(n)[i] = a(n - 1)[i]
              BY <2>1, <3>1, <3>2, <5>1
            <6>3. Len(w) # 1 => b(n)[i] = b(n - 1)[i]
              <7> SUFFICES ASSUME Len(w) # 1 PROVE b(n)[i] = b(n - 1)[i]
                OBVIOUS
              <7>1. i \in 1..Len(b(n - 1))
                BY <2>1, <5>1
              <7>2. b(n - 1) \in Seq(Weight) /\ b(n) = Append(b(n - 1), w[n])
                BY <3>1, <3>2
              <7> QED BY <7>1, <7>2
            <6> QED BY <6>1, <6>2, <6>3
          <5> QED BY <2>1, <5>1, <5>2
        <4> QED BY <4>1, <4>2
      <3> QED BY <2>1, <3>3, <3>4, <3>5
    <2> QED BY <2>2, <2>3
  <1>7. 0..N \subseteq G
    <2> HIDE DEF G
    <2> QED BY <1>1, <1>5, <1>6, UptoInduction
  <1> QED BY <1>3, <1>4, <1>7 DEF N, g, a, b

\* No kept element has a weight that the native loop would refuse.
LEMMA GivenWeight ==
  ASSUME NEW x, NEW w, Valid(x, w)
  PROVE  \A n \in 0..Len(x) : \A i \in 1..Len(Given(x, w, n)) : Given(x, w, n)[i].weight \in Nat
  <1> DEFINE N == Len(x)
             g(n) == Given(x, w, n)
             G == {n \in 0..N : \A i \in 1..Len(g(n)) : g(n)[i].weight \in Nat}
  <1>1. /\ N \in Nat /\ g(0) = <<>>
        /\ \A n \in 0..N : g(n) \in Seq(Element)
        /\ \A n \in 1..N : g(n) = IF x[n] = NA THEN g(n - 1) ELSE Append(g(n - 1), Own(x, w)[n])
    BY GivenDef, StreamLength DEF Valid
  <1>2. \A n \in 1..N : Own(x, w)[n].weight \in Nat /\ (x[n] # NA => Own(x, w)[n] \in Element)
    BY OwnElement
  <1> HIDE DEF N, g
  <1>3. 0 \in G
    BY <1>1
  <1>4. ASSUME NEW n \in 1..N, n - 1 \in G PROVE n \in G
    <2>1. n - 1 \in 0..N /\ n \in 0..N /\ g(n - 1) \in Seq(Element)
      BY <1>1, <1>4
    <2>2. \A i \in 1..Len(g(n - 1)) : g(n - 1)[i].weight \in Nat
      BY <1>4
    <2>3. CASE x[n] = NA
      BY <1>1, <2>1, <2>2, <2>3
    <2>4. CASE x[n] # NA
      <3>1. g(n) = Append(g(n - 1), Own(x, w)[n]) /\ Own(x, w)[n] \in Element
        BY <1>1, <1>2, <2>4
      <3>2. ASSUME NEW i \in 1..Len(g(n)) PROVE g(n)[i].weight \in Nat
        <4>1. CASE i = Len(g(n))
          <5>1. g(n)[i] = Own(x, w)[n]
            BY <2>1, <3>1, <4>1
          <5> QED BY <1>2, <5>1
        <4>2. CASE i # Len(g(n))
          <5>1. i \in 1..Len(g(n - 1)) /\ g(n)[i] = g(n - 1)[i]
            BY <2>1, <3>1, <4>2
          <5> QED BY <2>2, <5>1
        <4> QED BY <4>1, <4>2
      <3> QED BY <2>1, <3>2
    <2> QED BY <2>3, <2>4
  <1>5. 0..N \subseteq G
    <2> HIDE DEF G
    <2> QED BY <1>1, <1>3, <1>4, UptoInduction
  <1> QED BY <1>5 DEF N, g

\* A prefix that grows by one element.
LEMMA SubSeqGrows ==
  ASSUME NEW S, NEW s \in Seq(S), NEW i \in Nat, i + 1 \in 1..Len(s)
  PROVE  SubSeq(s, 1, i + 1) = Append(SubSeq(s, 1, i), s[i + 1])
  <1>1. s[i + 1] \in S
    OBVIOUS
  <1>2. SubSeq(s, 1, i) \in Seq(S) /\ Len(SubSeq(s, 1, i)) = i
    OBVIOUS
  <1>3. /\ SubSeq(s, 1, i + 1) \in Seq(S) /\ Len(SubSeq(s, 1, i + 1)) = i + 1
        /\ Append(SubSeq(s, 1, i), s[i + 1]) \in Seq(S)
        /\ Len(Append(SubSeq(s, 1, i), s[i + 1])) = i + 1
    BY <1>1, <1>2
  <1>4. ASSUME NEW k \in 1..i + 1
        PROVE  SubSeq(s, 1, i + 1)[k] = Append(SubSeq(s, 1, i), s[i + 1])[k]
    <2>1. CASE k = i + 1
      BY <1>2, <2>1
    <2>2. CASE k # i + 1
      <3>1. k \in 1..i
        BY <2>2
      <3>2. SubSeq(s, 1, i + 1)[k] = s[k] /\ SubSeq(s, 1, i)[k] = s[k]
        BY <3>1
      <3> QED BY <1>1, <1>2, <3>1, <3>2
    <2> QED BY <2>1, <2>2
  <1> QED BY <1>3, <1>4, SeqEqual

\* What the native loop of a filtering class runs over, ...
LEMMA FedFiltered ==
  ASSUME NEW x, NEW w, Valid(x, w), NEW c \in Weighted \cup Freezing
  PROVE  Fed(c, x, w) = Given(x, w, Len(x))
  <1> DEFINE N == Len(x)
             g == Given(x, w, N)
             a == Keep(x, x)
             b == KeptWeights(w, x)
  <1>1. N \in Nat /\ g \in Seq(Element)
    <2>1. N \in Nat /\ N \in 0..N
      BY StreamLength DEF Valid
    <2> QED BY <2>1, GivenDef
  <1>2. /\ a \in Seq(Item) /\ Len(a) = Len(g)
        /\ Len(w) = 1 => b = w
        /\ Len(w) # 1 => b = Keep(w, x) /\ b \in Seq(Weight) /\ Len(b) = Len(g)
        /\ \A i \in 1..Len(g) :
             g[i] = [item |-> a[i], weight |-> IF Len(w) = 1 THEN w[1] ELSE b[i]]
    <2>1. Len(w) \in Nat /\ Len(w) > 0
      BY DEF Valid
    <2>2. b = IF Len(w) = 1 THEN w ELSE Keep(w, x)
      BY <2>1 DEF KeptWeights
    <2>3. N \in 0..N
      BY <1>1
    <2> QED BY <2>2, <2>3, KeptTogether DEF Keep
  <1>3. Fed(c, x, w) = [i \in 1..Len(g) |-> [item |-> a[i], weight |-> b[((i - 1) % Len(b)) + 1]]]
    BY <1>2 DEF Fed, Recycled
  <1> HIDE DEF g, a, b
  <1>4. ASSUME NEW i \in 1..Len(g)
        PROVE  b[((i - 1) % Len(b)) + 1] = IF Len(w) = 1 THEN w[1] ELSE b[i]
    <2>1. CASE Len(w) = 1
      <3>1. (i - 1) % 1 = 0
        BY <1>1
      <3>2. b = w /\ Len(b) = 1
        BY <1>2, <2>1
      <3>3. ((i - 1) % Len(b)) + 1 = 1
        BY <3>1, <3>2
      <3> QED BY <2>1, <3>2, <3>3
    <2>2. CASE Len(w) # 1
      <3>1. (i - 1) % Len(g) = i - 1
        BY <1>1
      <3> QED BY <1>1, <1>2, <2>2, <3>1
    <2> QED BY <2>1, <2>2
  <1>5. Fed(c, x, w) = [i \in 1..Len(g) |-> g[i]]
    BY <1>2, <1>3, <1>4
  <1> QED BY <1>1, <1>5 DEF g

\* ... and that of one that leaves missing values to the sketch.
LEMMA FedWhole ==
  ASSUME NEW x, NEW w, Valid(x, w), w = << 1 >>, NEW c, c \notin Weighted \cup Freezing
  PROVE  Fed(c, x, w) = Own(x, w) /\ DOMAIN Own(x, w) = 1..Len(x)
  <1>1. DOMAIN x = 1..Len(x) /\ Len(x) \in Nat
    BY StreamLength DEF Valid
  <1>2. \A i \in 1..Len(x) : (i - 1) % 1 = 0
    BY <1>1
  <1>3. Len(w) = 1
    OBVIOUS
  <1> QED BY <1>1, <1>2, <1>3 DEF Fed, Recycled, Own

\* What the first i steps of the native loop absorb.
Absorbed(c, x, w, i) ==
  IF c \in Weighted \cup Freezing THEN SubSeq(Given(x, w, Len(x)), 1, i) ELSE Given(x, w, i)

LEMMA LoopEnds ==
  ASSUME NEW x, NEW w, Valid(x, w), NEW c, Takes(c, w)
  PROVE  /\ Len(Fed(c, x, w)) \in Nat
         /\ \A i \in 0..Len(Fed(c, x, w)) : Absorbed(c, x, w, i) \in Seq(Element)
         /\ Absorbed(c, x, w, 0) = <<>>
         /\ Absorbed(c, x, w, Len(Fed(c, x, w))) = Given(x, w, Len(x))
  <1>1. /\ Len(x) \in Nat /\ Given(x, w, 0) = <<>>
        /\ \A n \in 0..Len(x) : Given(x, w, n) \in Seq(Element)
    BY GivenDef, StreamLength DEF Valid
  <1>2. CASE c \in Weighted \cup Freezing
    <2> DEFINE g == Given(x, w, Len(x))
    <2>1. Fed(c, x, w) = g
      BY <1>2, FedFiltered
    <2>2. g \in Seq(Element)
      BY <1>1
    <2>3. \A i \in 0..Len(g) : SubSeq(g, 1, i) \in Seq(Element)
      BY <2>2
    <2>4. SubSeq(g, 1, 0) = <<>> /\ SubSeq(g, 1, Len(g)) = g
      BY <2>2
    <2> HIDE DEF g
    <2>5. \A i : Absorbed(c, x, w, i) = SubSeq(g, 1, i)
      BY <1>2 DEF Absorbed, g
    <2> QED BY <2>1, <2>2, <2>3, <2>4, <2>5, SMTT(30) DEF g
  <1>3. CASE c \notin Weighted \cup Freezing
    <2>1. w = <<1>>
      BY <1>3 DEF Takes
    <2>2. Len(Fed(c, x, w)) = Len(x)
      BY <1>1, <1>3, <2>1, FedWhole
    <2> QED BY <1>1, <1>3, <2>2 DEF Absorbed
  <1> QED BY <1>2, <1>3

\* One step absorbs the next element unless it is missing.
LEMMA LoopStep ==
  ASSUME NEW x, NEW w, Valid(x, w), NEW c, Takes(c, w),
         NEW i \in Nat, i < Len(Fed(c, x, w))
  PROVE  LET e == Fed(c, x, w)[i + 1] IN
         /\ e.weight \in Nat
         /\ e.item # NA => e \in Element
         /\ Absorbed(c, x, w, i + 1) =
              IF e.item = NA THEN Absorbed(c, x, w, i) ELSE Append(Absorbed(c, x, w, i), e)
  <1> DEFINE e == Fed(c, x, w)[i + 1]
  <1>1. Len(x) \in Nat
    BY StreamLength DEF Valid
  <1>2. CASE c \in Weighted \cup Freezing
    <2> DEFINE g == Given(x, w, Len(x))
    <2>1. Fed(c, x, w) = g
      BY <1>2, FedFiltered
    <2>2. g \in Seq(Element) /\ i + 1 \in 1..Len(g)
      <3>1. Len(x) \in 0..Len(x)
        BY <1>1
      <3> QED BY <2>1, <3>1, GivenDef
    <2>3. e = g[i + 1] /\ e \in Element
      BY <2>1, <2>2
    <2>4. e.item # NA
      BY <2>3, SketchObjectAssumption DEF Element
    <2>5. e.weight \in Nat
      <3>1. Len(x) \in 0..Len(x)
        BY <1>1
      <3>2. \A k \in 1..Len(g) : g[k].weight \in Nat
        BY <3>1, GivenWeight
      <3> QED BY <2>2, <2>3, <3>2
    <2>6. SubSeq(g, 1, i + 1) = Append(SubSeq(g, 1, i), g[i + 1])
      BY <2>2, SubSeqGrows
    <2> QED BY <1>2, <2>3, <2>4, <2>5, <2>6 DEF Absorbed
  <1>3. CASE c \notin Weighted \cup Freezing
    <2>1. w = <<1>>
      BY <1>3 DEF Takes
    <2>2. Fed(c, x, w) = Own(x, w) /\ Len(Fed(c, x, w)) = Len(x)
      BY <1>1, <1>3, <2>1, FedWhole
    <2>3. i + 1 \in 1..Len(x) /\ (i + 1) - 1 = i
      BY <1>1, <2>2
    <2>4. e = Own(x, w)[i + 1] /\ e.item = x[i + 1]
      <3>1. \A n \in 1..Len(x) : Own(x, w)[n].item = x[n]
        BY OwnElement, ZenonT(30)
      <3> QED BY <2>2, <2>3, <3>1
    <2>5. e.weight \in Nat /\ (e.item # NA => e \in Element)
      <3>1. \A n \in 1..Len(x) : /\ Own(x, w)[n].weight \in Nat
                                 /\ x[n] # NA => Own(x, w)[n] \in Element
        BY OwnElement
      <3> HIDE DEF e
      <3> QED BY <2>3, <2>4, <3>1
    <2>6. Given(x, w, i + 1) = IF x[i + 1] = NA THEN Given(x, w, i)
                               ELSE Append(Given(x, w, i), Own(x, w)[i + 1])
      BY <2>3, GivenDef
    <2> HIDE DEF e
    <2> QED BY <1>3, <2>4, <2>5, <2>6 DEF Absorbed, e
  <1> QED BY <1>2, <1>3

\* A loop that was left in the middle has absorbed a proper prefix of the stream.
LEMMA LoopPrefix ==
  ASSUME NEW x, NEW w, Valid(x, w), NEW c, Takes(c, w),
         NEW i \in Nat, 0 < i, i < Len(Fed(c, x, w))
  PROVE  \E j \in 1..Len(x) - 1 : Absorbed(c, x, w, i) = Given(x, w, j)
  <1>1. Len(x) \in Nat /\ Given(x, w, 0) = <<>>
    BY GivenDef, StreamLength DEF Valid
  <1>2. CASE c \in Weighted \cup Freezing
    <2> DEFINE g == Given(x, w, Len(x))
    <2>1. Fed(c, x, w) = g
      BY <1>2, FedFiltered
    <2>2. g \in Seq(Element)
      <3>1. Len(x) \in 0..Len(x)
        BY <1>1
      <3> QED BY <3>1, GivenDef
    <2>3. i \in 0..Len(g)
      BY <2>1, <2>2
    <2>4. PICK j \in 0..Len(x) : Given(x, w, j) = SubSeq(g, 1, i)
      BY <2>3, GivenPrefix
    <2>5. Len(SubSeq(g, 1, i)) = i
      BY <2>2, <2>3
    <2>6. j # 0 /\ j # Len(x)
      BY <1>1, <2>1, <2>4, <2>5
    <2> QED BY <1>1, <1>2, <2>4, <2>6 DEF Absorbed
  <1>3. CASE c \notin Weighted \cup Freezing
    <2>1. w = <<1>>
      BY <1>3 DEF Takes
    <2>2. Len(Fed(c, x, w)) = Len(x)
      BY <1>1, <1>3, <2>1, FedWhole
    <2> QED BY <1>1, <1>3, <2>2 DEF Absorbed
  <1> QED BY <1>2, <1>3

----------------------------------------------------------------------------
(* Calls *)

\* A sketch with values of their types and seeds of its class.
WellTyped(s) ==
  /\ s \in Sketches
  /\ {s.seed, s.hashed} \subseteq SeedsOf(s.class)
  /\ s.compact => s.class \in Freezing

\* The sketch of a running update holds what it held before and what the loop
\* has absorbed so far.
CallInv ==
  /\ DOMAIN obj = Object \cup {Temp}
  /\ \A o \in Object \cup {Temp} : Bound(o) => WellTyped(obj[o])
  /\ Bound(Temp) => Running /\ call.on = Temp
  /\ outcome \in Outcome
  /\ Running =>
       LET s == obj[call.on] IN
       /\ call \in Calls /\ Bound(call.on) /\ outcome = "ok"
       /\ call.on # Temp => call.bind = call.on
       /\ Valid(call.x, call.w) /\ Takes(s.class, call.w)
       /\ call.i <= Len(Rest)
       /\ s.seen = call.before \o Absorbed(s.class, call.x, call.w, call.i)

\* Sketches are records of their fields, whichever of them a call replaces.
New(c, seed, live, b) ==
  [class |-> c, seed |-> seed, hashed |-> seed, live |-> live, compact |-> b, seen |-> <<>>]
Revived(s, live) == [s EXCEPT !.live = live]
Merged(s, seen, hashed, b) == [s EXCEPT !.seen = seen, !.hashed = hashed, !.compact = b]
Reread(s, seed, b) == [s EXCEPT !.seed = seed, !.compact = b]

LEMMA SketchFields ==
  ASSUME NEW s \in Sketches, NEW seed \in Seed, NEW b \in BOOLEAN, NEW seen \in Seq(Element)
  PROVE  LET t == Merged(s, seen, seed, b)
             u == Reread(s, seed, b)
         IN /\ t \in Sketches /\ t.class = s.class /\ t.seed = s.seed /\ t.hashed = seed
            /\ t.compact = b
            /\ u \in Sketches /\ u.class = s.class /\ u.seed = seed /\ u.hashed = s.hashed
            /\ u.compact = b
  BY DEF Sketches, Merged, Reread

LEMMA NewFields ==
  ASSUME NEW c \in Class, NEW seed \in Seed, NEW live \in BOOLEAN, NEW b \in BOOLEAN
  PROVE  LET s == New(c, seed, live, b)
         IN s \in Sketches /\ s.class = c /\ s.seed = seed /\ s.hashed = seed /\ s.compact = b
  BY DEF Sketches, New

LEMMA NewRevived ==
  ASSUME NEW c, NEW seed, NEW live, NEW revived, NEW b
  PROVE  Revived(New(c, seed, live, b), revived) = New(c, seed, revived, b)
  BY DEF New, Revived

LEMMA FreshTyped ==
  ASSUME NEW c \in Class, NEW seed \in SeedsOf(c)
  PROVE  WellTyped(Fresh(c, seed)) /\ WellTyped([Fresh(c, seed) EXCEPT !.live = FALSE])
  <1>1. seed \in Seed
    BY SketchObjectAssumption DEF SeedsOf
  <1>2. Fresh(c, seed) = New(c, seed, TRUE, FALSE)
    BY DEF Fresh, New
  <1>3. Revived(New(c, seed, TRUE, FALSE), FALSE) = New(c, seed, FALSE, FALSE)
    <2> DEFINE yes == TRUE
               no == FALSE
    <2> HIDE DEF yes, no
    <2>1. Revived(New(c, seed, yes, no), no) = New(c, seed, no, no)
      BY NewRevived
    <2> QED BY <2>1, Zenon DEF yes, no
  <1>4. [Fresh(c, seed) EXCEPT !.live = FALSE] = New(c, seed, FALSE, FALSE)
    BY <1>2, <1>3, Zenon DEF Revived
  <1>5. ASSUME NEW live \in BOOLEAN PROVE WellTyped(New(c, seed, live, FALSE))
    <2> DEFINE b == FALSE
    <2>1. b \in BOOLEAN /\ ~b
      OBVIOUS
    <2> HIDE DEF b
    <2>2. WellTyped(New(c, seed, live, b))
      BY <1>1, <2>1, NewFields DEF WellTyped
    <2> QED BY <2>2 DEF b
  <1> QED BY <1>2, <1>4, <1>5, Zenon

LEMMA TypedBound ==
  ASSUME NEW s, WellTyped(s)
  PROVE  s # Unbound
  BY SentinelAssumption DEF WellTyped

LEMMA AppendTyped ==
  ASSUME NEW s, WellTyped(s), NEW seen \in Seq(Element)
  PROVE  WellTyped([s EXCEPT !.seen = seen])
  BY DEF WellTyped, Sketches

LEMMA MergedTyped ==
  ASSUME NEW s, WellTyped(s), NEW t, WellTyped(t)
  PROVE  WellTyped([s EXCEPT !.seen = s.seen \o t.seen, !.hashed = s.seed,
                             !.compact = s.class \in Freezing])
  <1> DEFINE b == s.class \in Freezing
             q == s.seen \o t.seen
  <1>1. s \in Sketches /\ s.seed \in Seed /\ q \in Seq(Element) /\ b \in BOOLEAN
    BY DEF WellTyped, Sketches
  <1> HIDE DEF b, q
  <1>2. WellTyped(Merged(s, q, s.seed, b))
    <2> DEFINE u == Merged(s, q, s.seed, b)
    <2>1. /\ u \in Sketches /\ u.class = s.class /\ u.seed = s.seed /\ u.hashed = s.seed
          /\ u.compact = b
      BY <1>1, SketchFields
    <2> HIDE DEF u
    <2>2. WellTyped(u)
      BY <2>1 DEF WellTyped, b
    <2> QED BY <2>2 DEF u
  <1> QED BY <1>2 DEF Merged, b, q

LEMMA RestoredTyped ==
  ASSUME NEW t, WellTyped(t), NEW seed \in SeedsOf(t.class)
  PROVE  WellTyped(Restored(t, seed))
  <1> DEFINE b == t.class \in Freezing
  <1>1. t \in Sketches /\ seed \in Seed /\ t.seen \in Seq(Element) /\ b \in BOOLEAN
    BY SketchObjectAssumption DEF WellTyped, Sketches, SeedsOf
  <1> HIDE DEF b
  <1>2. WellTyped(Reread(t, seed, b))
    <2> DEFINE u == Reread(t, seed, b)
    <2>1. /\ u \in Sketches /\ u.class = t.class /\ u.seed = seed /\ u.hashed = t.hashed
          /\ u.compact = b
      BY <1>1, SketchFields
    <2> HIDE DEF u
    <2>2. WellTyped(u)
      BY <2>1 DEF WellTyped, b
    <2> QED BY <2>2 DEF u
  <1> QED BY <1>2 DEF Reread, b, Restored

\* The arguments that a call takes and the validators let through.
LEMMA ArgumentsValid ==
  ASSUME NEW x \in Streams, NEW w \in WeightArgs(Len(x)), NEW c, Takes(c, w),
         c \in Weighted => CheckWeight(w, Len(x))
  PROVE  Valid(x, w)
  <1>1. w \in Seq(Weight)
    <2>1. Len(x) \in Nat /\ 1 \in Weight /\ <<1>> \in Seq(Weight)
      BY SketchObjectAssumption, StreamLength
    <2>2. w = <<1>> \/ w \in [1..Len(x) -> Weight] \/ w \in [1..1 -> Weight]
      BY DEF WeightArgs
    <2> QED BY <2>1, <2>2
  <1>2. CASE c \in Weighted
    BY <1>1, <1>2 DEF Valid, CheckWeight
  <1>3. CASE c \notin Weighted
    <2>1. w = <<1>>
      BY <1>3 DEF Takes
    <2> QED BY <1>1, <2>1 DEF Valid
  <1> QED BY <1>2, <1>3

LEMMA InitCalls ==
  ASSUME Init
  PROVE  CallInv
  BY DEF Init, CallInv, Bound, Running, Outcome

LEMMA EndsCalls ==
  ASSUME CallInv, ~Running, NEW how \in Outcome, Ends(how)
  PROVE  CallInv'
  BY DEF CallInv, Ends, Bound, Running

\* An object is bound to a sketch, no call runs.
LEMMA BindCalls ==
  ASSUME CallInv, ~Running, NEW o \in Object, NEW s, WellTyped(s),
         obj' = [obj EXCEPT ![o] = s], UNCHANGED call, outcome' = "ok"
  PROVE  CallInv'
  BY TempApart DEF CallInv, Bound, Running, Outcome

LEMMA CreateCalls ==
  ASSUME CallInv, NEW o \in Object, NEW c \in Class, NEW seed \in SeedsOf(c), Create(o, c, seed)
  PROVE  CallInv'
  BY FreshTyped, BindCalls DEF Create

\* A loop starts with nothing absorbed.
LEMMA StartCalls ==
  ASSUME CallInv, ~Running, NEW o \in Object \cup {Temp}, NEW b \in Object, o # Temp => b = o,
         NEW s, WellTyped(s), NEW x \in Streams, NEW w, Valid(x, w), Takes(s.class, w),
         obj' = [obj EXCEPT ![o] = s],
         call' = [on |-> o, x |-> x, w |-> w, i |-> 0, before |-> s.seen, bind |-> b],
         outcome' = "ok"
  PROVE  CallInv'
  <1>1. DOMAIN obj' = Object \cup {Temp} /\ obj'[o] = s
    BY DEF CallInv
  <1>2. /\ call'.on = o /\ call'.x = x /\ call'.w = w /\ call'.i = 0
        /\ call'.before = s.seen /\ call'.bind = b
    OBVIOUS
  <1>3. s.seen \in Seq(Element)
    BY DEF WellTyped, Sketches
  <1>4. call' \in Calls
    BY <1>3 DEF Calls, Valid
  <1>5. Running'
    BY <1>4, SentinelAssumption DEF Running
  <1>6. s # Unbound /\ Bound(o)'
    BY <1>1, TypedBound DEF Bound
  <1>7. \A p \in Object \cup {Temp} : Bound(p)' => WellTyped(obj'[p])
    BY DEF CallInv, Bound
  <1>8. Bound(Temp)' => o = Temp
    BY DEF CallInv, Bound
  <1>9. Rest' = Fed(s.class, x, w)
    BY <1>1, <1>2 DEF Rest
  <1>10. 0 <= Len(Rest') /\ s.seen = s.seen \o Absorbed(s.class, x, w, 0)
    <2>1. Len(Fed(s.class, x, w)) \in Nat /\ Absorbed(s.class, x, w, 0) = <<>>
      BY LoopEnds
    <2>2. s.seen \o <<>> = s.seen
      BY <1>3, ConcatEmptySeq
    <2>3. 0 <= Len(Rest')
      BY <1>9, <2>1
    <2>4. s.seen = s.seen \o Absorbed(s.class, x, w, 0)
      BY <2>1, <2>2, Zenon
    <2> QED BY <2>3, <2>4
  <1> QED BY <1>1, <1>2, <1>4, <1>5, <1>6, <1>7, <1>8, <1>10 DEF CallInv, Outcome

LEMMA ConstructCalls ==
  ASSUME CallInv, NEW o \in Object, NEW c \in Class, NEW seed \in SeedsOf(c),
         NEW x \in Streams, NEW w \in WeightArgs(Len(x)), Construct(o, c, seed, x, w)
  PROVE  CallInv'
  <1>1. ~Running /\ Takes(c, w)
    BY DEF Construct
  <1>2. CASE Ends("classed")
    BY <1>1, <1>2, EndsCalls DEF Outcome
  <1>3. CASE /\ c \in Weighted => CheckWeight(w, Len(x))
             /\ obj' = [obj EXCEPT ![Temp] = Fresh(c, seed)]
             /\ call' = [on |-> Temp, x |-> x, w |-> w, i |-> 0, before |-> <<>>, bind |-> o]
             /\ outcome' = "ok"
    <2> DEFINE s == Fresh(c, seed)
    <2>1. s.class = c /\ s.seen = <<>>
      BY DEF Fresh
    <2>2. WellTyped(s) /\ Valid(x, w)
      BY <1>1, <1>3, FreshTyped, ArgumentsValid
    <2> HIDE DEF s
    <2> QED BY <1>1, <1>3, <2>1, <2>2, StartCalls DEF s
  <1> QED BY <1>2, <1>3 DEF Construct

LEMMA UpdateCalls ==
  ASSUME CallInv, NEW o \in Object, NEW x \in Streams, NEW w \in WeightArgs(Len(x)),
         Update(o, x, w)
  PROVE  CallInv'
  <1>1. ~Running /\ Bound(o) /\ Takes(obj[o].class, w)
    BY DEF Update
  <1>2. ASSUME NEW how \in Outcome, Ends(how) PROVE CallInv'
    BY <1>1, <1>2, EndsCalls
  <1>3. CASE /\ obj[o].class \in Weighted => CheckWeight(w, Len(x))
             /\ Begin(o, obj[o], x, w)
    <2>1. WellTyped(obj[o]) /\ Valid(x, w)
      BY <1>1, <1>3, ArgumentsValid DEF CallInv
    <2>2. o # Temp
      BY TempApart
    <2> QED BY <1>1, <1>3, <2>1, <2>2, StartCalls DEF Begin
  <1> QED BY <1>2, <1>3 DEF Update, Outcome

\* A call ends: what was under construction is bound or dropped.
LEMMA ReturnCalls ==
  ASSUME CallInv, Running, NEW how \in Outcome, Return(how)
  PROVE  CallInv'
  <1>1. ~Running' /\ outcome' = how
    BY DEF Return, Running
  <1>2. CASE call.on # Temp
    BY <1>1, <1>2 DEF Return, CallInv, Bound
  <1>3. CASE call.on = Temp
    <2>1. WellTyped(obj[Temp]) /\ call.bind \in Object /\ call.bind # Temp
      BY <1>3, TempApart DEF CallInv, Calls
    <2>2. obj' = [obj EXCEPT ![Temp] = Unbound,
                             ![call.bind] = IF how = "ok" THEN obj[Temp] ELSE @]
      BY <1>3 DEF Return
    <2>3. DOMAIN obj' = Object \cup {Temp} /\ obj'[Temp] = Unbound
      BY <2>1, <2>2 DEF CallInv
    <2>4. obj'[call.bind] = IF how = "ok" THEN obj[Temp] ELSE obj[call.bind]
      BY <2>1, <2>2 DEF CallInv
    <2>5. \A p \in Object \ {call.bind} : obj'[p] = obj[p]
      BY <2>2, TempApart DEF CallInv
    <2> QED BY <1>1, <2>1, <2>3, <2>4, <2>5 DEF CallInv, Bound
  <1> QED BY <1>2, <1>3

LEMMA ConcatAppend ==
  ASSUME NEW s \in Seq(Element), NEW t \in Seq(Element), NEW e \in Element, NEW seen, seen = s \o t
  PROVE  Append(seen, e) = s \o Append(t, e) /\ Append(seen, e) \in Seq(Element)
  <1>1. /\ Append(s \o t, e) = (s \o t) \o <<e>> /\ Append(t, e) = t \o <<e>>
        /\ <<e>> \in Seq(Element) /\ Append(s \o t, e) \in Seq(Element)
    <2>1. s \o t \in Seq(Element) /\ <<e>> \in Seq(Element)
      OBVIOUS
    <2>2. Append(t, e) = t \o <<e>>
      BY AppendIsConcat
    <2>3. Append(s \o t, e) = (s \o t) \o <<e>> /\ Append(s \o t, e) \in Seq(Element)
      BY <2>1, AppendIsConcat
    <2> QED BY <2>1, <2>2, <2>3
  <1>2. (s \o t) \o <<e>> = s \o (t \o <<e>>)
    BY <1>1, ConcatAssociative
  <1> QED BY <1>1, <1>2

\* What holds while a loop runs, at its next element.
LEMMA RunningLoop ==
  ASSUME CallInv, Running
  PROVE  LET s == obj[call.on]
             taken == Absorbed(s.class, call.x, call.w, call.i)
         IN /\ call.on \in Object \cup {Temp} /\ call.bind \in Object /\ call.i \in Nat
            /\ WellTyped(s) /\ Valid(call.x, call.w) /\ Takes(s.class, call.w)
            /\ Len(Rest) \in Nat /\ call.i \in 0..Len(Rest)
            /\ call.before \in Seq(Element) /\ taken \in Seq(Element)
            /\ s.seen = call.before \o taken
  <1> DEFINE s == obj[call.on]
  <1>1. /\ call.on \in Object \cup {Temp} /\ call.bind \in Object /\ call.i \in Nat
        /\ call.before \in Seq(Element)
    BY DEF CallInv, Calls
  <1>2. /\ WellTyped(s) /\ Valid(call.x, call.w) /\ Takes(s.class, call.w)
        /\ call.i <= Len(Rest)
        /\ s.seen = call.before \o Absorbed(s.class, call.x, call.w, call.i)
    BY <1>1 DEF CallInv
  <1>3. /\ Len(Rest) \in Nat
        /\ \A i \in 0..Len(Rest) : Absorbed(s.class, call.x, call.w, i) \in Seq(Element)
    BY <1>2, LoopEnds DEF Rest
  <1>4. call.i \in 0..Len(Rest)
    BY <1>1, <1>2, <1>3
  <1> QED BY <1>1, <1>2, <1>3, <1>4

\* The validators are at least as strict as the native loop.
LEMMA NoElementRefused ==
  ASSUME CallInv, Running, call.i < Len(Rest)
  PROVE  /\ Rest[call.i + 1].weight \in Nat
         /\ ~ (Rest[call.i + 1].weight < 0)
         /\ Rest[call.i + 1].item # NA => Rest[call.i + 1] \in Element
  <1>1. Rest[call.i + 1].weight \in Nat /\ (Rest[call.i + 1].item # NA => Rest[call.i + 1] \in Element)
    BY RunningLoop, LoopStep DEF Rest
  <1> QED BY <1>1

LEMMA CallStep ==
  ASSUME NEW k \in Calls
  PROVE  LET l == [k EXCEPT !.i = k.i + 1] IN
         /\ l \in Calls /\ l.i = k.i + 1 /\ l.on = k.on /\ l.x = k.x /\ l.w = k.w
         /\ l.before = k.before /\ l.bind = k.bind
  BY DEF Calls

LEMMA AbsorbCalls ==
  ASSUME CallInv, Absorb
  PROVE  CallInv'
  <1> DEFINE e == Rest[call.i + 1]
             s == obj[call.on]
             x == call.x
             w == call.w
             c == s.class
             taken(i) == Absorbed(c, x, w, i)
  <1>1. Running /\ call.i < Len(Rest)
    BY DEF Absorb
  <1>2. /\ call.on \in Object \cup {Temp} /\ call.bind \in Object /\ call.i \in Nat
        /\ WellTyped(s) /\ Valid(x, w) /\ Takes(c, w)
        /\ Len(Rest) \in Nat /\ call.before \in Seq(Element) /\ taken(call.i) \in Seq(Element)
        /\ s.seen = call.before \o taken(call.i)
    BY <1>1, RunningLoop
  <1>3. /\ ~ (e.weight < 0)
        /\ e.item # NA => e \in Element
        /\ taken(call.i + 1) = IF e.item = NA THEN taken(call.i) ELSE Append(taken(call.i), e)
    BY <1>1, <1>2, NoElementRefused, LoopStep DEF Rest
  <1>4. /\ call' = [call EXCEPT !.i = @ + 1] /\ outcome' = outcome
        /\ obj' = IF e.item = NA THEN obj ELSE [obj EXCEPT ![call.on].seen = Append(@, e)]
    BY <1>3 DEF Absorb
  <1>5. /\ call' \in Calls /\ call'.i = call.i + 1 /\ call'.on = call.on /\ call'.x = x
        /\ call'.w = w /\ call'.before = call.before /\ call'.bind = call.bind
    <2>1. call \in Calls
      BY <1>1 DEF CallInv
    <2> QED BY <1>4, <2>1, CallStep
  <1>6. Running'
    BY <1>5, SentinelAssumption DEF Running
  <1> DEFINE t == IF e.item = NA THEN s ELSE [s EXCEPT !.seen = Append(s.seen, e)]
  <1>7. WellTyped(t) /\ t.class = c /\ t.seen = call.before \o taken(call.i + 1)
    <2> HIDE DEF e, taken
    <2>1. CASE e.item = NA
      BY <1>2, <1>3, <2>1
    <2>2. CASE e.item # NA
      <3> DEFINE q == Append(s.seen, e)
                 u == [s EXCEPT !.seen = q]
      <3>1. q \in Seq(Element) /\ q = call.before \o Append(taken(call.i), e)
        <4> DEFINE k == taken(call.i)
        <4>1. /\ e \in Element /\ s.seen = call.before \o k
              /\ call.before \in Seq(Element) /\ k \in Seq(Element)
          BY <1>2, <1>3, <2>2
        <4> HIDE DEF s, k
        <4>2. q \in Seq(Element) /\ q = call.before \o Append(k, e)
          BY <4>1, ConcatAppend, ZenonT(30)
        <4> QED BY <4>2 DEF k
      <3>2. u.class = c /\ u.seen = q
        BY <1>2 DEF WellTyped, Sketches
      <3>3. WellTyped(u)
        <4> HIDE DEF q
        <4> QED BY <1>2, <3>1, AppendTyped
      <3>4. t = u
        BY <2>2
      <3> HIDE DEF t, u
      <3> QED BY <1>3, <2>2, <3>1, <3>2, <3>3, <3>4
    <2> QED BY <2>1, <2>2
  <1>8. DOMAIN obj = Object \cup {Temp}
    BY DEF CallInv
  <1>9. /\ DOMAIN obj' = Object \cup {Temp} /\ obj'[call.on] = t
        /\ \A p \in Object \cup {Temp} : p # call.on => obj'[p] = obj[p]
    <2> HIDE DEF e
    <2>1. CASE e.item = NA
      BY <1>2, <1>4, <1>8, <2>1
    <2>2. CASE e.item # NA
      BY <1>2, <1>4, <1>8, <2>2
    <2> QED BY <2>1, <2>2
  <1> HIDE DEF t, e
  <1>10. Bound(call.on)'
    BY <1>5, <1>7, <1>9, TypedBound DEF Bound
  <1>11. \A p \in Object \cup {Temp} : Bound(p)' => WellTyped(obj'[p])
    BY <1>7, <1>9 DEF CallInv, Bound
  <1>12. Bound(Temp)' => call'.on = Temp
    BY <1>1, <1>5, <1>9 DEF CallInv, Bound
  <1>13. Rest' = Rest
    BY <1>5, <1>7, <1>9 DEF Rest
  <1>14. call'.i <= Len(Rest')
    BY <1>1, <1>2, <1>5, <1>13
  <1>15. call'.on # Temp => call'.bind = call'.on
    BY <1>1, <1>5 DEF CallInv
  <1>16. outcome = "ok"
    BY <1>1 DEF CallInv
  <1>17. /\ obj'[call'.on] = t
         /\ Valid(call'.x, call'.w) /\ Takes(t.class, call'.w)
         /\ t.seen = call'.before \o Absorbed(t.class, call'.x, call'.w, call'.i)
    <2>1. /\ call'.on = call.on /\ call'.x = call.x /\ call'.w = call.w
          /\ call'.before = call.before /\ call'.i = call.i + 1
      BY <1>5
    <2>2. /\ Valid(call.x, call.w) /\ Takes(t.class, call.w)
          /\ t.seen = call.before \o Absorbed(t.class, call.x, call.w, call.i + 1)
      BY <1>2, <1>7
    <2> QED BY <1>9, <2>1, <2>2
  <1> HIDE DEF s, x, w, c, taken
  <1> QED BY <1>4, <1>5, <1>6, <1>9, <1>10, <1>11, <1>12, <1>14, <1>15, <1>16, <1>17 DEF CallInv, Outcome

LEMMA MergeCalls ==
  ASSUME CallInv, NEW o \in Object, NEW p \in Object, Merge(o, p)
  PROVE  CallInv'
  <1> DEFINE s == obj[o]
             t == obj[p]
             u == [s EXCEPT !.seen = s.seen \o t.seen, !.hashed = s.seed,
                            !.compact = s.class \in Freezing]
  <1>1. ~Running /\ Bound(o) /\ Bound(p)
    BY DEF Merge
  <1>2. ASSUME NEW how \in Outcome, Ends(how) PROVE CallInv'
    BY <1>1, <1>2, EndsCalls
  <1>3. CASE /\ obj' = [obj EXCEPT ![o].seen = @ \o t.seen, ![o].hashed = s.seed,
                                   ![o].compact = s.class \in Freezing]
             /\ outcome' = "ok" /\ UNCHANGED call
    <2>1. WellTyped(u)
      BY <1>1, MergedTyped DEF CallInv
    <2>2. obj' = [obj EXCEPT ![o] = u]
      BY <1>3 DEF CallInv
    <2> HIDE DEF u
    <2> QED BY <1>1, <1>3, <2>1, <2>2, BindCalls
  <1> QED BY <1>2, <1>3 DEF Merge, Outcome

LEMMA RestoreCalls ==
  ASSUME CallInv, NEW o \in Object, NEW p \in Object, NEW c \in Class, NEW seed \in SeedsOf(c),
         Restore(o, p, c, seed)
  PROVE  CallInv'
  <1>1. ~Running /\ Bound(p)
    BY DEF Restore
  <1>2. ASSUME NEW how \in Outcome, Ends(how) PROVE CallInv'
    BY <1>1, <1>2, EndsCalls
  <1>3. CASE /\ Readable(obj[p], c, seed)
             /\ obj' = [obj EXCEPT ![o] = Restored(obj[p], seed)]
             /\ outcome' = "ok" /\ UNCHANGED call
    <2>1. WellTyped(obj[p]) /\ obj[p].class = c
      BY <1>1, <1>3 DEF CallInv, Readable
    <2>2. WellTyped(Restored(obj[p], seed))
      BY <2>1, RestoredTyped
    <2> QED BY <1>1, <1>3, <2>2, BindCalls
  <1> QED BY <1>2, <1>3 DEF Restore, Outcome

LEMMA ReadRDSCalls ==
  ASSUME CallInv, NEW o \in Object, NEW p \in Object, ReadRDS(o, p)
  PROVE  CallInv'
  <1> DEFINE s == [Fresh(obj[p].class, obj[p].seed) EXCEPT !.live = FALSE]
  <1>1. ~Running /\ WellTyped(obj[p])
    BY DEF ReadRDS, CallInv
  <1>2. obj[p].class \in Class /\ obj[p].seed \in SeedsOf(obj[p].class)
    BY <1>1 DEF WellTyped, Sketches
  <1>3. WellTyped(s)
    BY <1>2, FreshTyped
  <1>4. obj' = [obj EXCEPT ![o] = s] /\ outcome' = "ok" /\ UNCHANGED call
    BY DEF ReadRDS
  <1> HIDE DEF s
  <1> QED BY <1>1, <1>3, <1>4, BindCalls

LEMMA NextCalls ==
  ASSUME CallInv, [Next]_vars
  PROVE  CallInv'
  <1>1. CASE UNCHANGED vars
    BY <1>1 DEF vars, CallInv, Bound, Running, Rest
  <1>2. CASE Absorb
    BY <1>2, AbsorbCalls
  <1>3. CASE Interrupt \/ Finish
    BY <1>3, ReturnCalls DEF Interrupt, Finish, Outcome
  <1>4. ASSUME NEW o \in Object, NEW c \in Class, NEW seed \in SeedsOf(c),
               \/ Create(o, c, seed)
               \/ \E x \in Streams : \E w \in WeightArgs(Len(x)) : Construct(o, c, seed, x, w)
        PROVE  CallInv'
    BY <1>4, CreateCalls, ConstructCalls
  <1>5. ASSUME NEW o \in Object,
               \/ \E x \in Streams : \E w \in WeightArgs(Len(x)) : Update(o, x, w)
               \/ Display(o) \/ Query(o)
        PROVE  CallInv'
    <2>1. Display(o) \/ Query(o) => ~Running /\ \E how \in Outcome : Ends(how)
      BY DEF Display, Query, Outcome
    <2> QED BY <1>5, <2>1, UpdateCalls, EndsCalls
  <1>6. ASSUME NEW o \in Object, NEW p \in Object,
               \/ Merge(o, p)
               \/ \E c \in Class : \E seed \in SeedsOf(c) : Restore(o, p, c, seed)
               \/ ReadRDS(o, p)
        PROVE  CallInv'
    BY <1>6, MergeCalls, RestoreCalls, ReadRDSCalls
  <1> QED BY <1>1, <1>2, <1>3, <1>4, <1>5, <1>6 DEF Next

----------------------------------------------------------------------------
(* Steps *)

\* A running call only absorbs, is interrupted or finishes.
LEMMA RunningSteps ==
  ASSUME Running, Next
  PROVE  Absorb \/ Interrupt \/ Finish
  BY DEF Next, Create, Construct, Update, Display, Query, Merge, Restore, ReadRDS

\* Another call that begins with no loop running leaves the objects alone when
\* it fails.
LEMMA IdleFailures ==
  ASSUME ~Running, Next, outcome' \in {"classed", "native"}
  PROVE  UNCHANGED obj
  <1>1. \A how : Ends(how) => UNCHANGED obj
    BY DEF Ends
  <1>2. ~Absorb /\ ~Interrupt /\ ~Finish
    BY DEF Absorb, Interrupt, Finish
  <1>3. ASSUME NEW o \in Object, NEW c \in Class, NEW seed \in SeedsOf(c)
        PROVE  /\ ~Create(o, c, seed)
               /\ \A x \in Streams : \A w \in WeightArgs(Len(x)) :
                    Construct(o, c, seed, x, w) => UNCHANGED obj
    BY <1>1 DEF Create, Construct
  <1>4. ASSUME NEW o \in Object, NEW x \in Streams, NEW w \in WeightArgs(Len(x)), Update(o, x, w)
        PROVE  UNCHANGED obj
    <2>1. ~Begin(o, obj[o], x, w)
      BY DEF Begin
    <2> QED BY <1>1, <1>4, <2>1 DEF Update
  <1>5. ASSUME NEW o \in Object, Display(o) \/ Query(o) PROVE UNCHANGED obj
    BY <1>1, <1>5 DEF Display, Query
  <1>6. ASSUME NEW o \in Object, NEW p \in Object
        PROVE  /\ Merge(o, p) => UNCHANGED obj
               /\ \A c \in Class : \A seed \in SeedsOf(c) :
                    Restore(o, p, c, seed) => UNCHANGED obj
               /\ ~ReadRDS(o, p)
    BY <1>1 DEF Merge, Restore, ReadRDS
  <1> QED BY <1>2, <1>3, <1>4, <1>5, <1>6 DEF Next

\* No element is refused, so a running loop never fails.
LEMMA LoopNeverFails ==
  ASSUME CallInv, Running, Next
  PROVE  ~ (outcome' \in {"classed", "native"})
  <1>1. CASE Absorb
    <2>1. outcome' = outcome
      BY <1>1, NoElementRefused DEF Absorb
    <2>2. outcome = "ok"
      BY DEF CallInv
    <2> QED BY <2>1, <2>2
  <1>2. CASE Interrupt \/ Finish
    BY <1>2 DEF Interrupt, Finish, Return
  <1> QED BY <1>1, <1>2, RunningSteps

\* What a call that returns leaves in the variable it is for.
LEMMA ReturnedPrefix ==
  ASSUME CallInv, Running, Next, call' = Idle
  PROVE  LET result == obj'[call.bind] IN
         /\ outcome' = "ok" => result.seen = call.before \o Given(call.x, call.w, Len(call.x))
         /\ outcome' = "interrupted" =>
              IF call.on = Temp THEN result = obj[call.bind]
              ELSE \E j \in 1..Len(call.x) - 1 :
                     result.seen = call.before \o Given(call.x, call.w, j)
  <1> DEFINE s == obj[call.on]
             taken == Absorbed(s.class, call.x, call.w, call.i)
             result == obj'[call.bind]
  <1>1. /\ call.on \in Object \cup {Temp} /\ call.bind \in Object /\ call.i \in Nat
        /\ Valid(call.x, call.w) /\ Takes(s.class, call.w)
        /\ Len(Rest) \in Nat
        /\ s.seen = call.before \o taken
        /\ Rest = Fed(s.class, call.x, call.w)
    BY RunningLoop DEF Rest
  <1>2. call.on # Temp => call.bind = call.on
    BY DEF CallInv
  <1>3. ~Absorb
    <2> SUFFICES ASSUME Absorb PROVE FALSE
      OBVIOUS
    <2>1. call' = [call EXCEPT !.i = @ + 1] /\ call \in Calls
      BY NoElementRefused DEF Absorb, CallInv
    <2>2. call' \in Calls
      BY <2>1, CallStep
    <2> QED BY <2>2, SentinelAssumption
  <1>4. DOMAIN obj = Object \cup {Temp} /\ call.bind # Temp
    BY <1>1, TempApart DEF CallInv
  <1>5. CASE Finish
    <2>1. taken = Given(call.x, call.w, Len(call.x))
      BY <1>1, <1>5, LoopEnds DEF Finish
    <2>2. outcome' = "ok" /\ obj' = IF call.on # Temp THEN obj
                                    ELSE [obj EXCEPT ![Temp] = Unbound, ![call.bind] = obj[Temp]]
      BY <1>5 DEF Finish, Return
    <2>3. result = s
      BY <1>1, <1>2, <1>4, <2>2
    <2> HIDE DEF s, result
    <2> QED BY <1>1, <2>1, <2>2, <2>3 DEF result
  <1>6. CASE Interrupt
    <2>1. /\ outcome' = "interrupted" /\ 0 < call.i /\ call.i < Len(Rest)
          /\ obj' = IF call.on # Temp THEN obj
                    ELSE [obj EXCEPT ![Temp] = Unbound, ![call.bind] = @]
      BY <1>1, <1>6 DEF Interrupt, Return
    <2>2. PICK j \in 1..Len(call.x) - 1 : taken = Given(call.x, call.w, j)
      BY <1>1, <2>1, LoopPrefix
    <2>3. call.on = Temp => result = obj[call.bind]
      BY <1>1, <1>4, <2>1
    <2>4. call.on # Temp => result = s
      BY <1>2, <2>1
    <2> HIDE DEF s, result
    <2> QED BY <1>1, <2>1, <2>2, <2>3, <2>4 DEF result
  <1> QED BY <1>3, <1>5, <1>6, RunningSteps

----------------------------------------------------------------------------
(* Theorems about calls *)

\* Every sketch has values of its types and a running update has absorbed, in
\* order, what the loop has passed.
THEOREM CallInvariance == Spec => []CallInv
  <1>1. Init => CallInv
    BY InitCalls
  <1>2. CallInv /\ [Next]_vars => CallInv'
    BY NextCalls
  <1> QED BY <1>1, <1>2, PTL DEF Spec

\* Objects, the call in progress and outcomes keep their types and sketches the
\* seeds of their class; nothing is left under construction when no call runs.
THEOREM TypeCorrect == Spec => []TypeOK
  <1>1. CallInv => TypeOK
    <2> SUFFICES ASSUME CallInv PROVE TypeOK
      OBVIOUS
    <2>1. ASSUME NEW o \in DOMAIN obj, Bound(o)
          PROVE  /\ obj[o].class \in Class
                 /\ {obj[o].seed, obj[o].hashed} \subseteq SeedsOf(obj[o].class)
                 /\ obj[o].seen \in Seq(Element)
                 /\ obj[o].compact => obj[o].class \in Freezing
      BY <2>1 DEF CallInv, WellTyped, Sketches
    <2>2. Running => Bound(call.on) /\ call.i \in 0..Len(Rest)
      BY RunningLoop DEF CallInv
    <2> QED BY <2>1, <2>2 DEF TypeOK, CallInv
  <1> QED BY <1>1, CallInvariance, PTL

\* An update absorbs each given element once, in order and with its own weight,
\* whatever the stream: missing values are dropped from both vectors alike; an
\* interrupted update has absorbed a proper prefix, and an interrupted
\* constructor binds nothing.
THEOREM UpdatesAbsorbPrefixes == Spec => UpdateAbsorbsPrefix
  <1>1. CallInv /\ [Next]_vars =>
          [Running /\ call' = Idle =>
             LET result == obj'[call.bind] IN
             /\ outcome' = "ok" => result.seen = call.before \o Given(call.x, call.w, Len(call.x))
             /\ outcome' = "interrupted" =>
                  IF call.on = Temp THEN result = obj[call.bind]
                  ELSE \E j \in 1..Len(call.x) - 1 :
                         result.seen = call.before \o Given(call.x, call.w, j)]_vars
    BY ReturnedPrefix
  <1> QED BY <1>1, CallInvariance, PTL DEF Spec, UpdateAbsorbsPrefix

\* A call that fails leaves every object as it was: the validators refuse, before
\* the first element, whatever the native loop would refuse in the middle.
THEOREM FailuresAreAtomic == Spec => FailuresChangeNothing
  <1>1. CallInv /\ [Next]_vars =>
          [outcome' \in {"classed", "native"} =>
             \A o \in Object :
               IF Running /\ call.on = o THEN obj'[o].seen = call.before
               ELSE obj'[o] = obj[o]]_vars
    BY LoopNeverFails, IdleFailures
  <1> QED BY <1>1, CallInvariance, PTL DEF Spec, FailuresChangeNothing
=============================================================================
