---------------------------- MODULE SketchObject ----------------------------
(***************************************************************************)
(* The R objects around the native sketches: construction, update in a     *)
(* native loop that a user can interrupt, merge, restoring from bytes,     *)
(* saveRDS/readRDS, and how each call ends.  Two layers guard each call:   *)
(* the R validators raise classed conditions before anything changes, the  *)
(* bridge raises plain errors.  A sketch is abstracted to the sequence of  *)
(* elements it has absorbed.                                               *)
(***************************************************************************)
EXTENDS Integers, Sequences

CONSTANTS
  Object,      \* R variables
  Temp,        \* the object under construction, not yet bound to a variable
  Unbound, Idle, NA,
  Class,
  Weighted,    \* classes whose update takes weights (frequent_items)
  Freezing,    \* seeded classes, compact after a merge (theta)
  Item, Weight, Seed, DEFAULT_SEED,
  PROBE,       \* the native loop lets the user interrupt every 65536 elements
  MAX_LENGTH,  \* bound: elements given to one update
  MAX_SEEN     \* bound: elements absorbed by one sketch

ASSUME SketchObjectAssumption ==
  /\ Weighted \subseteq Class /\ Freezing \subseteq Class /\ Weighted \cap Freezing = {}
  /\ Weight \subseteq Int /\ 1 \in Weight /\ DEFAULT_SEED \in Seed
  /\ PROBE \in Nat \ {0} /\ MAX_LENGTH \in Nat /\ MAX_SEEN \in Nat
  /\ Temp \notin Object /\ NA \notin Item

VARIABLES
  obj,      \* `seed` is R's private$hash_seed, `hashed` the native sketch's own
  call,     \* the update whose native loop is running
  outcome   \* how the last call ended

vars == <<obj, call, outcome>>

Outcome == {"ok", "classed", "native", "interrupted"}
Element == [item : Item, weight : Weight]
Vectors(S, n) == UNION {[1..k -> S] : k \in 0..n}
Streams == Vectors(Item \cup {NA}, MAX_LENGTH)
WeightArgs(n) == {<<1>>} \cup [1..n -> Weight] \cup [1..1 -> Weight]

\* What an R variable can be bound to, and an update in progress.
Sketches ==
  [class : Class, seed : Seed, hashed : Seed, live : BOOLEAN, compact : BOOLEAN,
   seen : Seq(Element)]
Calls ==
  [on : Object \cup {Temp}, x : Streams, w : Seq(Weight), i : Nat, before : Seq(Element),
   bind : Object]

ASSUME SentinelAssumption == Unbound \notin Sketches /\ Idle \notin Calls

Fresh(c, seed) ==
  [class |-> c, seed |-> seed, hashed |-> seed, live |-> TRUE, compact |-> FALSE,
   seen |-> <<>>]

Bound(o) == obj[o] # Unbound
Running == call # Idle

SeedsOf(c) == IF c \in Freezing THEN Seed ELSE {DEFAULT_SEED}
Takes(c, w) == c \in Weighted \/ w = <<1>>

----------------------------------------------------------------------------
(* The arguments of an update *)

CheckWeight_FirstOnly(w, n) == Len(w) \in {1, n} /\ Len(w) > 0 /\ w[1] >= 0

\* All weights are validated before the first element is absorbed.
CheckWeight(w, n) ==
  Len(w) \in {1, n} /\ Len(w) > 0 /\ \A i \in DOMAIN w : w[i] >= 0

\* v[!is.na(x)], over each prefix of x.
Kept(v, x) ==
  LET kept[n \in 0..Len(x)] ==
        IF n = 0 THEN <<>>
        ELSE IF x[n] = NA THEN kept[n - 1] ELSE Append(kept[n - 1], v[n])
  IN kept
Keep(v, x) == Kept(v, x)[Len(x)]

KeptWeights_All(w, x) == w
KeptWeights(w, x) == IF Len(w) > 1 THEN Keep(w, x) ELSE w

Recycled(x, w) ==
  [i \in DOMAIN x |-> [item |-> x[i], weight |-> w[((i - 1) % Len(w)) + 1]]]

\* What the native loop runs over: missing values are dropped in R, or (KLL)
\* left to the sketch.
Fed(c, x, w) ==
  IF c \in Weighted \cup Freezing
  THEN Recycled(Keep(x, x), KeptWeights(w, x))
  ELSE Recycled(x, w)

----------------------------------------------------------------------------
(* Construction and update *)

Init ==
  /\ obj = [o \in Object \cup {Temp} |-> Unbound]
  /\ call = Idle
  /\ outcome = "ok"

Ends(how) == outcome' = how /\ UNCHANGED <<obj, call>>

\* o <- class(seed = )
Create(o, c, seed) ==
  /\ ~Running
  /\ obj' = [obj EXCEPT ![o] = Fresh(c, seed)]
  /\ outcome' = "ok"
  /\ UNCHANGED call

Begin(o, s, x, w) ==
  /\ Len(s.seen) + Len(x) <= MAX_SEEN
  /\ obj' = [obj EXCEPT ![o] = s]
  /\ call' = [on |-> o, x |-> x, w |-> w, i |-> 0, before |-> s.seen, bind |-> o]
  /\ outcome' = "ok"

\* o <- class(x, weight, seed = ): initialize() creates a sketch and updates it.
Construct(o, c, seed, x, w) ==
  /\ ~Running /\ Takes(c, w)
  /\ \/ c \in Weighted /\ ~CheckWeight(w, Len(x)) /\ Ends("classed")
     \/ /\ c \in Weighted => CheckWeight(w, Len(x))
        /\ Len(x) <= MAX_SEEN
        /\ obj' = [obj EXCEPT ![Temp] = Fresh(c, seed)]
        /\ call' = [on |-> Temp, x |-> x, w |-> w, i |-> 0, before |-> <<>>, bind |-> o]
        /\ outcome' = "ok"

\* o$update(x, weight): a theta sketch asks the bridge whether it is compact
\* before anything else; frequent_items skips the native call when nothing is left.
Update(o, x, w) ==
  LET s == obj[o]
      valid == s.class \in Weighted => CheckWeight(w, Len(x))
      nothing == s.class \in Weighted /\ Keep(x, x) = <<>>
  IN /\ ~Running /\ Bound(o) /\ Takes(s.class, w)
     /\ \/ ~s.live /\ s.class \in Freezing /\ Ends("native")
        \/ s.live /\ s.compact /\ Ends("classed")
        \/ ~valid /\ Ends("classed")
        \/ ~s.live /\ s.class \notin Freezing /\ valid /\ ~nothing /\ Ends("native")
        \/ valid /\ nothing /\ Ends("ok")
        \/ s.live /\ ~s.compact /\ valid /\ ~nothing /\ Begin(o, s, x, w)

\* The call is over; a finished constructor binds its object, a failed one drops it.
Return(how) ==
  /\ obj' = IF call.on # Temp THEN obj
            ELSE [obj EXCEPT ![Temp] = Unbound,
                             ![call.bind] = IF how = "ok" THEN obj[Temp] ELSE @]
  /\ call' = Idle
  /\ outcome' = how

Rest == Fed(obj[call.on].class, call.x, call.w)

Absorb_StuckOnNA ==
  /\ Running /\ call.i < Len(Rest)
  /\ LET e == Rest[call.i + 1] IN
     \/ e.weight < 0 /\ Return("native")
     \/ /\ e.weight >= 0 /\ e.item # NA
        /\ obj' = [obj EXCEPT ![call.on].seen = Append(@, e)]
        /\ call' = [call EXCEPT !.i = @ + 1]
        /\ UNCHANGED outcome
     \/ e.item = NA /\ UNCHANGED vars

\* One element: the bridge checks its weight again, the sketch skips NA.
Absorb ==
  /\ Running /\ call.i < Len(Rest)
  /\ LET e == Rest[call.i + 1] IN
     \/ e.weight < 0 /\ Return("native")
     \/ /\ e.weight >= 0
        /\ obj' = IF e.item = NA THEN obj
                  ELSE [obj EXCEPT ![call.on].seen = Append(@, e)]
        /\ call' = [call EXCEPT !.i = @ + 1]
        /\ UNCHANGED outcome

\* check_user_interrupt() unwinds the loop.
Interrupt ==
  /\ Running
  /\ call.i > 0 /\ call.i < Len(Rest) /\ call.i % PROBE = 0
  /\ Return("interrupted")

Finish == Running /\ call.i = Len(Rest) /\ Return("ok")

----------------------------------------------------------------------------
(* Merge, persistence and queries *)

SeedsDiffer(s, p) == s.class \in Freezing /\ s.seed # p.seed

\* u.update(sketch) of a union built with `seed`
SeedHashMismatch(s, seed) == s.seen # <<>> /\ s.hashed # seed

\* o$merge(p): check_<class>(other), self-merge, seeds, and then the bridge
Merge(o, p) ==
  LET s == obj[o]
      t == obj[p]
      refused == o = p \/ t.class # s.class \/ ~t.live \/ SeedsDiffer(s, t)
      mismatch == s.class \in Freezing
                    /\ (SeedHashMismatch(s, s.seed) \/ SeedHashMismatch(t, s.seed))
  IN /\ ~Running /\ Bound(o) /\ Bound(p)
     /\ \/ refused /\ Ends("classed")
        \/ ~refused /\ (~s.live \/ mismatch) /\ Ends("native")
        \/ /\ ~refused /\ s.live /\ ~mismatch
           /\ Len(s.seen) + Len(t.seen) <= MAX_SEEN
           /\ obj' = [obj EXCEPT ![o].seen = @ \o t.seen,
                                 ![o].hashed = s.seed,
                                 ![o].compact = s.class \in Freezing]
           /\ outcome' = "ok"
           /\ UNCHANGED call

Readable_AnySeed(t, c, seed) == t.class = c

\* The payload names the family and, for a theta sketch with entries, the seed.
Readable(t, c, seed) ==
  /\ t.class = c
  /\ c \in Freezing /\ t.seen # <<>> => t.hashed = seed

Restored_AllCompact(t, seed) == [t EXCEPT !.seed = seed, !.compact = TRUE]
Restored(t, seed) == [t EXCEPT !.seed = seed, !.compact = t.class \in Freezing]

\* o <- class(bytes = p$serialize(), seed = )
Restore(o, p, c, seed) ==
  /\ ~Running /\ Bound(p)
  /\ \/ ~obj[p].live /\ Ends("native")
     \/ obj[p].live /\ ~Readable(obj[p], c, seed) /\ Ends("classed")
     \/ /\ obj[p].live /\ Readable(obj[p], c, seed)
        /\ obj' = [obj EXCEPT ![o] = Restored(obj[p], seed)]
        /\ outcome' = "ok"
        /\ UNCHANGED call

\* saveRDS(p) and o <- readRDS(): R's fields survive, the native handle does not.
ReadRDS(o, p) ==
  /\ ~Running /\ Bound(p)
  /\ obj' = [obj EXCEPT ![o] = [Fresh(obj[p].class, obj[p].seed) EXCEPT !.live = FALSE]]
  /\ outcome' = "ok"
  /\ UNCHANGED call

\* print, format, summary and as.character
Display(o) ==
  ~Running /\ Bound(o) /\ Ends(IF obj[o].live THEN "ok" ELSE "classed")

\* quantile, rank, ... of a quantile sketch and estimate of the others.  The
\* guard check_not_empty() itself asks the bridge.
Query(o) ==
  LET undefined == obj[o].seen = <<>> /\ obj[o].class \notin Weighted \cup Freezing
  IN /\ ~Running /\ Bound(o)
     /\ \/ ~obj[o].live /\ Ends("native")
        \/ obj[o].live /\ undefined /\ Ends("classed")
        \/ obj[o].live /\ ~undefined /\ Ends("ok")

Next ==
  \/ Absorb
  \/ Interrupt
  \/ Finish
  \/ \E o \in Object, c \in Class : \E seed \in SeedsOf(c) :
       \/ Create(o, c, seed)
       \/ \E x \in Streams : \E w \in WeightArgs(Len(x)) : Construct(o, c, seed, x, w)
  \/ \E o \in Object :
       \/ \E x \in Streams : \E w \in WeightArgs(Len(x)) : Update(o, x, w)
       \/ Display(o)
       \/ Query(o)
  \/ \E o, p \in Object :
       \/ Merge(o, p)
       \/ \E c \in Class : \E seed \in SeedsOf(c) : Restore(o, p, c, seed)
       \/ ReadRDS(o, p)

Spec == Init /\ [][Next]_vars

\* R has one thread: while a native loop runs, it is what runs.  A user need
\* not ever interrupt it, nor call anything.
FairSpec == Spec /\ WF_vars(Absorb) /\ WF_vars(Finish)

----------------------------------------------------------------------------
(* Properties *)

TypeOK ==
  /\ \A o \in DOMAIN obj : Bound(o) =>
       /\ obj[o].class \in Class /\ {obj[o].seed, obj[o].hashed} \subseteq SeedsOf(obj[o].class)
       /\ obj[o].seen \in Seq(Element)
       /\ obj[o].compact => obj[o].class \in Freezing
  /\ Bound(Temp) => Running
  /\ Running => Bound(call.on) /\ call.i \in 0..Len(Rest)
  /\ outcome \in Outcome

\* The first elements of an update with their own weights, missing ones left out.
Own(x, w) ==
  [n \in DOMAIN x |-> [item |-> x[n], weight |-> w[IF Len(w) = 1 THEN 1 ELSE n]]]
Given(x, w, first) == Kept(Own(x, w), x)[first]

\* An update absorbs each given element once, in order and with its own weight;
\* an interrupted one has absorbed a proper prefix, and the sketch stays valid.
\* An interrupted constructor binds nothing.
UpdateAbsorbsPrefix ==
  [][Running /\ call' = Idle =>
       LET result == obj'[call.bind] IN
       /\ outcome' = "ok" => result.seen = call.before \o Given(call.x, call.w, Len(call.x))
       /\ outcome' = "interrupted" =>
            IF call.on = Temp THEN result = obj[call.bind]
            ELSE \E j \in 1..Len(call.x) - 1 :
                   result.seen = call.before \o Given(call.x, call.w, j)]_vars

\* A call that fails leaves every object as it was before the call: the R
\* validators are at least as strict as the checks inside the native loops.
FailuresChangeNothing ==
  [][outcome' \in {"classed", "native"} =>
       \A o \in Object :
         IF Running /\ call.on = o THEN obj'[o].seen = call.before
         ELSE obj'[o] = obj[o]]_vars

\* The seed an R object compares before a merge is the one its native sketch
\* hashed with, so the union never meets hashes of another seed.
SeedsAgree ==
  \A o \in Object :
    Bound(o) /\ obj[o].class \in Freezing /\ obj[o].live /\ obj[o].seen # <<>>
      => obj[o].hashed = obj[o].seed

\* A native loop comes to its end, and what was under construction is then
\* bound to its variable or dropped: no missing value, refused weight or probe
\* for an interrupt leaves a call hanging or a half-built object behind.
CallsReturn == Running ~> ~Running /\ ~Bound(Temp)

\* The claim of NEWS.md and of test-conditions.R: tryCatch(datasketches_error = )
\* catches every failure the package raises.
EveryFailureIsClassed == outcome # "native"
=============================================================================
