----------------------------- MODULE MCWeighted -----------------------------
(***************************************************************************)
(* The sketches that count weighted items, for TLC: frequent items, as     *)
(* counters and over its table, and count-min.  They share nothing; a      *)
(* behaviour uses the one that `family` names.                             *)
(***************************************************************************)
EXTENDS Weighted, TLC

VARIABLES
  family,
  hash, table, t_offset, t_weight, t_call, t_truth, t_dropped  \* the table

----------------------------------------------------------------------------
(* The table, and the constants of count-min *)

FIT == INSTANCE FrequentItemsTable WITH
  LgSizes <- {2}, LG_MIN_MAP_SIZE <- 1, MaxWeight <- 4,
  HashValues <- 0..3, DRIFT_LIMIT <- 1024,
  offset <- t_offset, total_weight <- t_weight, call <- t_call,
  truth <- t_truth, dropped <- t_dropped

\* Sketches that merge, and some that may not: another seed, other sizes.
\* Under seed 1, items 1 and 2 share a bucket in one row, 2 and 3 in the other.
MCConfig ==
  {[num_hashes |-> 2, num_buckets |-> 3, seed |-> 1],
   [num_hashes |-> 2, num_buckets |-> 3, seed |-> 2],
   [num_hashes |-> 1, num_buckets |-> 4, seed |-> 1]}

MCBucketOf ==
  [c \in MCConfig |->
     [x \in Counted |->
        [r \in 0 .. c.num_hashes - 1 |->
           IF c.seed = 2 THEN (3 - x) % 3
           ELSE IF r = 0 THEN x \div 3 ELSE x \div 2]]]

MCSeedHash == [seed \in {1, 2} |-> seed]
MCWeight == {-1, 2}

ASSUME CountMinAssumption

----------------------------------------------------------------------------
(* One family at a time *)

tableVars == <<hash, table, t_offset, t_weight, t_call, t_truth, t_dropped>>

\* The sketches of a family that is not in use have one configuration.
MCInit ==
  /\ family \in {"frequent_items", "table", "count_min"}
  /\ Init
  /\ family # "frequent_items" => \A s \in Sketch : max_size[s] = 2
  /\ FIT!Init
  /\ family # "table" => /\ \A s \in Sketch : table[s].lg_cur = 1
                         /\ \A i \in Item : hash[i] = 0
  /\ CMInit
  /\ family # "count_min" => \A s \in CMSketch : config[s].num_hashes = 1

MCNext ==
  \/ family = "frequent_items" /\ Next /\ UNCHANGED <<family, tableVars, cmVars>>
  \/ family = "table" /\ FIT!Next /\ UNCHANGED <<family, vars, cmVars>>
  \/ family = "count_min" /\ CMNext /\ UNCHANGED <<family, vars, tableVars>>

MCSpec == MCInit /\ [][MCNext]_<<family, vars, tableVars, cmVars>>

Symmetry == Permutations(Item) \cup Permutations(Sketch) \cup Permutations(CMSketch)

----------------------------------------------------------------------------
(* Properties *)

\* Every search of the table ends and finds its key, and none of its throws is
\* due.
TableSound == family = "table" => FIT!TableWellFormed /\ FIT!NoLogicError

\* FIT!ImplementsFrequentItems: the table is a sketch of FrequentItems.  The
\* steps of the other families leave its variables alone.
ImplementsFrequentItems ==
  FIT!FI!Init /\ [][family = "table" => [FIT!FI!Next]_(FIT!FI!vars)]_tableVars
=============================================================================
