-------------------------- MODULE MCFrequentItems --------------------------
(* Instances of FrequentItems for TLC. *)
EXTENDS FrequentItems, TLC

Symmetry == Permutations(Item) \cup Permutations(Sketch)
============================================================================
