------------------------------ MODULE MCTheta ------------------------------
(* Instances of Theta for TLC. *)
EXTENDS Theta, TLC

Symmetry == Permutations(Sketch)
============================================================================
