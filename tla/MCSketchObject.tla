--------------------------- MODULE MCSketchObject ---------------------------
(* Instances of SketchObject for TLC. *)
EXTENDS SketchObject, TLC

\* A refused weight, two valid ones.
MCWeight == {-1, 1, 2}

Symmetry == Permutations(Object)
=============================================================================
