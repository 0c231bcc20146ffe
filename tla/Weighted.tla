------------------------------ MODULE Weighted ------------------------------
(***************************************************************************)
(* The sketches that count weighted items together: frequent items and     *)
(* count-min.  They share nothing.                                         *)
(***************************************************************************)
EXTENDS FrequentItems, CountMin

----------------------------------------------------------------------------
(* Properties *)

\* The type invariants of both: bounds, histories and configurations stay legal.
TypesOK == TypeOK /\ CMTypeOK

\* What a family writes is what it reads back.
RestoresFaithful == RestoreFaithful /\ CMRestoreFaithful
=============================================================================
