------------------------------ MODULE MCBucket ------------------------------
(* A small instance of Bucket for TLC.                                     *)
EXTENDS Bucket, TLC

\* Requests differ in nothing.
Symmetry == Permutations(Requests)
=============================================================================
