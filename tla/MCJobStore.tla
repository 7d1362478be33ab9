----------------------------- MODULE MCJobStore -----------------------------
(* Small instances of JobStore for TLC. *)
EXTENDS JobStore, TLC

JobSymmetry == Permutations(Jobs)
=============================================================================
