--------------------------- MODULE MCQueueShadow ---------------------------
(* Small instances of QueueShadow for TLC. *)
EXTENDS QueueShadow, TLC

Symmetry == Permutations(Workers) \cup Permutations(Slots) \cup Permutations(Jobs)
=============================================================================
