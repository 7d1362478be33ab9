------------------------- MODULE MCProjectionImport -------------------------
(* Small instances of ProjectionImport for TLC. *)
EXTENDS ProjectionImport, TLC

Symmetry == Permutations(Importers) \cup Permutations(Payloads)
=============================================================================
