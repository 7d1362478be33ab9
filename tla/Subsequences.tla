---------------------------- MODULE Subsequences ----------------------------
(* The elements of a sequence that are in a set, in their order. *)
EXTENDS Sequences, FiniteSets, Naturals

(* Which of the positions I in their order the position i is. *)
Rank(I, i) == Cardinality({j \in I : j <= i})

Only(s, S) ==
  LET I == {i \in DOMAIN s : s[i] \in S}
  IN  [k \in 1 .. Cardinality(I) |-> s[CHOOSE i \in I : Rank(I, i) = k]]
=============================================================================
