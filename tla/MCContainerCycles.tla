------------------------- MODULE MCContainerCycles -------------------------
(* Two invocations and one request over two store objects. *)
EXTENDS ContainerCycles, TLC

CONSTANTS r1, r2, q1, s1, s2

MCRuns == {r1, r2}
MCRequests == {q1}
MCUsers == {r1, r2, q1}
MCStores == {s1, s2}
Symm == Permutations(MCRuns) \cup Permutations(MCStores)
=============================================================================
