----------------------------- MODULE MCEventBus -----------------------------
(* Small instances of EventBus for TLC: the topic of the first publisher   *)
(* matches every pattern, that of the second only the second one.          *)
EXTENDS EventBus

CONSTANTS p1, p2, s1, s2

SecondIsNarrow(p, s) == p = p1 \/ s = s2
=============================================================================
