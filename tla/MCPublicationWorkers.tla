------------------------ MODULE MCPublicationWorkers ------------------------
(* Small instances of PublicationWorkers for TLC. *)
EXTENDS PublicationWorkers

CONSTANTS t1, a1

(* Every event is public one day, or too old for it: the last of the order *)
(* of the candidates is the one that others could keep waiting.            *)
EachGetsPublished == GetsPublished(1) /\ GetsPublished(N)
=============================================================================
