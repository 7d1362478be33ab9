-------------------------- MODULE MCTargetPipeline --------------------------
(* Small instances of TargetPipeline for TLC. *)
EXTENDS TargetPipeline

CONSTANTS r1, e1, e2

(* An event that the sources keep giving is filtered or archived some day: *)
(* the events are alike, so one of them speaks for all.                    *)
CollectedGetsFiltered == GetsFiltered(e1)
=============================================================================
