----------------------------- MODULE FencedJob -----------------------------
(***************************************************************************)
(* What the durable job runtime promises about one job, without leases,    *)
(* clocks, outbox rows or queues: a job waits until it is granted to one   *)
(* holder; each grant opens a new epoch; a grant can be superseded only    *)
(* until its holder starts to execute; an executing job is left alone      *)
(* until it is given back or settled; and a settled job is never touched   *)
(* again.                                                                  *)
(***************************************************************************)
EXTENDS Naturals

CONSTANT Jobs

VARIABLES phase, epoch

vars == <<phase, epoch>>

Phase == {"absent", "waiting", "held", "executing", "settled"}

TypeOK == phase \in [Jobs -> Phase] /\ epoch \in [Jobs -> Nat]

Init ==
  /\ phase = [j \in Jobs |-> "absent"]
  /\ epoch = [j \in Jobs |-> 0]

Move(j, from, to) ==
  /\ phase[j] \in from
  /\ phase' = [phase EXCEPT ![j] = to]

Create(j) == Move(j, {"absent"}, "waiting") /\ UNCHANGED epoch

Grant(j) ==
  /\ Move(j, {"waiting", "held"}, "held")
  /\ epoch' = [epoch EXCEPT ![j] = @ + 1]

Start(j) == Move(j, {"held"}, "executing") /\ UNCHANGED epoch

GiveBack(j) == Move(j, {"held", "executing"}, "waiting") /\ UNCHANGED epoch

Settle(j) == Move(j, {"held", "executing"}, "settled") /\ UNCHANGED epoch

Next ==
  \E j \in Jobs :
    Create(j) \/ Grant(j) \/ Start(j) \/ GiveBack(j) \/ Settle(j)

Spec == Init /\ [][Next]_vars
=============================================================================
