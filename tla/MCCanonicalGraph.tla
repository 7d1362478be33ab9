-------------------------- MODULE MCCanonicalGraph -------------------------
EXTENDS CanonicalGraph, TLC
CONSTANTS e1, e2, s1, m1, m2, m3

MCEvents == {e1, e2, s1}
MCMentions == {m1, m2, m3}
MCGroup == (m1 :> e1) @@ (m2 :> e2) @@ (m3 :> e2)

(* A merge under a decision, the same with what a split left (which the     *)
(* decision comes to name when it is patched), the merge that turns the     *)
(* first one round, and a split of the survivor under a decision.           *)
MergeDecision == [kind |-> "merge", subject |-> e1, cands |-> {e2}]
SplitDecision == [kind |-> "split", subject |-> e1, cands |-> {m2}]
MCDecisions == {MergeDecision, SplitDecision}
Merge(primary, members, decision) ==
    [kind |-> "merge", primary |-> primary, members |-> members,
     decision |-> decision, result |-> primary]
Split(primary, members, decision, result) ==
    [kind |-> "split", primary |-> primary, members |-> members,
     decision |-> decision, result |-> result]
MCRequests == {Merge(e1, {e2}, MergeDecision), Merge(e1, {e2, s1}, MergeDecision),
               Merge(e2, {e1}, NoDecision), Split(e1, {m2}, SplitDecision, s1)}
============================================================================
