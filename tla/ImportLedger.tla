---------------------------- MODULE ImportLedger ----------------------------
(***************************************************************************)
(* What the durable import promises a client, without chunks, requests in  *)
(* flight or failures: a payload is kept as an object before it is         *)
(* committed, it is committed at most once, and a key commits at most one  *)
(* payload.                                                                *)
(***************************************************************************)
CONSTANTS Payloads, Keys, NoKey, NotCommitted

VARIABLES kept,       \* payloads whose object exists
          committed   \* the key a payload was committed under

vars == <<kept, committed>>

Init ==
  /\ kept = {}
  /\ committed = [p \in Payloads |-> NotCommitted]

Keep(p) ==
  /\ kept' = kept \cup {p}
  /\ UNCHANGED committed

Commit(p, k) ==
  /\ p \in kept
  /\ committed[p] = NotCommitted
  /\ k = NoKey \/ \A q \in Payloads : committed[q] # k
  /\ committed' = [committed EXCEPT ![p] = k]
  /\ UNCHANGED kept

Next ==
  \E p \in Payloads :
    Keep(p) \/ \E k \in Keys \cup {NoKey} : Commit(p, k)

Spec == Init /\ [][Next]_vars
=============================================================================
