-------------------------- MODULE CanonicalLedger --------------------------
(* What the graph tables promise their readers: a human merge or split is   *)
(* one step, taken at most once per payload and per decision; a curated     *)
(* artifact is one step that never detaches an applied operation; a         *)
(* projection is one step.                                                  *)
EXTENDS CanonicalTables

VARIABLE tables

Init == tables = EmptyTables

Apply(r) == MayApply(tables, r) /\ tables' = Applied(tables, r)
Curate(d, row) ==
    /\ row.status # "none" /\ row.applied \in {NoOp, tables.art[d].applied}
    /\ MayUpsert(tables, d, row)
    /\ tables' = Upserted(tables, d, row)
Project(rows) == tables' = Projected(tables, rows)

Next == \/ \E r \in Requests : Apply(r)
        \/ \E d \in Decisions : Curate(d, tables'.art[d])
        \/ \E rows \in SUBSET Mentions : Project(rows)

Spec == Init /\ [][Next]_tables
============================================================================
