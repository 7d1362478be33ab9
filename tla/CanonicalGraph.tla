--------------------------- MODULE CanonicalGraph --------------------------
(* The handlers of the research API over one target's store                 *)
(* (core/canonical_handlers.py, core/store/_canonical.py). All of them use  *)
(* the one aiosqlite connection of the store: between two awaits another    *)
(* handler's statement runs on the same connection, sees what is not        *)
(* committed, and its commit or rollback ends whatever transaction is open. *)
(* The projection uses a connection of its own and waits for the write lock. *)
EXTENDS CanonicalTables

CONSTANTS Callers,    \* handlers that may run at a time
          Overlap     \* FALSE: a client waits for an answer before it calls again

ASSUME OverlapIsSaid == Overlap \in BOOLEAN

VARIABLES live,       \* the tables as the shared connection reads them
          disk,       \* the tables as last committed
          txn,        \* a transaction is open on the shared connection
          call        \* call[c]: where handler c is, what it read, what it answered

vars == <<live, disk, txn, call>>

NoPlan == [event |-> EmptyTables.event, art |-> EmptyTables.art]
Idle == [stage |-> "idle", req |-> NoOp, decision |-> NoDecision, row |-> NoArtifact,
         plan |-> NoPlan, told |-> "nothing"]

Init == /\ live = EmptyTables /\ disk = EmptyTables /\ txn = FALSE
        /\ call = [c \in Callers |-> Idle]

Resting(c) == call[c].stage = "idle"
MayStart(c) == Resting(c) /\ (Overlap \/ \A b \in Callers : Resting(b))
Goto(c, stage) == call' = [call EXCEPT ![c].stage = stage]
Answer(c, told) == call' = [call EXCEPT ![c] = [Idle EXCEPT !.req = call[c].req, !.told = told]]

(* Mutant: the connection commits every statement. *)
WriteThrough(c, tables, next) ==
    live' = tables /\ disk' = tables /\ UNCHANGED txn /\ Goto(c, next)

(* A statement that writes opens a transaction if none is open *)
Write(c, tables, next) == live' = tables /\ txn' = TRUE /\ UNCHANGED disk /\ Goto(c, next)
Fail(c) == Goto(c, "rollback") /\ UNCHANGED <<live, disk, txn>>

----------------------------------------------------------------------------
(* Merge and split *)

SubmitApply(c, r) ==
    /\ MayStart(c)
    /\ call' = [call EXCEPT ![c] = [Idle EXCEPT !.stage = "begin", !.req = r]]
    /\ UNCHANGED <<live, disk, txn>>

(* BEGIN IMMEDIATE stands before the try: inside an open transaction it     *)
(* fails, and the handler leaves without a rollback.                        *)
Begin(c) ==
    /\ call[c].stage = "begin"
    /\ UNCHANGED <<live, disk>>
    /\ IF txn THEN Answer(c, "failed") /\ UNCHANGED txn
              ELSE Goto(c, "plan") /\ txn' = TRUE

Plan(c) ==
    LET r == call[c].req IN
    /\ call[c].stage = "plan"
    /\ UNCHANGED <<live, disk, txn>>
    /\ \/ RepeatsExisting(live, r) /\ Goto(c, "commit")
       \/ /\ MayApply(live, r)
          /\ call' = [call EXCEPT ![c].stage = IF r.kind = "split" THEN "create" ELSE "move",
                                  ![c].plan = [event |-> live.event, art |-> live.art]]
       \/ /\ ~RepeatsExisting(live, r) /\ ~MayApply(live, r)
          /\ Goto(c, "rollback")

Create(c) == call[c].stage = "create" /\ Write(c, Created(live, call[c].req), "move")

Move(c) ==
    LET r == call[c].req IN
    /\ call[c].stage = "move"
    /\ IF MoveBreaksKey(live, r) THEN Fail(c) ELSE Write(c, Moved(live, r), "mark")

Mark(c) ==
    LET r == call[c].req IN
    /\ call[c].stage = "mark"
    /\ IF LinkBreaksKey(live, r) THEN Fail(c) ELSE Write(c, Marked(live, r), "restate")

Restate(c) ==
    /\ call[c].stage = "restate"
    /\ Write(c, Restated(live, call[c].req, call[c].plan), "decide")

Decide(c) ==
    /\ call[c].stage = "decide"
    /\ Write(c, Decided(live, call[c].req, call[c].plan), "record")

Record(c) ==
    LET r == call[c].req IN
    /\ call[c].stage = "record"
    /\ IF RecordBreaksIndex(live, r) THEN Fail(c) ELSE Write(c, Recorded(live, r), "commit")

Commit(c) ==
    /\ call[c].stage = "commit"
    /\ disk' = live /\ txn' = FALSE /\ UNCHANGED live
    /\ Answer(c, "applied")

Rollback(c) ==
    /\ call[c].stage = "rollback"
    /\ live' = disk /\ txn' = FALSE /\ UNCHANGED disk
    /\ Answer(c, "refused")

----------------------------------------------------------------------------
(* Research artifacts *)

(* POST: the identifier is a digest of the candidates the row is given *)
SubmitArtifact(c, d, status) ==
    /\ MayStart(c)
    /\ Present(live, d.subject)
    /\ call' = [call EXCEPT ![c] = [Idle EXCEPT !.stage = "check", !.decision = d,
            !.row = [status |-> status, cands |-> d.cands, applied |-> NoOp]]]
    /\ UNCHANGED <<live, disk, txn>>

(* PATCH: the artifact is read, the named fields are replaced, and the      *)
(* whole row is handed to the upsert                                        *)
SubmitPatch(c, d, status, cands, keepsMetadata) ==
    /\ MayStart(c)
    /\ live.art[d].status # "none"
    /\ call' = [call EXCEPT ![c] = [Idle EXCEPT !.stage = "check", !.decision = d,
            !.row = PatchedRow(live.art[d], status, cands, keepsMetadata)]]
    /\ UNCHANGED <<live, disk, txn>>

(* Mutant: the upsert writes whatever it is given. *)
CheckNothing(c) ==
    call[c].stage = "check" /\ UNCHANGED <<live, disk, txn>> /\ Goto(c, "upsert")

CheckArtifact(c) ==
    /\ call[c].stage = "check"
    /\ UNCHANGED <<live, disk, txn>>
    /\ IF MayUpsert(live, call[c].decision, call[c].row)
       THEN Goto(c, "upsert") ELSE Answer(c, "refused")

UpsertArtifact(c) ==
    /\ call[c].stage = "upsert"
    /\ Write(c, Upserted(live, call[c].decision, call[c].row), "save")

SaveArtifact(c) ==
    /\ call[c].stage = "save"
    /\ disk' = live /\ txn' = FALSE /\ UNCHANGED live
    /\ Answer(c, "saved")

----------------------------------------------------------------------------
(* One transaction on a connection of its own, when the write lock is free *)
Project(rows) ==
    /\ ~txn
    /\ disk' = Projected(disk, rows) /\ live' = disk'
    /\ UNCHANGED <<txn, call>>

(* The process ends: what was not committed is gone *)
Crash ==
    /\ live' = disk /\ txn' = FALSE /\ UNCHANGED disk
    /\ call' = [c \in Callers |-> Idle]

Statement(c) ==
    \/ Begin(c) \/ Plan(c) \/ Create(c) \/ Move(c) \/ Mark(c)
    \/ Restate(c) \/ Decide(c) \/ Record(c) \/ Commit(c) \/ Rollback(c)
    \/ CheckArtifact(c) \/ UpsertArtifact(c) \/ SaveArtifact(c)

(* A patch of the metadata must name candidates; any request's will do *)
PatchCandidates == {r.members : r \in Requests}
Submit(c) ==
    \/ \E r \in Requests : SubmitApply(c, r)
    \/ \E d \in Decisions, status \in ArtifactStatus :
          \/ SubmitArtifact(c, d, status)
          \/ \E cands \in PatchCandidates, keepsMetadata \in BOOLEAN :
                SubmitPatch(c, d, status, cands, keepsMetadata)

Next == \/ \E c \in Callers : Submit(c) \/ Statement(c)
        \/ \E rows \in SUBSET Mentions : Project(rows)
        \/ Crash

Spec == Init /\ [][Next]_vars

----------------------------------------------------------------------------
(* Properties *)

Stages == {"idle", "begin", "plan", "create", "move", "mark", "restate", "decide",
           "record", "commit", "rollback", "check", "upsert", "save"}
PlanType == [event : [Events -> EventRow], art : [Decisions -> ArtifactRow]]
CallType == [stage : Stages, req : Requests \cup {NoOp},
             decision : Decisions \cup {NoDecision}, row : ArtifactRow, plan : PlanType,
             told : {"nothing", "applied", "refused", "failed", "saved"}]

(* The variables keep their types. *)
TypeOK == /\ live \in TablesType /\ disk \in TablesType
          /\ txn \in BOOLEAN /\ call \in [Callers -> CallType]

(* On disk an artifact that names an applied operation is resolved, that    *)
(* operation is in the operation log under this very artifact, and every    *)
(* logged operation of an artifact is the one the artifact names: a         *)
(* decision is taken once and its trace can be followed both ways           *)
(* (_apply_canonical_merge_plan, _apply_canonical_split_plan, the guard of  *)
(* upsert_research_artifact).                                               *)
DecisionsAreTraced ==
    /\ \A d \in Decisions : disk.art[d].applied # NoOp =>
          /\ disk.art[d].status = "resolved"
          /\ disk.art[d].applied \in disk.ops
          /\ disk.art[d].applied.decision = d
    /\ \A o \in disk.ops : o.decision # NoDecision => disk.art[o.decision].applied = o

(* On disk an event is marked as merged only into the survivor of a merge   *)
(* in the operation log that names it, with the duplicate relation of that  *)
(* operation: the status, the log and the relation of a merge come together *)
(* or not at all.                                                           *)
MergedIsRecorded ==
    \A e \in Events : disk.event[e].status = "merged" =>
        \E o \in disk.ops : /\ o.kind = "merge" /\ e \in o.members
                            /\ disk.event[e].into = o.primary
                            /\ <<o, e>> \in disk.links

(* On disk every mention is under an event that exists, and an event that   *)
(* was merged has none left, unless a later merge made it a survivor: no    *)
(* mention is hidden under an event the reader is sent away from.           *)
MergedKeepsNothing ==
    \A m \in Mentions : disk.home[m] # NoEvent =>
        /\ Present(disk, disk.home[m])
        /\ disk.event[disk.home[m]].status = "merged" =>
              \E o \in disk.ops : o.kind = "merge" /\ o.primary = disk.home[m]

(* An apply call answered "applied" has its operation in the log on disk,   *)
(* also when the answer is that of an operation it found.                   *)
AppliedIsRecorded ==
    \A c \in Callers : call[c].told = "applied" => call[c].req \in disk.ops

(* The rows on disk change as the ledger's do: by whole merges, splits,     *)
(* artifact rows and projections.                                           *)
Ledger == INSTANCE CanonicalLedger WITH tables <- disk
ImplementsCanonicalLedger == Ledger!Spec
============================================================================
