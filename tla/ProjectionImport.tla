-------------------------- MODULE ProjectionImport --------------------------
(***************************************************************************)
(* The durable projection import of the Cloudflare control plane           *)
(* (frontend/cloudflare/workers/lib/durable-import.ts with its parts in    *)
(* durable-artifact.ts, import-staging.ts and projection-sql.ts): an       *)
(* import request keeps its payload as an R2 object, stages it in D1 chunk *)
(* by chunk, and commits receipt, job, batch, events and manifest in one   *)
(* transaction.  Requests may carry the same payload, or the same          *)
(* idempotency key with another payload, and run at the same time.         *)
(*                                                                         *)
(* Every await of D1 or R2 is a step.  A call may be refused or lose its   *)
(* answer and an invocation may die; each costs one of MaxFaults.          *)
(* A payload stands for its SHA-256 and everything derived from it: batch, *)
(* job and artifact ids, chunk checksums.  All payloads carry a version of *)
(* one and the same event.                                                 *)
(***************************************************************************)
EXTENDS Naturals, FiniteSets

CONSTANTS Importers,   \* requests that can be in flight at once
          Payloads,
          Keys,        \* values of the Idempotency-Key header
          NoKey,       \* a request without that header
          NoReceipt,
          NoPayload,
          Chunks,      \* expected_chunks of every batch
          MaxFaults    \* bound: failed calls and dead invocations

ASSUME ChunksAssumption == Chunks \in Nat \ {0}
ASSUME NoValueAssumption ==
  NoKey \notin Keys /\ NoReceipt \notin Keys \cup {NoKey} /\ NoPayload \notin Payloads
ASSUME MaxFaultsAssumption == MaxFaults \in Nat

VARIABLES objects,   \* payloads with an object in R2
          bindings,  \* payload each key is bound to by an R2 object
          manifest,  \* status in artifact_manifests
          job,       \* status in jobs
          batch,     \* status, committed_chunks and counts in import_batches
          staged,    \* chunks in import_batch_chunks, with their events
          receipt,   \* key in import_projection_finalize_receipts
          projected, \* the payload whose version the events row shows
          importer,  \* what each invocation remembers
          faults

tables == <<objects, bindings, manifest, job, batch, staged, receipt, projected>>
vars == <<tables, importer, faults>>

ChunkNos == 1 .. Chunks
MaybeKey == Keys \cup {NoKey}

Steps == {"idle", "lookup", "verify", "rebind", "bind", "put", "manifest",
          "job", "load_batch", "load_receipt", "upsert", "load_chunk",
          "stage", "recount", "counts", "finalize", "reread", "fail",
          "refresh", "ready", "pending"}

TablesTyped ==
  /\ objects \subseteq Payloads
  /\ bindings \in [Keys -> Payloads \cup {NoPayload}]
  /\ manifest \in [Payloads -> {"absent", "stored", "failed", "committed"}]
  /\ job \in [Payloads -> {"absent", "running", "committed", "snapshot_pending"}]
  /\ batch \in [Payloads -> [status : {"absent", "importing", "committed"},
                             committed_chunks : 0 .. Chunks,
                             counted : {"none", "imported", "updated"}]]
  /\ staged \in [Payloads -> SUBSET ChunkNos]
  /\ receipt \in [Payloads -> MaybeKey \cup {NoReceipt}]
  /\ projected \in Payloads \cup {NoPayload}

Invocation == [pc : Steps, payload : Payloads \cup {NoPayload}, key : MaybeKey,
               seen : {"absent", "importing", "committed"}, chunk : ChunkNos,
               counted : {"none", "imported", "updated"},
               result : {"none", "ok", "conflict", "error"}]

TypeOK ==
  /\ TablesTyped
  /\ importer \in [Importers -> Invocation]
  /\ faults \in 0 .. MaxFaults

Idle(result) ==
  [pc |-> "idle", payload |-> NoPayload, key |-> NoKey, seen |-> "absent",
   chunk |-> 1, counted |-> "none", result |-> result]

Init ==
  /\ objects = {}
  /\ bindings = [k \in Keys |-> NoPayload]
  /\ manifest = [p \in Payloads |-> "absent"]
  /\ job = [p \in Payloads |-> "absent"]
  /\ batch = [p \in Payloads |-> [status |-> "absent", committed_chunks |-> 0,
                                  counted |-> "none"]]
  /\ staged = [p \in Payloads |-> {}]
  /\ receipt = [p \in Payloads |-> NoReceipt]
  /\ projected = NoPayload
  /\ importer = [i \in Importers |-> Idle("none")]
  /\ faults = 0

-----------------------------------------------------------------------------
(* The awaited calls on D1 and R2, by what they change.                    *)

(* ensureProjectionJob. *)
EnsureProjectionJob(p) ==
  /\ job' = [job EXCEPT ![p] = "running"]
  /\ UNCHANGED <<objects, bindings, manifest, batch, staged, receipt, projected>>

PutObject(p) ==
  /\ objects' = objects \cup {p}
  /\ UNCHANGED <<bindings, manifest, job, batch, staged, receipt, projected>>

(* The put of bindRequestIdempotencyKey, only if the key is not taken. *)
PutBinding(p, k) ==
  /\ bindings' = [bindings EXCEPT ![k] = IF @ = NoPayload THEN p ELSE @]
  /\ UNCHANGED <<objects, manifest, job, batch, staged, receipt, projected>>

SetManifest(p, from, to) ==
  /\ manifest' = [manifest EXCEPT ![p] = IF @ \in from THEN to ELSE @]
  /\ UNCHANGED <<objects, bindings, job, batch, staged, receipt, projected>>

(* Mutants: a failed manifest is not stored again; a committed one fails.  *)
RecordManifestOnce(p) == SetManifest(p, {"absent", "stored"}, "stored")
FailAnyManifest(p) == SetManifest(p, {"stored", "failed", "committed"}, "failed")

(* recordStoredManifest and markImportArtifactFailed. *)
RecordStoredManifest(p) == SetManifest(p, {"absent", "stored", "failed"}, "stored")
MarkImportArtifactFailed(p) == SetManifest(p, {"stored", "failed"}, "failed")

SetBatch(p, row) ==
  /\ batch' = [batch EXCEPT ![p] = row]
  /\ UNCHANGED <<objects, bindings, manifest, job, staged, receipt, projected>>

(* The upsert of the batch row keeps committed_chunks when the row exists. *)
UpsertBatch(p) == SetBatch(p, [batch[p] EXCEPT !.status = "importing"])

(* chunkStatements: the chunk and its events in one D1 batch. *)
StageChunk(p, c) ==
  /\ staged' = [staged EXCEPT ![p] = @ \cup {c}]
  /\ UNCHANGED <<objects, bindings, manifest, job, batch, receipt, projected>>

RecountChunks(p) ==
  SetBatch(p, [batch[p] EXCEPT !.committed_chunks = Cardinality(staged[p])])

(* The NOT NULL guard columns of the receipt and its unique key: the whole *)
(* D1 batch is rolled back when one fails, receipt or no receipt.          *)
FinalizeGuards(p, k) ==
  /\ batch[p].status \in {"importing", "committed"}
  /\ batch[p].committed_chunks = Chunks
  /\ job[p] = "running"
  /\ manifest[p] \in {"stored", "committed"}
  /\ k = NoKey \/ \A q \in Payloads \ {p} : receipt[q] # k

(* Mutant: the events of every staged batch are projected. *)
FinalizeAllStaged(p, k, counted) ==
  /\ receipt' = [receipt EXCEPT ![p] = IF @ = NoReceipt THEN k ELSE @]
  /\ batch' = [batch EXCEPT ![p] = [status |-> "committed",
                                    committed_chunks |-> Chunks,
                                    counted |-> counted]]
  /\ projected' \in {q \in Payloads : staged[q] # {}}
  /\ job' = [job EXCEPT ![p] = "committed"]
  /\ manifest' = [manifest EXCEPT ![p] = "committed"]
  /\ UNCHANGED <<objects, bindings, staged>>

(* projectionFinalizeStatements.  An existing receipt is kept, and all the *)
(* other statements still take effect.                                     *)
ProjectionFinalize(p, k, counted) ==
  /\ receipt' = [receipt EXCEPT ![p] = IF @ = NoReceipt THEN k ELSE @]
  /\ batch' = [batch EXCEPT ![p] = [status |-> "committed",
                                    committed_chunks |-> Chunks,
                                    counted |-> counted]]
  /\ projected' = p
  /\ job' = [job EXCEPT ![p] = "committed"]
  /\ manifest' = [manifest EXCEPT ![p] = "committed"]
  /\ UNCHANGED <<objects, bindings, staged>>

(* markSnapshotReady and markSnapshotPending. *)
MarkSnapshot(p, status) ==
  /\ job' = [job EXCEPT
               ![p] = IF @ \in {"committed", "snapshot_pending"} THEN status ELSE @]
  /\ UNCHANGED <<objects, bindings, manifest, batch, staged, receipt, projected>>

-----------------------------------------------------------------------------
(* One awaited call of an invocation, and what the invocation is after it  *)
(* when it returns and when it throws, its effect lost or not.             *)
Becomes(i, record) == importer' = [importer EXCEPT ![i] = record]

Fault == faults < MaxFaults /\ faults' = faults + 1

Call(i, statement, next, thrown) ==
  \/ statement /\ Becomes(i, next) /\ UNCHANGED faults
  \/ Fault /\ (statement \/ UNCHANGED tables) /\ Becomes(i, thrown)

Read(i, next, thrown) == Call(i, UNCHANGED tables, next, thrown)

At(i, pc) == importer[i].pc = pc
Goto(i, pc) == [importer[i] EXCEPT !.pc = pc]
P(i) == importer[i].payload
K(i) == importer[i].key

(* The invocation has answered its request. *)
Answer(i, result) == [Idle(result) EXCEPT !.payload = P(i), !.key = K(i)]
Failed(i) == Answer(i, "error")

-----------------------------------------------------------------------------
(* executeDurableProjectionImport *)
Begin(i, p, k) ==
  /\ At(i, "idle")
  /\ Becomes(i, [Idle("none") EXCEPT !.pc = "lookup", !.payload = p, !.key = k])
  /\ UNCHANGED <<tables, faults>>

(* loadProjectionReceiptByPayloadOrIdempotencyKey *)
LoadProjectionReceipt(i) ==
  /\ At(i, "lookup")
  /\ Read(i, CASE receipt[P(i)] # NoReceipt -> Goto(i, "verify")
               [] receipt[P(i)] = NoReceipt /\ K(i) # NoKey
                  /\ (\E q \in Payloads : receipt[q] = K(i)) -> Answer(i, "conflict")
               [] OTHER -> Goto(i, "bind"),
          Failed(i))

VerifyCommittedArtifactHead(i) ==
  /\ At(i, "verify")
  /\ Read(i, IF P(i) \in objects THEN Goto(i, "rebind") ELSE Failed(i), Failed(i))

(* bindRequestIdempotencyKey.  A binding is never changed once it exists,  *)
(* so that the put and the head that may follow it are one step.           *)
BindRequestIdempotencyKey(i) ==
  LET bound == \/ K(i) = NoKey
               \/ K(i) # NoKey /\ bindings[K(i)] \in {NoPayload, P(i)}
      after == IF At(i, "bind") THEN Goto(i, "put") ELSE Goto(i, "refresh")
  IN  /\ At(i, "bind") \/ At(i, "rebind")
      /\ \/ /\ K(i) = NoKey
            /\ Becomes(i, after)
            /\ UNCHANGED <<tables, faults>>
         \/ /\ K(i) # NoKey
            /\ Call(i, PutBinding(P(i), K(i)),
                    IF bound THEN after ELSE Answer(i, "conflict"), Failed(i))

PutSwallowed(i) ==   \* Mutant: a put that throws counts as done.
  At(i, "put") /\ Call(i, PutObject(P(i)), Goto(i, "manifest"), Goto(i, "manifest"))

(* persistImportArtifact: the object first, then its manifest. *)
PersistObject(i) ==
  At(i, "put") /\ Call(i, PutObject(P(i)), Goto(i, "manifest"), Failed(i))

PersistManifest(i) ==
  At(i, "manifest") /\ Call(i, RecordStoredManifest(P(i)), Goto(i, "job"), Failed(i))

EnsureJob(i) ==
  At(i, "job") /\ Call(i, EnsureProjectionJob(P(i)), Goto(i, "load_batch"), Failed(i))

-----------------------------------------------------------------------------
(* stageImportBatch: whatever it throws is recorded in the manifest. *)
LoadExistingBatch(i) ==
  /\ At(i, "load_batch")
  /\ Read(i, [Goto(i, "load_receipt") EXCEPT !.seen = batch[P(i)].status],
          Goto(i, "fail"))

LoadFinalizeReceipt(i) ==
  /\ At(i, "load_receipt")
  /\ Read(i, CASE importer[i].seen # "committed" -> Goto(i, "upsert")
               [] importer[i].seen = "committed" /\ receipt[P(i)] # NoReceipt
                    -> Goto(i, "refresh")
               [] OTHER -> Goto(i, "load_chunk"),
          Goto(i, "fail"))

BeginBatch(i) ==
  /\ At(i, "upsert")
  /\ Call(i, UpsertBatch(P(i)), Goto(i, "load_chunk"), Goto(i, "fail"))

AfterChunk(i) ==
  IF importer[i].chunk = Chunks
  THEN Goto(i, "counts")
  ELSE [Goto(i, "load_chunk") EXCEPT !.chunk = importer[i].chunk + 1]

(* A chunk that is there already is skipped, its recount included. *)
LoadExistingChunk(i) ==
  /\ At(i, "load_chunk")
  /\ Read(i, IF importer[i].chunk \in staged[P(i)]
             THEN AfterChunk(i)
             ELSE Goto(i, "stage"),
          Goto(i, "fail"))

CommitChunk(i) ==
  /\ At(i, "stage")
  /\ Call(i, StageChunk(P(i), importer[i].chunk), Goto(i, "recount"), Goto(i, "fail"))

Recount(i) ==
  /\ At(i, "recount")
  /\ Call(i, RecountChunks(P(i)), AfterChunk(i), Goto(i, "fail"))

(* projectionCounts: the event counts as updated once it has a row. *)
ProjectionCounts(i) ==
  /\ At(i, "counts")
  /\ Read(i, [Goto(i, "finalize") EXCEPT
                !.counted = IF projected = NoPayload THEN "imported" ELSE "updated"],
          Goto(i, "fail"))

(* Mutant: a finalize that is rolled back counts as done. *)
FinalizeSwallowed(i) ==
  /\ At(i, "finalize")
  /\ \/ /\ FinalizeGuards(P(i), K(i))
        /\ Call(i, ProjectionFinalize(P(i), K(i), importer[i].counted),
                Goto(i, "refresh"), Goto(i, "fail"))
     \/ /\ ~FinalizeGuards(P(i), K(i))
        /\ Becomes(i, Goto(i, "refresh"))
        /\ UNCHANGED <<tables, faults>>

(* finalizeImportBatch: it throws after its effects when the receipt was   *)
(* there before.                                                           *)
FinalizeImportBatch(i) ==
  /\ At(i, "finalize")
  /\ \/ /\ FinalizeGuards(P(i), K(i))
        /\ Call(i, ProjectionFinalize(P(i), K(i), importer[i].counted),
                IF receipt[P(i)] = NoReceipt THEN Goto(i, "reread") ELSE Goto(i, "fail"),
                Goto(i, "fail"))
     \/ /\ ~FinalizeGuards(P(i), K(i))
        /\ Becomes(i, Goto(i, "fail"))
        /\ UNCHANGED <<tables, faults>>

RereadBatch(i) ==
  /\ At(i, "reread")
  /\ Read(i, IF batch[P(i)].status = "committed"
             THEN Goto(i, "refresh")
             ELSE Goto(i, "fail"),
          Goto(i, "fail"))

RecordFailure(i) ==
  At(i, "fail") /\ Call(i, MarkImportArtifactFailed(P(i)), Failed(i), Failed(i))

-----------------------------------------------------------------------------
(* refreshSnapshotsForProjection *)
RefreshSnapshots(i) ==
  /\ At(i, "refresh")
  /\ Read(i, Goto(i, "ready"), Goto(i, "pending"))

MarkSnapshotReady(i) ==
  /\ At(i, "ready")
  /\ Call(i, MarkSnapshot(P(i), "committed"), Answer(i, "ok"), Goto(i, "pending"))

MarkSnapshotPending(i) ==
  /\ At(i, "pending")
  /\ Call(i, MarkSnapshot(P(i), "snapshot_pending"), Answer(i, "ok"), Failed(i))

(* reconcileSnapshotPendingJobs, run by the scheduled tasks. *)
ReconcileSnapshotPendingJobs(p) ==
  /\ job[p] = "snapshot_pending"
  /\ job' = [job EXCEPT ![p] = "committed"]
  /\ UNCHANGED <<objects, bindings, manifest, batch, staged, receipt, projected,
                 importer, faults>>

Dies(i) ==
  /\ ~At(i, "idle")
  /\ Fault
  /\ Becomes(i, Failed(i))
  /\ UNCHANGED tables

ImporterStep(i) ==
  \/ LoadProjectionReceipt(i) \/ VerifyCommittedArtifactHead(i)
  \/ BindRequestIdempotencyKey(i) \/ PersistObject(i) \/ PersistManifest(i)
  \/ EnsureJob(i) \/ LoadExistingBatch(i) \/ LoadFinalizeReceipt(i)
  \/ BeginBatch(i) \/ LoadExistingChunk(i) \/ CommitChunk(i) \/ Recount(i)
  \/ ProjectionCounts(i) \/ FinalizeImportBatch(i) \/ RereadBatch(i)
  \/ RecordFailure(i)
  \/ RefreshSnapshots(i) \/ MarkSnapshotReady(i) \/ MarkSnapshotPending(i)

Next ==
  \/ \E i \in Importers, p \in Payloads, k \in MaybeKey : Begin(i, p, k)
  \/ \E i \in Importers : ImporterStep(i) \/ Dies(i)
  \/ \E p \in Payloads : ReconcileSnapshotPendingJobs(p)

Spec == Init /\ [][Next]_vars
-----------------------------------------------------------------------------
(* The client sends a request again until it is answered with success;     *)
(* invocations go on unless they die.                                      *)
Retried(p) == \E i \in Importers : Begin(i, p, NoKey)

FairSpec ==
  /\ Spec
  /\ \A i \in Importers : WF_vars(ImporterStep(i))
  /\ \A p \in Payloads : SF_vars(Retried(p))

(* A receipt is only ever there with all it stands for: the object in R2,  *)
(* every chunk of its events, a manifest that says committed, and an event *)
(* row that was projected -- whatever other requests for the same payload  *)
(* fail, die or start over afterwards.                                     *)
CommittedIsBacked ==
  \A p \in Payloads :
    receipt[p] # NoReceipt =>
      /\ p \in objects
      /\ staged[p] = ChunkNos
      /\ batch[p].committed_chunks = Chunks
      /\ manifest[p] = "committed"
      /\ projected # NoPayload

(* Job, batch and manifest say committed only by the transaction that also *)
(* wrote the receipt.                                                      *)
NothingCommittedAlone ==
  \A p \in Payloads :
    ( \/ job[p] \in {"committed", "snapshot_pending"}
      \/ batch[p].status = "committed"
      \/ manifest[p] = "committed" )
    => receipt[p] # NoReceipt

(* A request is told of success only for a committed payload, and of a     *)
(* conflict only when its key belongs to another payload.                  *)
AnswersAreTrue ==
  \A i \in Importers :
    /\ importer[i].result = "ok" => receipt[P(i)] # NoReceipt
    /\ importer[i].result = "conflict" => bindings[K(i)] \notin {NoPayload, P(i)}

(* Every key a receipt carries is bound to that payload in R2, so that two *)
(* payloads are never committed under one key, and the lookup of a replay  *)
(* and the binding never disagree about whose key it is.                   *)
KeyNamesOnePayload ==
  \A p \in Payloads : receipt[p] \in Keys => bindings[receipt[p]] = p

(* The promise the import makes to its clients. *)
Ledger == INSTANCE ImportLedger
            WITH NotCommitted <- NoReceipt, kept <- objects, committed <- receipt

ImplementsImportLedger == Ledger!Spec

-----------------------------------------------------------------------------
(* The next two hold when the requests come one after the other, failing   *)
(* calls and dying invocations included.                                   *)

(* A payload's events are written once, with its receipt: a replay never   *)
(* puts an older version back over a later import, nor recounts what was   *)
(* imported.                                                               *)
ProjectedOnce ==
  [][\A p \in Payloads :
       receipt[p] # NoReceipt =>
         /\ batch'[p].counted = batch[p].counted
         /\ projected' = p => projected = p]_vars

(* Once the batch has counted its chunks, a payload whose client keeps     *)
(* retrying is committed, wherever a later attempt fails.                  *)
CountedGetsCommitted ==
  \A p \in Payloads :
    batch[p].committed_chunks = Chunks ~> receipt[p] # NoReceipt

=============================================================================
