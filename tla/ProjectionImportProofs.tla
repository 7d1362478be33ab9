----------------------- MODULE ProjectionImportProofs -----------------------
(***************************************************************************)
(* Proofs about ProjectionImport for every number of requests, payloads,   *)
(* keys, chunks and faults.  Two facts carry the argument: the tables only *)
(* grow in what a request relies on (Grows), and each request, by where it *)
(* is, knows something of the tables that therefore stays true (Knows).    *)
(* At the end, what holds when the requests follow each other.             *)
(***************************************************************************)
EXTENDS ProjectionImport, FiniteSetTheorems, TLAPS

(* An object, a binding and a receipt are never taken back or changed. *)
Grows ==
  /\ objects \subseteq objects'
  /\ \A k \in Keys : bindings[k] # NoPayload => bindings'[k] = bindings[k]
  /\ \A p \in Payloads : receipt[p] # NoReceipt => receipt'[p] = receipt[p]

(* A full count of chunks is a count of all of them. *)
CountIsStaged ==
  \A p \in Payloads :
    batch[p].committed_chunks = Chunks => staged[p] = ChunkNos

TablesOK ==
  /\ TablesTyped
  /\ CountIsStaged
  /\ CommittedIsBacked
  /\ NothingCommittedAlone
  /\ KeyNamesOnePayload

(* Where a request holds its key, its object is kept, its payload has a    *)
(* receipt.                                                                *)
HasKey == {"put", "manifest", "job", "load_batch", "load_receipt", "upsert",
           "load_chunk", "stage", "recount", "counts", "finalize", "reread"}
HasObject == HasKey \ {"put"}
HasReceipt == {"verify", "rebind", "reread", "refresh", "ready", "pending"}

Knows(i) ==
  /\ ~At(i, "idle") \/ importer[i].result # "none" => P(i) \in Payloads
  /\ importer[i].pc \in HasKey => K(i) = NoKey \/ bindings[K(i)] = P(i)
  /\ importer[i].pc \in HasObject => P(i) \in objects
  /\ importer[i].pc \in HasReceipt \/ importer[i].result = "ok"
       => receipt[P(i)] # NoReceipt
  /\ importer[i].result = "conflict"
       => K(i) \in Keys /\ bindings[K(i)] \notin {NoPayload, P(i)}

Inv == TypeOK /\ TablesOK /\ \A i \in Importers : Knows(i)

-----------------------------------------------------------------------------
(* What the statements do to the tables. *)
LEMMA AllChunks == /\ IsFiniteSet(ChunkNos) /\ Cardinality(ChunkNos) = Chunks
                   /\ 0 # Chunks /\ {0, Chunks} \subseteq 0 .. Chunks
<1>1. Chunks \in Int /\ 1 \in Int /\ Chunks >= 1
  BY ChunksAssumption
<1> QED
  BY <1>1, FS_Interval DEF ChunkNos

LEMMA CountChunks ==
  ASSUME NEW S \in SUBSET ChunkNos
  PROVE  /\ Cardinality(S) \in 0 .. Chunks
         /\ Cardinality(S) = Chunks <=> S = ChunkNos
<1>1. /\ IsFiniteSet(S)
      /\ Cardinality(S) <= Chunks
      /\ Cardinality(S) = Chunks => S = ChunkNos
  BY AllChunks, FS_Subset
<1>2. Cardinality(S) \in Nat
  BY <1>1, FS_CardinalityType
<1> QED
  BY <1>1, <1>2, AllChunks, ChunksAssumption

LEMMA StutterKeeps ==
  ASSUME TablesOK, UNCHANGED tables
  PROVE  TablesOK' /\ Grows
BY DEF TablesOK, TablesTyped, CountIsStaged, CommittedIsBacked,
       NothingCommittedAlone, KeyNamesOnePayload, Grows, tables

(* The statements that write only a status, or only the job.  None of them *)
(* takes a committed manifest back or commits anything.                    *)
LEMMA JobKeeps ==
  ASSUME TablesOK, NEW p \in Payloads,
         \/ EnsureProjectionJob(p)
         \/ \E s \in {"committed", "snapshot_pending"} : MarkSnapshot(p, s)
  PROVE  TablesOK' /\ Grows
<1>1. UNCHANGED <<objects, bindings, manifest, batch, staged, receipt, projected>>
  BY DEF EnsureProjectionJob, MarkSnapshot
<1>2. job' \in [Payloads -> {"absent", "running", "committed", "snapshot_pending"}]
  BY DEF EnsureProjectionJob, MarkSnapshot, TablesOK, TablesTyped
<1>3. \A q \in Payloads : job'[q] \in {"committed", "snapshot_pending"}
                           => job[q] \in {"committed", "snapshot_pending"}
  BY DEF EnsureProjectionJob, MarkSnapshot, TablesOK, TablesTyped
<1> QED
  BY <1>1, <1>2, <1>3
     DEF TablesOK, TablesTyped, CountIsStaged, CommittedIsBacked,
         NothingCommittedAlone, KeyNamesOnePayload, Grows

LEMMA ManifestKeeps ==
  ASSUME TablesOK, NEW p \in Payloads,
         RecordStoredManifest(p) \/ MarkImportArtifactFailed(p)
  PROVE  TablesOK' /\ Grows
BY DEF RecordStoredManifest, MarkImportArtifactFailed, SetManifest, TablesOK,
       TablesTyped, CountIsStaged, CommittedIsBacked, NothingCommittedAlone,
       KeyNamesOnePayload, Grows

LEMMA ObjectKeeps ==
  ASSUME TablesOK, NEW p \in Payloads, PutObject(p)
  PROVE  TablesOK' /\ Grows
BY DEF PutObject, TablesOK, TablesTyped, CountIsStaged, CommittedIsBacked,
       NothingCommittedAlone, KeyNamesOnePayload, Grows

LEMMA BindingKeeps ==
  ASSUME TablesOK, NEW p \in Payloads, NEW k \in Keys, PutBinding(p, k)
  PROVE  /\ TablesOK' /\ Grows
         /\ bindings[k] \in {NoPayload, p} => bindings'[k] = p
<1>1. \A l \in Keys : bindings[l] # NoPayload => bindings'[l] = bindings[l]
  BY DEF PutBinding, TablesOK, TablesTyped
<1>2. KeyNamesOnePayload'
  BY <1>1, NoValueAssumption
     DEF PutBinding, TablesOK, TablesTyped, KeyNamesOnePayload
<1> QED
  BY <1>1, <1>2 DEF PutBinding, TablesOK, TablesTyped, CountIsStaged,
     CommittedIsBacked, NothingCommittedAlone, Grows

LEMMA BeginKeeps ==
  ASSUME TablesOK, NEW p \in Payloads, UpsertBatch(p)
  PROVE  TablesOK' /\ Grows
BY DEF UpsertBatch, SetBatch, TablesOK, TablesTyped, CountIsStaged,
       CommittedIsBacked, NothingCommittedAlone, KeyNamesOnePayload, Grows

LEMMA ChunkKeeps ==
  ASSUME TablesOK, NEW p \in Payloads, NEW c \in ChunkNos, StageChunk(p, c)
  PROVE  TablesOK' /\ Grows
BY DEF StageChunk, TablesOK, TablesTyped, CountIsStaged, CommittedIsBacked,
       NothingCommittedAlone, KeyNamesOnePayload, Grows

LEMMA RecountKeeps ==
  ASSUME TablesOK, NEW p \in Payloads, RecountChunks(p)
  PROVE  TablesOK' /\ Grows
<1>1. /\ Cardinality(staged[p]) \in 0 .. Chunks
      /\ Cardinality(staged[p]) = Chunks <=> staged[p] = ChunkNos
  BY CountChunks DEF TablesOK, TablesTyped
<1>2. /\ TablesTyped'
      /\ batch'[p].status = batch[p].status
      /\ batch'[p].committed_chunks = Cardinality(staged[p])
      /\ \A q \in Payloads \ {p} : batch'[q] = batch[q]
      /\ UNCHANGED <<objects, bindings, manifest, job, staged, receipt, projected>>
  BY <1>1 DEF RecountChunks, SetBatch, TablesOK, TablesTyped
<1>3. CountIsStaged' /\ CommittedIsBacked' /\ NothingCommittedAlone'
  BY <1>1, <1>2
     DEF TablesOK, CountIsStaged, CommittedIsBacked, NothingCommittedAlone
<1> QED
  BY <1>2, <1>3 DEF TablesOK, KeyNamesOnePayload, Grows

(* The transaction, for a request that kept its object and holds its key. *)
LEMMA FinalizeKeeps ==
  ASSUME TablesOK, NEW p \in Payloads, NEW k \in MaybeKey,
         NEW counted \in {"none", "imported", "updated"},
         p \in objects, k = NoKey \/ bindings[k] = p,
         FinalizeGuards(p, k), ProjectionFinalize(p, k, counted)
  PROVE  TablesOK' /\ Grows /\ receipt'[p] # NoReceipt
<1>1. TablesTyped'
  BY AllChunks DEF ProjectionFinalize, TablesOK, TablesTyped
<1>2. /\ receipt'[p] # NoReceipt
      /\ receipt'[p] \in {receipt[p], k}
      /\ \A q \in Payloads \ {p} : receipt'[q] = receipt[q]
      /\ receipt[p] # NoReceipt => receipt'[p] = receipt[p]
  BY NoValueAssumption DEF ProjectionFinalize, TablesOK, TablesTyped, MaybeKey
<1>3. staged[p] = ChunkNos
  BY DEF FinalizeGuards, TablesOK, CountIsStaged
<1>4. CountIsStaged' /\ CommittedIsBacked' /\ NothingCommittedAlone'
  BY <1>2, <1>3, NoValueAssumption
     DEF ProjectionFinalize, TablesOK, TablesTyped, CountIsStaged,
         CommittedIsBacked, NothingCommittedAlone
<1>5. KeyNamesOnePayload'
  BY <1>2, NoValueAssumption
     DEF ProjectionFinalize, TablesOK, KeyNamesOnePayload, MaybeKey
<1> QED
  BY <1>1, <1>2, <1>4, <1>5 DEF ProjectionFinalize, TablesOK, Grows

-----------------------------------------------------------------------------
(* What a request knows survives the steps of every other request.         *)
LEMMA Undisturbed ==
  ASSUME TypeOK, Grows, NEW i \in Importers, Knows(i),
         importer'[i] = importer[i]
  PROVE  Knows(i)'
<1>1. importer[i] \in Invocation /\ K(i) \in MaybeKey
  BY DEF TypeOK, Invocation, K
<1>2. bindings[K(i)] = P(i) /\ P(i) \in Payloads /\ K(i) # NoKey
        => bindings'[K(i)] = P(i)
  BY <1>1, NoValueAssumption DEF Grows, MaybeKey
<1>3. K(i) \in Keys /\ bindings[K(i)] # NoPayload => bindings'[K(i)] = bindings[K(i)]
  BY DEF Grows
<1>4. P(i) \in Payloads /\ receipt[P(i)] # NoReceipt => receipt'[P(i)] # NoReceipt
  BY DEF Grows
<1>5. importer[i].pc \in HasKey \cup HasObject \cup HasReceipt => ~At(i, "idle")
  BY DEF HasKey, HasObject, HasReceipt, At
<1>6. P(i)' = P(i) /\ K(i)' = K(i) /\ At(i, "idle")' = At(i, "idle")
  BY DEF P, K, At
<1> QED
  BY <1>2, <1>3, <1>4, <1>5, <1>6 DEF Knows, Grows

(* One request moves to r, knowing at least what its new place promises.   *)
LEMMA Advance ==
  ASSUME Inv, TablesOK', Grows, faults' \in 0 .. MaxFaults,
         NEW i \in Importers, NEW STATE r,
         r \in Invocation, importer' = [importer EXCEPT ![i] = r],
         r.payload \in Payloads,
         r.pc \in HasKey => r.key = NoKey \/ bindings'[r.key] = r.payload,
         r.pc \in HasObject => r.payload \in objects',
         r.pc \in HasReceipt \/ r.result = "ok" => receipt'[r.payload] # NoReceipt,
         r.result = "conflict" =>
           r.key \in Keys /\ bindings'[r.key] \notin {NoPayload, r.payload}
  PROVE  Inv'
<1>1. importer' \in [Importers -> Invocation] /\ importer'[i] = r
  BY DEF Inv, TypeOK
<1>2. TypeOK'
  BY <1>1 DEF TypeOK, TablesOK
<1>3. Knows(i)'
  BY <1>1 DEF Knows, P, K, At
<1>4. \A k \in Importers \ {i} : Knows(k)'
  <2> TAKE k \in Importers \ {i}
  <2>1. importer'[k] = importer[k]
    BY DEF Inv, TypeOK
  <2> QED
    BY <2>1, Undisturbed DEF Inv
<1> QED
  BY <1>2, <1>3, <1>4 DEF Inv

LEMMA GotoTyped ==
  ASSUME TypeOK, NEW i \in Importers, NEW pc \in Steps
  PROVE  /\ Goto(i, pc) \in Invocation
         /\ Goto(i, pc).pc = pc
         /\ \A seen \in {"absent", "importing", "committed"} :
              [Goto(i, pc) EXCEPT !.seen = seen] \in Invocation
         /\ \A chunk \in ChunkNos :
              [Goto(i, pc) EXCEPT !.chunk = chunk] \in Invocation
         /\ \A counted \in {"none", "imported", "updated"} :
              [Goto(i, pc) EXCEPT !.counted = counted] \in Invocation
BY DEF TypeOK, Invocation, Goto

LEMMA AnswerTyped ==
  ASSUME TypeOK, NEW i \in Importers,
         NEW result \in {"none", "ok", "conflict", "error"}
  PROVE  /\ Answer(i, result) \in Invocation
         /\ Answer(i, result).pc = "idle"
         /\ Answer(i, result).payload = P(i)
         /\ Answer(i, result).key = K(i)
         /\ Answer(i, result).result = result
<1>1. 1 \in ChunkNos
  BY ChunksAssumption DEF ChunkNos
<1> QED
  BY <1>1 DEF TypeOK, Invocation, Answer, Idle, P, K, Steps, MaybeKey

LEMMA FaultTyped ==
  ASSUME TypeOK, UNCHANGED faults \/ Fault
  PROVE  faults' \in 0 .. MaxFaults
BY MaxFaultsAssumption DEF TypeOK, Fault

(* The next record of request i within its operation: the place changes,   *)
(* the request does not.                                                   *)
SameRequest(i, r) ==
  /\ r \in Invocation
  /\ r.payload = P(i)
  /\ r.key = K(i)
  /\ r.result = importer[i].result

LEMMA MoveOn ==
  ASSUME Inv, TablesOK', Grows, UNCHANGED faults \/ Fault,
         NEW i \in Importers, ~At(i, "idle"),
         NEW STATE r, SameRequest(i, r), Becomes(i, r),
         r.pc \in HasKey =>
           \/ importer[i].pc \in HasKey
           \/ K(i) = NoKey \/ bindings'[K(i)] = P(i),
         r.pc \in HasObject => importer[i].pc \in HasObject \/ P(i) \in objects',
         r.pc \in HasReceipt =>
           importer[i].pc \in HasReceipt \/ receipt'[P(i)] # NoReceipt
  PROVE  Inv'
<1>1. TypeOK /\ Knows(i) /\ P(i) \in Payloads
  BY DEF Inv, Knows
<1>2. importer[i].pc \in HasKey => K(i) = NoKey \/ bindings'[K(i)] = P(i)
  <2>1. importer[i] \in Invocation /\ K(i) \in MaybeKey
    BY <1>1 DEF TypeOK, Invocation, K
  <2> QED
    BY <1>1, <2>1, NoValueAssumption DEF Knows, Grows, MaybeKey
<1>3. importer[i].pc \in HasObject => P(i) \in objects'
  BY <1>1 DEF Knows, Grows
<1>4. importer[i].pc \in HasReceipt \/ importer[i].result = "ok"
        => receipt'[P(i)] # NoReceipt
  BY <1>1 DEF Knows, Grows
<1>5. importer[i].result = "conflict"
        => K(i) \in Keys /\ bindings'[K(i)] \notin {NoPayload, P(i)}
  BY <1>1 DEF Knows, Grows
<1>6. faults' \in 0 .. MaxFaults
  BY <1>1, FaultTyped
<1>7. r \in Invocation /\ r.payload = P(i) /\ r.key = K(i)
        /\ r.result = importer[i].result
  BY DEF SameRequest
<1> QED
  BY <1>1, <1>2, <1>3, <1>4, <1>5, <1>6, <1>7, Advance DEF Becomes

(* The request is answered: what the answer says has to be true.           *)
LEMMA Answering ==
  ASSUME Inv, TablesOK', Grows, UNCHANGED faults \/ Fault,
         NEW i \in Importers, ~At(i, "idle"),
         NEW result \in {"ok", "conflict", "error"},
         Becomes(i, Answer(i, result)),
         result = "ok" => receipt[P(i)] # NoReceipt,
         result = "conflict" =>
           K(i) \in Keys /\ bindings'[K(i)] \notin {NoPayload, P(i)}
  PROVE  Inv'
<1>1. TypeOK /\ P(i) \in Payloads
  BY DEF Inv, Knows
<1>2. /\ Answer(i, result) \in Invocation
      /\ Answer(i, result).pc = "idle"
      /\ Answer(i, result).payload = P(i)
      /\ Answer(i, result).key = K(i)
      /\ Answer(i, result).result = result
  BY <1>1, AnswerTyped
<1>3. faults' \in 0 .. MaxFaults
  BY <1>1, FaultTyped
<1>4. result = "ok" => receipt'[P(i)] # NoReceipt
  BY <1>1 DEF Grows
<1>5. "idle" \notin HasKey \cup HasObject \cup HasReceipt
  BY DEF HasKey, HasObject, HasReceipt
<1> QED
  BY <1>1, <1>2, <1>3, <1>4, <1>5, Advance DEF Becomes

LEMMA Failing ==
  ASSUME Inv, TablesOK', Grows, UNCHANGED faults \/ Fault,
         NEW i \in Importers, ~At(i, "idle"), Becomes(i, Failed(i))
  PROVE  Inv'
BY Answering DEF Failed

LEMMA GotoFollows ==
  ASSUME TypeOK, NEW i \in Importers, NEW pc \in Steps
  PROVE  SameRequest(i, Goto(i, pc)) /\ Goto(i, pc).pc = pc
<1>1. importer[i] \in Invocation
  BY DEF TypeOK
<1>2. /\ Goto(i, pc).payload = importer[i].payload
      /\ Goto(i, pc).key = importer[i].key
      /\ Goto(i, pc).result = importer[i].result
  BY <1>1 DEF Goto, Invocation
<1> QED
  BY <1>2, GotoTyped DEF SameRequest, P, K

(* The same for the places where the request also remembers something.     *)
LEMMA RememberFollows ==
  ASSUME TypeOK, NEW i \in Importers, NEW pc \in Steps, NEW STATE r,
         \/ \E seen \in {"absent", "importing", "committed"} :
              r = [Goto(i, pc) EXCEPT !.seen = seen]
         \/ \E chunk \in ChunkNos : r = [Goto(i, pc) EXCEPT !.chunk = chunk]
         \/ \E counted \in {"none", "imported", "updated"} :
              r = [Goto(i, pc) EXCEPT !.counted = counted]
  PROVE  SameRequest(i, r) /\ r.pc = pc
<1>1. SameRequest(i, Goto(i, pc)) /\ Goto(i, pc).pc = pc
  BY GotoFollows
<1>2. Goto(i, pc) \in Invocation
  BY <1>1 DEF SameRequest
<1> QED
  BY <1>1, <1>2 DEF SameRequest, Invocation

LEMMA Going ==
  ASSUME Inv, TablesOK', Grows, UNCHANGED faults \/ Fault,
         NEW i \in Importers, ~At(i, "idle"),
         NEW pc \in Steps, Becomes(i, Goto(i, pc)),
         pc \in HasKey =>
           \/ importer[i].pc \in HasKey
           \/ K(i) = NoKey \/ bindings'[K(i)] = P(i),
         pc \in HasObject => importer[i].pc \in HasObject \/ P(i) \in objects',
         pc \in HasReceipt =>
           importer[i].pc \in HasReceipt \/ receipt'[P(i)] # NoReceipt
  PROVE  Inv'
<1>1. SameRequest(i, Goto(i, pc)) /\ Goto(i, pc).pc = pc
  BY GotoFollows DEF Inv
<1> QED
  BY <1>1, MoveOn

(* A failed call before staging answers with an error, one within staging  *)
(* goes to record the failure.                                             *)
LEMMA Falling ==
  ASSUME Inv, TablesOK', Grows, UNCHANGED faults \/ Fault,
         NEW i \in Importers, ~At(i, "idle"),
         Becomes(i, Failed(i)) \/ Becomes(i, Goto(i, "fail"))
  PROVE  Inv'
<1>1. "fail" \in Steps /\ "fail" \notin HasKey \cup HasObject \cup HasReceipt
  BY DEF Steps, HasKey, HasObject, HasReceipt
<1> QED
  BY <1>1, Failing, Going

-----------------------------------------------------------------------------
(* The operation, action by action. *)
LEMMA BeginStep ==
  ASSUME Inv, NEW i \in Importers, NEW p \in Payloads, NEW k \in MaybeKey,
         Begin(i, p, k)
  PROVE  Inv'
<1> DEFINE r == [Idle("none") EXCEPT !.pc = "lookup", !.payload = p, !.key = k]
<1>1. importer' = [importer EXCEPT ![i] = r] /\ UNCHANGED <<tables, faults>>
  BY DEF Begin, Becomes
<1>2. 1 \in ChunkNos
  BY ChunksAssumption DEF ChunkNos
<1>3. /\ r \in Invocation
      /\ r.payload = p /\ r.key = k /\ r.pc = "lookup" /\ r.result = "none"
  BY <1>2 DEF Invocation, Idle, Steps, MaybeKey
<1>4. "lookup" \notin HasKey \cup HasObject \cup HasReceipt
  BY DEF HasKey, HasObject, HasReceipt
<1>5. TablesOK' /\ Grows
  BY <1>1, StutterKeeps DEF Inv
<1>6. faults' \in 0 .. MaxFaults
  BY <1>1 DEF Inv, TypeOK
<1> HIDE DEF r
<1> QED
  BY <1>1, <1>3, <1>4, <1>5, <1>6, Advance

LEMMA LookupStep ==
  ASSUME Inv, NEW i \in Importers, LoadProjectionReceipt(i)
  PROVE  Inv'
<1>1. /\ UNCHANGED tables
      /\ UNCHANGED faults \/ Fault
      /\ At(i, "lookup") /\ ~At(i, "idle")
  BY DEF LoadProjectionReceipt, Read, Call, At
<1>2. TablesOK' /\ Grows /\ receipt' = receipt /\ bindings' = bindings
  BY <1>1, StutterKeeps DEF Inv, tables
<1>3. TypeOK /\ P(i) \in Payloads /\ K(i) \in MaybeKey
  BY <1>1 DEF Inv, Knows, TypeOK, Invocation, K
<1>4. \/ Becomes(i, Goto(i, "verify")) /\ receipt[P(i)] # NoReceipt
      \/ /\ Becomes(i, Answer(i, "conflict"))
         /\ receipt[P(i)] = NoReceipt /\ K(i) # NoKey
         /\ \E q \in Payloads : receipt[q] = K(i)
      \/ Becomes(i, Goto(i, "bind"))
      \/ Becomes(i, Failed(i))
  BY DEF LoadProjectionReceipt, Read, Call
<1>5. CASE Becomes(i, Goto(i, "verify")) /\ receipt[P(i)] # NoReceipt
  <2>1. SameRequest(i, Goto(i, "verify")) /\ Goto(i, "verify").pc = "verify"
    BY <1>3, GotoFollows DEF Steps
  <2>2. "verify" \notin HasKey \cup HasObject
    BY DEF HasKey, HasObject
  <2> QED
    BY <1>1, <1>2, <1>5, <2>1, <2>2, MoveOn
<1>6. CASE /\ Becomes(i, Answer(i, "conflict"))
           /\ receipt[P(i)] = NoReceipt /\ K(i) # NoKey
           /\ \E q \in Payloads : receipt[q] = K(i)
  <2>1. K(i) \in Keys
    BY <1>3, <1>6 DEF MaybeKey
  <2>2. PICK q \in Payloads : receipt[q] = K(i)
    BY <1>6
  <2>3. bindings[K(i)] = q /\ q # P(i) /\ q # NoPayload
    BY <1>6, <2>1, <2>2, NoValueAssumption DEF Inv, TablesOK, KeyNamesOnePayload
  <2> QED
    BY <1>1, <1>2, <1>6, <2>1, <2>3, Answering
<1>7. CASE Becomes(i, Goto(i, "bind"))
  <2>1. SameRequest(i, Goto(i, "bind")) /\ Goto(i, "bind").pc = "bind"
    BY <1>3, GotoFollows DEF Steps
  <2>2. "bind" \notin HasKey \cup HasObject \cup HasReceipt
    BY DEF HasKey, HasObject, HasReceipt
  <2> QED
    BY <1>1, <1>2, <1>7, <2>1, <2>2, MoveOn
<1>8. CASE Becomes(i, Failed(i))
  BY <1>1, <1>2, <1>8, Failing
<1> QED
  BY <1>4, <1>5, <1>6, <1>7, <1>8

LEMMA VerifyStep ==
  ASSUME Inv, NEW i \in Importers, VerifyCommittedArtifactHead(i)
  PROVE  Inv'
<1>1. /\ UNCHANGED tables
      /\ UNCHANGED faults \/ Fault
      /\ importer[i].pc = "verify" /\ ~At(i, "idle")
      /\ Becomes(i, Goto(i, "rebind")) \/ Becomes(i, Failed(i))
  BY DEF VerifyCommittedArtifactHead, Read, Call, At
<1>2. TablesOK' /\ Grows
  BY <1>1, StutterKeeps DEF Inv
<1>3. /\ "rebind" \in Steps /\ "rebind" \notin HasKey \cup HasObject
      /\ "verify" \in HasReceipt
  BY DEF Steps, HasKey, HasObject, HasReceipt
<1> QED
  BY <1>1, <1>2, <1>3, Going, Falling

LEMMA BindStep ==
  ASSUME Inv, NEW i \in Importers, BindRequestIdempotencyKey(i)
  PROVE  Inv'
<1> DEFINE bound == K(i) = NoKey \/ bindings[K(i)] \in {NoPayload, P(i)}
           next == IF At(i, "bind") THEN "put" ELSE "refresh"
           after == IF At(i, "bind") THEN Goto(i, "put") ELSE Goto(i, "refresh")
<1>1. /\ importer[i].pc \in {"bind", "rebind"} /\ ~At(i, "idle")
      /\ UNCHANGED faults \/ Fault
      /\ \/ UNCHANGED tables
         \/ K(i) # NoKey /\ PutBinding(P(i), K(i))
  BY DEF BindRequestIdempotencyKey, Call, At
<1>2. \/ K(i) = NoKey /\ Becomes(i, Goto(i, next))
      \/ K(i) # NoKey /\ bound /\ Becomes(i, Goto(i, next)) /\ PutBinding(P(i), K(i))
      \/ /\ K(i) # NoKey /\ ~bound
         /\ Becomes(i, Answer(i, "conflict")) /\ PutBinding(P(i), K(i))
      \/ Becomes(i, Failed(i))
  <2>1. after = Goto(i, next)
    OBVIOUS
  <2>2. \/ K(i) = NoKey /\ Becomes(i, after)
        \/ K(i) # NoKey /\ bound /\ Becomes(i, after) /\ PutBinding(P(i), K(i))
        \/ /\ K(i) # NoKey /\ ~bound
           /\ Becomes(i, Answer(i, "conflict")) /\ PutBinding(P(i), K(i))
        \/ Becomes(i, Failed(i))
    <3>1. CASE K(i) = NoKey
      BY <3>1 DEF BindRequestIdempotencyKey, Call
    <3>2. CASE K(i) # NoKey /\ bound
      BY <3>2 DEF BindRequestIdempotencyKey, Call
    <3>3. CASE K(i) # NoKey /\ ~bound
      BY <3>3 DEF BindRequestIdempotencyKey, Call
    <3> QED
      BY <3>1, <3>2, <3>3
  <2> QED
    BY <2>1, <2>2
<1>3. TypeOK /\ P(i) \in Payloads /\ K(i) \in MaybeKey /\ TablesOK
  BY <1>1 DEF Inv, Knows, TypeOK, Invocation, K
<1>4. K(i) # NoKey => K(i) \in Keys
  BY <1>3 DEF MaybeKey
<1>5. /\ TablesOK' /\ Grows
      /\ PutBinding(P(i), K(i)) /\ K(i) # NoKey
           => (bindings[K(i)] \in {NoPayload, P(i)} => bindings'[K(i)] = P(i))
  BY <1>1, <1>3, <1>4, StutterKeeps, BindingKeeps
<1>6. /\ {"put", "refresh"} \subseteq Steps
      /\ {"put", "refresh"} \cap HasObject = {}
      /\ "put" \notin HasReceipt /\ "refresh" \notin HasKey /\ "rebind" \in HasReceipt
  BY DEF Steps, HasKey, HasObject, HasReceipt
<1>7. CASE Becomes(i, Goto(i, next)) /\ (K(i) = NoKey \/ bindings'[K(i)] = P(i))
  <2>1. next \in Steps /\ next \notin HasObject
    BY <1>6
  <2>2. next \in HasReceipt => importer[i].pc \in HasReceipt
    BY <1>1, <1>6 DEF At
  <2> HIDE DEF next
  <2> QED
    BY <1>1, <1>5, <1>7, <2>1, <2>2, Going
<1>8. CASE /\ K(i) # NoKey /\ ~bound
           /\ Becomes(i, Answer(i, "conflict")) /\ PutBinding(P(i), K(i))
  <2>1. bindings'[K(i)] = bindings[K(i)] /\ bindings[K(i)] \notin {NoPayload, P(i)}
    BY <1>4, <1>5, <1>8 DEF Grows
  <2> HIDE DEF bound
  <2> QED
    BY <1>1, <1>4, <1>5, <1>8, <2>1, Answering
<1>9. CASE Becomes(i, Failed(i))
  BY <1>1, <1>5, <1>9, Falling
<1> QED
  BY <1>2, <1>5, <1>7, <1>8, <1>9

(* From the put to the job: the object, its manifest, the job row.         *)
LEMMA PersistStep ==
  ASSUME Inv, NEW i \in Importers, PersistObject(i) \/ PersistManifest(i) \/ EnsureJob(i)
  PROVE  Inv'
<1> DEFINE next == CASE At(i, "put") -> "manifest" [] At(i, "manifest") -> "job"
                     [] OTHER -> "load_batch"
<1>1. /\ importer[i].pc \in {"put", "manifest", "job"} /\ ~At(i, "idle")
      /\ UNCHANGED faults \/ Fault
      /\ \/ UNCHANGED tables
         \/ PutObject(P(i)) \/ RecordStoredManifest(P(i)) \/ EnsureProjectionJob(P(i))
      /\ \/ Becomes(i, Goto(i, next)) /\ (At(i, "put") => PutObject(P(i)))
         \/ Becomes(i, Failed(i))
  BY DEF PersistObject, PersistManifest, EnsureJob, Call, At
<1>2. P(i) \in Payloads /\ TablesOK
  BY <1>1 DEF Inv, Knows
<1>3. TablesOK' /\ Grows
  BY <1>1, <1>2, StutterKeeps, ObjectKeeps, ManifestKeeps, JobKeeps
<1>4. CASE Becomes(i, Goto(i, next)) /\ (At(i, "put") => PutObject(P(i)))
  <2>1. next \in Steps /\ next \notin HasReceipt
    BY DEF Steps, HasReceipt
  <2>2. importer[i].pc \in HasKey
    BY <1>1 DEF HasKey
  <2>3. importer[i].pc \in HasObject \/ P(i) \in objects'
    BY <1>1, <1>4 DEF HasObject, HasKey, At, PutObject
  <2> HIDE DEF next
  <2> QED
    BY <1>1, <1>3, <1>4, <2>1, <2>2, <2>3, Going
<1> QED
  BY <1>1, <1>3, <1>4, Falling

(* Within staging every place has the key and the object already.          *)
Staging == {"load_batch", "load_receipt", "upsert", "load_chunk", "stage",
            "recount", "counts", "finalize"}

LEMMA Stays ==
  ASSUME Inv, TablesOK', Grows, UNCHANGED faults \/ Fault,
         NEW i \in Importers, importer[i].pc \in Staging,
         NEW STATE r, SameRequest(i, r), r.pc \in Staging, Becomes(i, r)
  PROVE  Inv'
<1>1. /\ ~At(i, "idle") /\ importer[i].pc \in HasKey \cap HasObject
      /\ r.pc \notin HasReceipt
  BY DEF At, Staging, HasKey, HasObject, HasReceipt
<1> QED
  BY <1>1, MoveOn

(* The reads at the beginning of stageImportBatch. *)
LEMMA LoadStep ==
  ASSUME Inv, NEW i \in Importers,
         LoadExistingBatch(i) \/ LoadFinalizeReceipt(i) \/ ProjectionCounts(i)
  PROVE  Inv'
<1> DEFINE load == [Goto(i, "load_receipt") EXCEPT !.seen = batch[P(i)].status]
           count == [Goto(i, "finalize") EXCEPT
                       !.counted = IF projected = NoPayload THEN "imported" ELSE "updated"]
<1>1. /\ UNCHANGED tables
      /\ UNCHANGED faults \/ Fault
      /\ importer[i].pc \in {"load_batch", "load_receipt", "counts"} /\ ~At(i, "idle")
      /\ \/ Becomes(i, load)
         \/ Becomes(i, count)
         \/ Becomes(i, Goto(i, "upsert"))
         \/ Becomes(i, Goto(i, "load_chunk"))
         \/ Becomes(i, Goto(i, "refresh")) /\ receipt[P(i)] # NoReceipt
         \/ Becomes(i, Goto(i, "fail"))
  BY DEF LoadExistingBatch, LoadFinalizeReceipt, ProjectionCounts, Read, Call, At
<1>2. TablesOK' /\ Grows /\ receipt' = receipt
  BY <1>1, StutterKeeps DEF Inv, tables
<1>3. /\ TypeOK /\ P(i) \in Payloads
      /\ batch[P(i)].status \in {"absent", "importing", "committed"}
  BY <1>1 DEF Inv, Knows, TypeOK, TablesTyped
<1>4. /\ importer[i].pc \in Staging
      /\ {"load_receipt", "finalize", "upsert", "load_chunk"} \subseteq Staging \cap Steps
      /\ "refresh" \in Steps /\ "refresh" \notin HasKey \cup HasObject
  BY <1>1 DEF Staging, Steps, HasKey, HasObject
<1>5. CASE Becomes(i, load)
  <2>1. SameRequest(i, load) /\ load.pc = "load_receipt"
    <3>1. \E seen \in {"absent", "importing", "committed"} :
             load = [Goto(i, "load_receipt") EXCEPT !.seen = seen]
      BY <1>3
    <3> HIDE DEF load
    <3> QED
      BY <1>3, <1>4, <3>1, RememberFollows
  <2> HIDE DEF load
  <2> QED
    BY <1>1, <1>2, <1>4, <1>5, <2>1, Stays
<1>6. CASE Becomes(i, count)
  <2>1. SameRequest(i, count) /\ count.pc = "finalize"
    <3>1. \E counted \in {"none", "imported", "updated"} :
             count = [Goto(i, "finalize") EXCEPT !.counted = counted]
      OBVIOUS
    <3> HIDE DEF count
    <3> QED
      BY <1>3, <1>4, <3>1, RememberFollows
  <2> HIDE DEF count
  <2> QED
    BY <1>1, <1>2, <1>4, <1>6, <2>1, Stays
<1>7. ASSUME NEW pc \in {"upsert", "load_chunk"}, Becomes(i, Goto(i, pc)) PROVE Inv'
  <2>1. SameRequest(i, Goto(i, pc)) /\ Goto(i, pc).pc = pc
    BY <1>3, <1>4, GotoFollows
  <2> QED
    BY <1>1, <1>2, <1>4, <1>7, <2>1, Stays
<1>8. CASE Becomes(i, Goto(i, "refresh")) /\ receipt[P(i)] # NoReceipt
  BY <1>1, <1>2, <1>4, <1>8, Going
<1>9. CASE Becomes(i, Goto(i, "fail"))
  BY <1>1, <1>2, <1>9, Falling
<1> HIDE DEF load, count
<1> QED
  BY <1>1, <1>5, <1>6, <1>7, <1>8, <1>9

LEMMA AfterChunkFollows ==
  ASSUME TypeOK, NEW i \in Importers
  PROVE  SameRequest(i, AfterChunk(i)) /\ AfterChunk(i).pc \in {"counts", "load_chunk"}
<1>1. {"counts", "load_chunk"} \subseteq Steps /\ importer[i].chunk \in 1 .. Chunks
  BY DEF Steps, TypeOK, Invocation, ChunkNos
<1>2. CASE importer[i].chunk = Chunks
  BY <1>1, <1>2, GotoFollows DEF AfterChunk
<1>3. CASE importer[i].chunk # Chunks
  <2>1. importer[i].chunk + 1 \in ChunkNos
    BY <1>1, <1>3, ChunksAssumption DEF ChunkNos
  <2>2. \E chunk \in ChunkNos :
          AfterChunk(i) = [Goto(i, "load_chunk") EXCEPT !.chunk = chunk]
    BY <1>3, <2>1 DEF AfterChunk
  <2> QED
    BY <1>1, <2>2, RememberFollows
<1> QED
  BY <1>2, <1>3

(* The batch row and its chunks. *)
LEMMA ChunkStep ==
  ASSUME Inv, NEW i \in Importers,
         BeginBatch(i) \/ LoadExistingChunk(i) \/ CommitChunk(i) \/ Recount(i)
  PROVE  Inv'
<1>1. /\ UNCHANGED faults \/ Fault
      /\ importer[i].pc \in {"upsert", "load_chunk", "stage", "recount"}
      /\ ~At(i, "idle")
      /\ \/ UNCHANGED tables
         \/ UpsertBatch(P(i)) \/ StageChunk(P(i), importer[i].chunk)
         \/ RecountChunks(P(i))
      /\ \/ Becomes(i, AfterChunk(i))
         \/ \E pc \in {"load_chunk", "stage", "recount"} : Becomes(i, Goto(i, pc))
         \/ Becomes(i, Goto(i, "fail"))
  BY DEF BeginBatch, LoadExistingChunk, CommitChunk, Recount, Read, Call, At
<1>2. TypeOK /\ P(i) \in Payloads /\ TablesOK /\ importer[i].chunk \in ChunkNos
  BY <1>1 DEF Inv, Knows, TypeOK, Invocation
<1>3. TablesOK' /\ Grows
  BY <1>1, <1>2, StutterKeeps, BeginKeeps, ChunkKeeps, RecountKeeps
<1>4. /\ importer[i].pc \in Staging
      /\ {"load_chunk", "stage", "recount", "counts"} \subseteq Staging \cap Steps
  BY <1>1 DEF Staging, Steps
<1>5. CASE Becomes(i, AfterChunk(i))
  BY <1>1, <1>2, <1>3, <1>4, <1>5, AfterChunkFollows, Stays
<1>6. ASSUME NEW pc \in {"load_chunk", "stage", "recount"}, Becomes(i, Goto(i, pc))
      PROVE  Inv'
  <2>1. SameRequest(i, Goto(i, pc)) /\ Goto(i, pc).pc = pc
    BY <1>2, <1>4, GotoFollows
  <2> QED
    BY <1>1, <1>3, <1>4, <1>6, <2>1, Stays
<1>7. CASE Becomes(i, Goto(i, "fail"))
  BY <1>1, <1>3, <1>7, Falling
<1> QED
  BY <1>1, <1>5, <1>6, <1>7

(* The transaction: either it is rolled back, or its guards and what the   *)
(* request knows make everything it commits whole.                         *)
LEMMA FinalizeStep ==
  ASSUME Inv, NEW i \in Importers, FinalizeImportBatch(i)
  PROVE  Inv'
<1>1. /\ UNCHANGED faults \/ Fault
      /\ importer[i].pc = "finalize" /\ ~At(i, "idle")
      /\ \/ UNCHANGED tables
         \/ /\ FinalizeGuards(P(i), K(i))
            /\ ProjectionFinalize(P(i), K(i), importer[i].counted)
      /\ \/ /\ Becomes(i, Goto(i, "reread"))
            /\ FinalizeGuards(P(i), K(i))
            /\ ProjectionFinalize(P(i), K(i), importer[i].counted)
         \/ Becomes(i, Goto(i, "fail"))
  BY DEF FinalizeImportBatch, Call, At
<1>2. /\ TypeOK /\ P(i) \in Payloads /\ TablesOK /\ K(i) \in MaybeKey
      /\ importer[i].counted \in {"none", "imported", "updated"}
  BY <1>1 DEF Inv, Knows, TypeOK, Invocation, K
<1>3. P(i) \in objects /\ (K(i) = NoKey \/ bindings[K(i)] = P(i))
  BY <1>1 DEF Inv, Knows, HasKey, HasObject
<1>4. /\ TablesOK' /\ Grows
      /\ FinalizeGuards(P(i), K(i))
         /\ ProjectionFinalize(P(i), K(i), importer[i].counted)
           => receipt'[P(i)] # NoReceipt
  BY <1>1, <1>2, <1>3, StutterKeeps, FinalizeKeeps
<1>5. /\ "reread" \in Steps
      /\ importer[i].pc \in HasKey \cap HasObject
  BY <1>1 DEF Steps, HasKey, HasObject
<1>6. CASE Becomes(i, Goto(i, "reread")) /\ receipt'[P(i)] # NoReceipt
  BY <1>1, <1>4, <1>5, <1>6, Going
<1>7. CASE Becomes(i, Goto(i, "fail"))
  BY <1>1, <1>4, <1>7, Falling
<1> QED
  BY <1>1, <1>4, <1>6, <1>7

(* What follows a commit: the receipt is there all the way to the answer.  *)
LEMMA RefreshStep ==
  ASSUME Inv, NEW i \in Importers,
         RereadBatch(i) \/ RefreshSnapshots(i) \/ MarkSnapshotReady(i)
           \/ MarkSnapshotPending(i)
  PROVE  Inv'
<1>1. /\ UNCHANGED faults \/ Fault
      /\ importer[i].pc \in {"reread", "refresh", "ready", "pending"}
      /\ ~At(i, "idle")
      /\ \/ UNCHANGED tables
         \/ MarkSnapshot(P(i), "committed") \/ MarkSnapshot(P(i), "snapshot_pending")
      /\ \/ \E pc \in {"refresh", "ready", "pending"} : Becomes(i, Goto(i, pc))
         \/ Becomes(i, Answer(i, "ok"))
         \/ Becomes(i, Failed(i)) \/ Becomes(i, Goto(i, "fail"))
  BY DEF RereadBatch, RefreshSnapshots, MarkSnapshotReady, MarkSnapshotPending,
         Read, Call, At
<1>2. P(i) \in Payloads /\ TablesOK
  BY <1>1 DEF Inv, Knows
<1>3. TablesOK' /\ Grows
  BY <1>1, <1>2, StutterKeeps, JobKeeps
<1>4. /\ importer[i].pc \in HasReceipt
      /\ {"refresh", "ready", "pending"} \subseteq Steps
      /\ {"refresh", "ready", "pending"} \cap (HasKey \cup HasObject) = {}
  BY <1>1 DEF Steps, HasKey, HasObject, HasReceipt
<1>5. ASSUME NEW pc \in {"refresh", "ready", "pending"}, Becomes(i, Goto(i, pc))
      PROVE  Inv'
  BY <1>1, <1>3, <1>4, <1>5, Going
<1>6. CASE Becomes(i, Answer(i, "ok"))
  <2>1. receipt[P(i)] # NoReceipt
    BY <1>4 DEF Inv, Knows
  <2> QED
    BY <1>1, <1>3, <1>6, <2>1, Answering
<1>7. CASE Becomes(i, Failed(i)) \/ Becomes(i, Goto(i, "fail"))
  BY <1>1, <1>3, <1>7, Falling
<1> QED
  BY <1>1, <1>5, <1>6, <1>7

LEMMA FailureStep ==
  ASSUME Inv, NEW i \in Importers, RecordFailure(i) \/ Dies(i)
  PROVE  Inv'
<1>1. /\ UNCHANGED faults \/ Fault
      /\ ~At(i, "idle")
      /\ UNCHANGED tables \/ MarkImportArtifactFailed(P(i))
      /\ Becomes(i, Failed(i))
  BY DEF RecordFailure, Dies, Call, At
<1>2. P(i) \in Payloads /\ TablesOK
  BY <1>1 DEF Inv, Knows
<1>3. TablesOK' /\ Grows
  BY <1>1, <1>2, StutterKeeps, ManifestKeeps
<1> QED
  BY <1>1, <1>3, Falling

LEMMA ReconcileStep ==
  ASSUME Inv, NEW p \in Payloads, ReconcileSnapshotPendingJobs(p)
  PROVE  Inv'
<1>1. MarkSnapshot(p, "committed") /\ UNCHANGED <<importer, faults>>
  BY DEF ReconcileSnapshotPendingJobs, MarkSnapshot
<1>2. TablesOK' /\ Grows
  BY <1>1, JobKeeps DEF Inv
<1>3. TypeOK'
  BY <1>1, <1>2 DEF Inv, TypeOK, TablesOK
<1>4. \A i \in Importers : Knows(i)'
  BY <1>1, <1>2, Undisturbed DEF Inv
<1> QED
  BY <1>2, <1>3, <1>4 DEF Inv

LEMMA InvStep == Inv /\ [Next]_vars => Inv'
<1> SUFFICES ASSUME Inv, [Next]_vars PROVE Inv'
  OBVIOUS
<1>1. ASSUME NEW i \in Importers, NEW p \in Payloads, NEW k \in MaybeKey,
             Begin(i, p, k)
      PROVE  Inv'
  BY <1>1, BeginStep
<1>2. ASSUME NEW i \in Importers, ImporterStep(i) PROVE Inv'
  BY <1>2, LookupStep, VerifyStep, BindStep, PersistStep, LoadStep, ChunkStep,
     FinalizeStep, RefreshStep, FailureStep DEF ImporterStep
<1>3. ASSUME NEW i \in Importers, Dies(i) PROVE Inv'
  BY <1>3, FailureStep
<1>4. ASSUME NEW p \in Payloads, ReconcileSnapshotPendingJobs(p) PROVE Inv'
  BY <1>4, ReconcileStep
<1>5. CASE UNCHANGED vars
  <2>1. UNCHANGED tables /\ UNCHANGED importer /\ UNCHANGED faults
    BY <1>5 DEF vars
  <2>2. TablesOK' /\ Grows
    BY <2>1, StutterKeeps DEF Inv
  <2>3. TypeOK'
    BY <2>1, <2>2 DEF Inv, TypeOK, TablesOK
  <2>4. \A i \in Importers : Knows(i)'
    BY <2>1, <2>2, Undisturbed DEF Inv
  <2> QED
    BY <2>2, <2>3, <2>4 DEF Inv
<1> QED
  BY <1>1, <1>2, <1>3, <1>4, <1>5 DEF Next

LEMMA InvInit == Init => Inv
<1> SUFFICES ASSUME Init PROVE Inv
  OBVIOUS
<1>1. 0 \in 0 .. Chunks /\ 0 # Chunks /\ 1 \in ChunkNos /\ 0 \in 0 .. MaxFaults
  BY AllChunks, ChunksAssumption, MaxFaultsAssumption DEF ChunkNos
<1>2. TablesTyped
  BY <1>1 DEF Init, TablesTyped
<1>3. CountIsStaged /\ CommittedIsBacked /\ NothingCommittedAlone /\ KeyNamesOnePayload
  BY <1>1, NoValueAssumption DEF Init, CountIsStaged, CommittedIsBacked,
     NothingCommittedAlone, KeyNamesOnePayload
<1>4. /\ Idle("none") \in Invocation
      /\ Idle("none").pc = "idle" /\ Idle("none").result = "none"
  BY <1>1 DEF Idle, Invocation, Steps, MaybeKey
<1>5. TypeOK
  BY <1>1, <1>2, <1>4 DEF Init, TypeOK
<1>6. \A i \in Importers : Knows(i)
  BY <1>4 DEF Init, Knows, At, HasKey, HasObject, HasReceipt
<1> QED
  BY <1>2, <1>3, <1>5, <1>6 DEF Inv, TablesOK
-----------------------------------------------------------------------------
(* What requests, failing calls and dying invocations keep true, for every *)
(* number of overlapping requests and faults.                              *)
THEOREM Invariance == Spec => []Inv
<1> QED
  BY InvInit, InvStep, PTL DEF Spec

(* The tables and the memory of the requests keep their types.             *)
THEOREM Typing == Spec => []TypeOK
<1>1. Inv => TypeOK
  BY DEF Inv
<1> QED
  BY <1>1, Invariance, PTL

(* A receipt always has its object, its chunks, its count and its manifest *)
(* behind it, whatever overlaps and fails.                                 *)
THEOREM CommittedBacked == Spec => []CommittedIsBacked
<1>1. Inv => CommittedIsBacked
  BY DEF Inv, TablesOK
<1> QED
  BY <1>1, Invariance, PTL

(* No status says committed without the receipt.                           *)
THEOREM CommittedTogether == Spec => []NothingCommittedAlone
<1>1. Inv => NothingCommittedAlone
  BY DEF Inv, TablesOK
<1> QED
  BY <1>1, Invariance, PTL

(* Success is only answered for what is committed, a conflict only for a   *)
(* key that is another payload's.                                          *)
THEOREM TrueAnswers == Spec => []AnswersAreTrue
<1>1. Inv => AnswersAreTrue
  BY DEF Inv, Knows, AnswersAreTrue
<1> QED
  BY <1>1, Invariance, PTL

(* The binding in R2 and the receipt in D1 agree whose key it is.          *)
THEOREM KeysAgree == Spec => []KeyNamesOnePayload
<1>1. Inv => KeyNamesOnePayload
  BY DEF Inv, TablesOK
<1> QED
  BY <1>1, Invariance, PTL

-----------------------------------------------------------------------------
(* Of all the calls of a request two are visible in the ledger: the put of *)
(* the object, and the first transaction that finalizes the payload.       *)
LEMMA QuietStep ==
  ASSUME NEW i \in Importers,
         \/ LoadProjectionReceipt(i) \/ VerifyCommittedArtifactHead(i)
         \/ BindRequestIdempotencyKey(i) \/ PersistManifest(i)
         \/ EnsureJob(i) \/ LoadExistingBatch(i) \/ LoadFinalizeReceipt(i)
         \/ BeginBatch(i) \/ LoadExistingChunk(i) \/ CommitChunk(i) \/ Recount(i)
         \/ ProjectionCounts(i) \/ RereadBatch(i) \/ RecordFailure(i)
         \/ RefreshSnapshots(i) \/ MarkSnapshotReady(i) \/ MarkSnapshotPending(i)
  PROVE  UNCHANGED <<objects, receipt>>
<1>1. CASE \/ LoadProjectionReceipt(i) \/ VerifyCommittedArtifactHead(i)
           \/ LoadExistingBatch(i) \/ LoadFinalizeReceipt(i) \/ LoadExistingChunk(i)
           \/ ProjectionCounts(i) \/ RereadBatch(i) \/ RefreshSnapshots(i)
  <2>1. UNCHANGED tables
    BY <1>1 DEF LoadProjectionReceipt, VerifyCommittedArtifactHead,
       LoadExistingBatch, LoadFinalizeReceipt, LoadExistingChunk,
       ProjectionCounts, RereadBatch, RefreshSnapshots, Read, Call
  <2> QED
    BY <2>1 DEF tables
<1>2. CASE BindRequestIdempotencyKey(i)
  <2>1. UNCHANGED tables \/ PutBinding(P(i), K(i))
    BY <1>2 DEF BindRequestIdempotencyKey, Call
  <2> QED
    BY <2>1 DEF tables, PutBinding
<1>3. CASE \/ PersistManifest(i) \/ RecordFailure(i) \/ EnsureJob(i)
           \/ MarkSnapshotReady(i) \/ MarkSnapshotPending(i)
  BY <1>3 DEF PersistManifest, RecordFailure, EnsureJob, MarkSnapshotReady,
     MarkSnapshotPending, Call, RecordStoredManifest, MarkImportArtifactFailed,
     SetManifest, EnsureProjectionJob, MarkSnapshot, tables
<1>4. CASE BeginBatch(i) \/ CommitChunk(i) \/ Recount(i)
  BY <1>4 DEF BeginBatch, CommitChunk, Recount, Call, UpsertBatch, StageChunk,
     RecountChunks, SetBatch, tables
<1> QED
  BY <1>1, <1>2, <1>3, <1>4

LEMMA FinalizeCommits ==
  ASSUME Inv, NEW i \in Importers, FinalizeImportBatch(i)
  PROVE  UNCHANGED <<objects, receipt>> \/ Ledger!Commit(P(i), K(i))
<1>1. /\ importer[i].pc = "finalize" /\ ~At(i, "idle")
      /\ \/ UNCHANGED tables
         \/ /\ FinalizeGuards(P(i), K(i))
            /\ ProjectionFinalize(P(i), K(i), importer[i].counted)
  BY DEF FinalizeImportBatch, Call, At
<1>2. /\ P(i) \in Payloads /\ K(i) \in MaybeKey /\ P(i) \in objects
      /\ receipt \in [Payloads -> MaybeKey \cup {NoReceipt}]
  BY <1>1 DEF Inv, Knows, TypeOK, TablesTyped, Invocation, K, HasObject, HasKey
<1>3. CASE UNCHANGED tables
  BY <1>3 DEF tables
<1>4. CASE /\ FinalizeGuards(P(i), K(i))
           /\ ProjectionFinalize(P(i), K(i), importer[i].counted)
  <2>1. CASE receipt[P(i)] # NoReceipt
    BY <1>2, <1>4, <2>1 DEF ProjectionFinalize
  <2>2. CASE receipt[P(i)] = NoReceipt
    <3>1. receipt' = [receipt EXCEPT ![P(i)] = K(i)] /\ UNCHANGED objects
      BY <1>4, <2>2 DEF ProjectionFinalize
    <3>2. K(i) = NoKey \/ \A q \in Payloads : receipt[q] # K(i)
      BY <1>2, <1>4, <2>2, NoValueAssumption DEF FinalizeGuards, MaybeKey
    <3> QED
      BY <1>2, <2>2, <3>1, <3>2 DEF Ledger!Commit
  <2> QED
    BY <2>1, <2>2
<1> QED
  BY <1>1, <1>3, <1>4

LEMMA LedgerStep == Inv /\ [Next]_vars => [Ledger!Next]_Ledger!vars
<1> SUFFICES ASSUME Inv, [Next]_vars PROVE [Ledger!Next]_Ledger!vars
  OBVIOUS
<1>1. ASSUME NEW i \in Importers, PersistObject(i)
      PROVE  P(i) \in Payloads /\ (UNCHANGED <<objects, receipt>> \/ Ledger!Keep(P(i)))
  <2>1. P(i) \in Payloads
    BY <1>1 DEF PersistObject, At, Inv, Knows
  <2> QED
    BY <1>1, <2>1 DEF PersistObject, Call, PutObject, Ledger!Keep, tables
<1>2. ASSUME NEW i \in Importers, FinalizeImportBatch(i)
      PROVE  \/ UNCHANGED <<objects, receipt>>
             \/ \E p \in Payloads, k \in Keys \cup {NoKey} : Ledger!Commit(p, k)
  <2>1. P(i) \in Payloads /\ K(i) \in Keys \cup {NoKey}
    BY <1>2 DEF FinalizeImportBatch, At, Inv, Knows, TypeOK, Invocation, K, MaybeKey
  <2> QED
    BY <1>2, <2>1, FinalizeCommits
<1>3. CASE \/ UNCHANGED <<objects, receipt>>
           \/ \E p \in Payloads : Ledger!Keep(p)
           \/ \E p \in Payloads, k \in Keys \cup {NoKey} : Ledger!Commit(p, k)
  BY <1>3 DEF Ledger!Next, Ledger!vars
<1>4. ASSUME NEW i \in Importers, ImporterStep(i)
      PROVE  [Ledger!Next]_Ledger!vars
  BY <1>1, <1>2, <1>3, <1>4, QuietStep DEF ImporterStep
<1>5. CASE \E i \in Importers, p \in Payloads, k \in MaybeKey : Begin(i, p, k)
  BY <1>3, <1>5 DEF Begin, tables
<1>6. CASE \/ \E i \in Importers : Dies(i)
           \/ \E p \in Payloads : ReconcileSnapshotPendingJobs(p)
           \/ UNCHANGED vars
  BY <1>3, <1>6 DEF Dies, ReconcileSnapshotPendingJobs, vars, tables
<1> QED
  BY <1>4, <1>5, <1>6 DEF Next

(* The import keeps its promise: objects before commits, one commit per    *)
(* payload, one payload per key, with any number of overlapping requests.  *)
THEOREM LedgerKept == Spec => ImplementsImportLedger
<1>1. Init => Ledger!Init
  BY DEF Init, Ledger!Init
<1> QED
  BY <1>1, LedgerStep, Invariance, PTL DEF Spec, Ledger!Spec, ImplementsImportLedger

-----------------------------------------------------------------------------
(* Requests that come one after the other: a request between its lookup    *)
(* and its transaction works for a payload without a receipt.              *)
OneAtATime == \A i, k \in Importers : i = k

Unserved == (HasKey \cup {"bind"}) \ {"reread"}

Serves(i) == importer[i].pc \in Unserved => receipt[P(i)] = NoReceipt

(* What the events row and the counts of the batches are for a payload.    *)
Lasting ==
  /\ UNCHANGED projected
  /\ \A p \in Payloads : batch'[p].counted = batch[p].counted

LEMMA BatchLasts ==
  ASSUME TypeOK, NEW p \in Payloads, UpsertBatch(p) \/ RecountChunks(p)
  PROVE  Lasting
<1>1. batch \in [Payloads -> [status : {"absent", "importing", "committed"},
                              committed_chunks : 0 .. Chunks,
                              counted : {"none", "imported", "updated"}]]
  BY DEF TypeOK, TablesTyped
<1>2. CASE UpsertBatch(p)
  BY <1>1, <1>2 DEF UpsertBatch, SetBatch, Lasting
<1>3. CASE RecountChunks(p)
  <2> DEFINE n == Cardinality(staged[p])
  <2>1. batch' = [batch EXCEPT ![p] = [batch[p] EXCEPT !.committed_chunks = n]]
    BY <1>3 DEF RecountChunks, SetBatch
  <2> HIDE DEF n
  <2> QED
    BY <1>1, <1>3, <2>1 DEF RecountChunks, SetBatch, Lasting
<1> QED
  BY <1>2, <1>3

(* Only the transaction writes receipts, counts and events, and a request  *)
(* comes to it by way of a lookup that found no receipt.                   *)
LEMMA OtherStepsLast ==
  ASSUME Inv, NEW i \in Importers, ImporterStep(i), ~FinalizeImportBatch(i)
  PROVE  /\ Lasting /\ UNCHANGED receipt
         /\ \E r : Becomes(i, r)
         /\ importer'[i].pc \in Unserved =>
              /\ P(i)' = P(i)
              /\ importer[i].pc \in Unserved \/ receipt[P(i)] = NoReceipt
<1>1. TypeOK /\ ~At(i, "idle") /\ P(i) \in Payloads
  BY DEF ImporterStep, Inv, Knows, At, LoadProjectionReceipt,
     VerifyCommittedArtifactHead, BindRequestIdempotencyKey, PersistObject,
     PersistManifest, EnsureJob, LoadExistingBatch, LoadFinalizeReceipt,
     BeginBatch, LoadExistingChunk, CommitChunk, Recount, ProjectionCounts,
     RereadBatch, RecordFailure, RefreshSnapshots, MarkSnapshotReady,
     MarkSnapshotPending
<1>2. Lasting /\ UNCHANGED receipt
  <2>1. UNCHANGED receipt
    BY QuietStep DEF ImporterStep, PersistObject, Call, PutObject, tables
  <2>2. CASE \/ LoadProjectionReceipt(i) \/ VerifyCommittedArtifactHead(i)
             \/ LoadExistingBatch(i) \/ LoadFinalizeReceipt(i)
             \/ LoadExistingChunk(i)
             \/ ProjectionCounts(i) \/ RereadBatch(i) \/ RefreshSnapshots(i)
    BY <2>2 DEF LoadProjectionReceipt, VerifyCommittedArtifactHead,
       LoadExistingBatch, LoadFinalizeReceipt, LoadExistingChunk,
       ProjectionCounts, RereadBatch, RefreshSnapshots, Read, Call, tables,
       Lasting
  <2>3. CASE BindRequestIdempotencyKey(i)
    BY <2>3 DEF BindRequestIdempotencyKey, Call, PutBinding, tables, Lasting
  <2>4. CASE \/ PersistObject(i) \/ PersistManifest(i) \/ RecordFailure(i)
             \/ EnsureJob(i) \/ MarkSnapshotReady(i) \/ MarkSnapshotPending(i)
    BY <2>4 DEF PersistObject, PersistManifest, RecordFailure, EnsureJob,
       MarkSnapshotReady, MarkSnapshotPending, Call, PutObject,
       RecordStoredManifest, MarkImportArtifactFailed, SetManifest,
       EnsureProjectionJob, MarkSnapshot, tables, Lasting
  <2>5. CASE BeginBatch(i) \/ CommitChunk(i) \/ Recount(i)
    <3>1. \/ UNCHANGED <<batch, projected>>
          \/ UpsertBatch(P(i)) \/ RecountChunks(P(i))
      BY <2>5 DEF BeginBatch, CommitChunk, Recount, Call, StageChunk, tables
    <3>2. UNCHANGED <<batch, projected>> => Lasting
      BY DEF Lasting
    <3> QED
      BY <1>1, <2>1, <3>1, <3>2, BatchLasts
  <2> QED
    BY <2>1, <2>2, <2>3, <2>4, <2>5 DEF ImporterStep
<1>3. PICK r : /\ Becomes(i, r)
               /\ \/ r.pc \notin Unserved
                  \/ /\ r.payload = P(i)
                     /\ \/ importer[i].pc \in Unserved
                        \/ receipt[P(i)] = NoReceipt
  <2>1. \A pc \in Steps : Goto(i, pc).pc = pc /\ Goto(i, pc).payload = P(i)
    BY <1>1, GotoFollows DEF SameRequest
  <2>2. \A result \in {"none", "ok", "conflict", "error"} :
          Answer(i, result).pc \notin Unserved /\ Failed(i).pc \notin Unserved
    BY <1>1, AnswerTyped DEF Failed, Unserved, HasKey
  <2>3. {"verify", "rebind", "refresh", "ready", "pending", "fail", "reread",
         "lookup"} \cap Unserved = {}
    BY DEF Unserved, HasKey
  <2>4. CASE LoadProjectionReceipt(i)
    BY <2>1, <2>2, <2>3, <2>4 DEF LoadProjectionReceipt, Read, Call, Steps
  <2>5. CASE \/ VerifyCommittedArtifactHead(i) \/ RereadBatch(i)
             \/ RecordFailure(i) \/ RefreshSnapshots(i) \/ MarkSnapshotReady(i)
             \/ MarkSnapshotPending(i)
    BY <2>1, <2>2, <2>3, <2>5
       DEF VerifyCommittedArtifactHead, RereadBatch, RecordFailure,
           RefreshSnapshots, MarkSnapshotReady, MarkSnapshotPending, Read,
           Call, Steps
  <2>6. CASE BindRequestIdempotencyKey(i)
    <3>1. \/ At(i, "bind")
          \/ \E pc \in {"refresh"} : Becomes(i, Goto(i, pc))
          \/ \E result \in {"conflict", "error"} : Becomes(i, Answer(i, result))
      BY <2>6 DEF BindRequestIdempotencyKey, Call, Failed
    <3>2. At(i, "bind") => importer[i].pc \in Unserved
      BY DEF At, Unserved
    <3>3. At(i, "bind") => \/ Becomes(i, Goto(i, "put"))
                           \/ \E result \in {"conflict", "error"} :
                                Becomes(i, Answer(i, result))
      BY <2>6 DEF BindRequestIdempotencyKey, Call, Failed
    <3> QED
      BY <2>1, <2>2, <2>3, <3>1, <3>2, <3>3 DEF Steps
  <2>7. CASE \/ PersistObject(i) \/ PersistManifest(i) \/ EnsureJob(i)
             \/ BeginBatch(i) \/ CommitChunk(i)
    <3>1. importer[i].pc \in Unserved
      BY <2>7 DEF PersistObject, PersistManifest, EnsureJob, BeginBatch,
         CommitChunk, At, Unserved, HasKey
    <3>2. \/ \E pc \in Steps : Becomes(i, Goto(i, pc))
          \/ Becomes(i, Failed(i))
      BY <2>7 DEF PersistObject, PersistManifest, EnsureJob, BeginBatch,
         CommitChunk, Call, Steps
    <3> QED
      BY <2>1, <2>2, <3>1, <3>2
  <2>8. CASE \/ LoadExistingBatch(i) \/ LoadFinalizeReceipt(i)
             \/ LoadExistingChunk(i) \/ Recount(i) \/ ProjectionCounts(i)
    <3>1. importer[i].pc \in Unserved
      BY <2>8 DEF LoadExistingBatch, LoadFinalizeReceipt, LoadExistingChunk,
         Recount, ProjectionCounts, At, Unserved, HasKey
    <3>2. \/ \E pc \in Steps : Becomes(i, Goto(i, pc))
          \/ Becomes(i, AfterChunk(i))
          \/ Becomes(i, [Goto(i, "load_receipt") EXCEPT
                           !.seen = batch[P(i)].status])
          \/ Becomes(i, [Goto(i, "finalize") EXCEPT
               !.counted = IF projected = NoPayload THEN "imported"
                                                    ELSE "updated"])
      BY <2>8 DEF LoadExistingBatch, LoadFinalizeReceipt, LoadExistingChunk,
         Recount, ProjectionCounts, Read, Call, Steps
    <3>3. AfterChunk(i).payload = P(i)
      BY <1>1, AfterChunkFollows DEF SameRequest
    <3>4. \A pc \in {"load_receipt", "finalize"} : \A x :
            /\ [Goto(i, pc) EXCEPT !.seen = x].payload = P(i)
            /\ [Goto(i, pc) EXCEPT !.counted = x].payload = P(i)
      <4>1. \A pc \in {"load_receipt", "finalize"} : Goto(i, pc) \in Invocation
        BY <1>1, GotoFollows DEF Steps, SameRequest
      <4> QED
        BY <2>1, <4>1 DEF Invocation, Steps
    <3> QED
      BY <2>1, <3>1, <3>2, <3>3, <3>4
  <2> QED
    BY <2>4, <2>5, <2>6, <2>7, <2>8 DEF ImporterStep
<1>4. importer'[i] = r
  BY <1>1, <1>3 DEF Becomes, TypeOK
<1> QED
  BY <1>2, <1>3, <1>4 DEF P

(* The transaction of a request that found no receipt is the first one.    *)
LEMMA FinalizeIsFirst ==
  ASSUME Inv, NEW i \in Importers, FinalizeImportBatch(i), Serves(i)
  PROVE  /\ \A p \in Payloads :
              receipt[p] # NoReceipt =>
                /\ batch'[p].counted = batch[p].counted
                /\ projected' = p => projected = p
         /\ importer'[i].pc \notin Unserved
<1>1. /\ TypeOK /\ importer[i].pc = "finalize" /\ P(i) \in Payloads
  BY DEF FinalizeImportBatch, At, Inv, Knows
<1>2. receipt[P(i)] = NoReceipt
  BY <1>1 DEF Serves, Unserved, HasKey
<1>3. /\ \/ UNCHANGED tables
         \/ ProjectionFinalize(P(i), K(i), importer[i].counted)
      /\ \E pc \in {"reread", "fail"} : Becomes(i, Goto(i, pc))
  BY DEF FinalizeImportBatch, Call
<1>4. importer'[i].pc \in {"reread", "fail"}
  BY <1>1, <1>3, GotoFollows DEF Becomes, TypeOK, Steps
<1>5. \A p \in Payloads \ {P(i)} :
        /\ batch'[p].counted = batch[p].counted
        /\ projected' = p => projected = p
  BY <1>1, <1>3 DEF ProjectionFinalize, tables, TypeOK, TablesTyped
<1> QED
  BY <1>2, <1>4, <1>5 DEF Unserved, HasKey

LEMMA ServingStep ==
  ASSUME OneAtATime, Inv, \A i \in Importers : Serves(i), [Next]_vars
  PROVE  /\ \A i \in Importers : Serves(i)'
         /\ \A p \in Payloads :
              receipt[p] # NoReceipt =>
                /\ batch'[p].counted = batch[p].counted
                /\ projected' = p => projected = p
<1> DEFINE Once == \A p \in Payloads :
                     receipt[p] # NoReceipt =>
                       /\ batch'[p].counted = batch[p].counted
                       /\ projected' = p => projected = p
<1>1. Lasting => Once
  BY DEF Lasting
<1>2. ASSUME NEW i \in Importers, NEW p \in Payloads, NEW k \in MaybeKey,
             Begin(i, p, k)
      PROVE  Once /\ \A j \in Importers : Serves(j)'
  <2>1. Lasting
    BY <1>2 DEF Begin, tables, Lasting
  <2>2. importer'[i].pc = "lookup"
    BY <1>2 DEF Begin, Becomes, Inv, TypeOK, Idle
  <2>3. \A j \in Importers : j = i
    BY DEF OneAtATime
  <2> QED
    BY <1>1, <2>1, <2>2, <2>3 DEF Serves, Unserved, HasKey
<1>3. ASSUME NEW i \in Importers, ImporterStep(i)
      PROVE  Once /\ \A j \in Importers : Serves(j)'
  <2>1. \A j \in Importers : j = i
    BY DEF OneAtATime
  <2>2. CASE FinalizeImportBatch(i)
    <3>1. Once /\ importer'[i].pc \notin Unserved
      BY <2>2, FinalizeIsFirst
    <3> QED
      BY <2>1, <3>1 DEF Serves
  <2>3. CASE ~FinalizeImportBatch(i)
    <3>1. /\ Lasting /\ UNCHANGED receipt
          /\ importer'[i].pc \in Unserved =>
               /\ P(i)' = P(i)
               /\ importer[i].pc \in Unserved \/ receipt[P(i)] = NoReceipt
      BY <1>3, <2>3, OtherStepsLast
    <3>2. Serves(i)'
      BY <3>1 DEF Serves
    <3> QED
      BY <1>1, <2>1, <3>1, <3>2
  <2> QED
    BY <2>2, <2>3
<1>4. ASSUME NEW i \in Importers, Dies(i)
      PROVE  Once /\ \A j \in Importers : Serves(j)'
  <2>1. Lasting
    BY <1>4 DEF Dies, tables, Lasting
  <2>2. importer'[i].pc = "idle"
    BY <1>4, AnswerTyped DEF Dies, Becomes, Inv, TypeOK, Failed
  <2>3. \A j \in Importers : j = i
    BY DEF OneAtATime
  <2> QED
    BY <1>1, <2>1, <2>2, <2>3 DEF Serves, Unserved, HasKey
<1>5. CASE (\E p \in Payloads : ReconcileSnapshotPendingJobs(p)) \/ UNCHANGED vars
  <2>1. Lasting /\ UNCHANGED <<receipt, importer>>
    BY <1>5 DEF ReconcileSnapshotPendingJobs, vars, tables, Lasting
  <2> QED
    BY <1>1, <2>1 DEF Serves, P
<1> QED
  BY <1>2, <1>3, <1>4, <1>5 DEF Next

LEMMA ServingBegins == Init => \A i \in Importers : Serves(i)
BY DEF Init, Serves, Idle, Unserved, HasKey

(* When requests come one after the other, the events of a payload are     *)
(* projected and counted once, by the transaction of its receipt, whatever *)
(* fails and is sent again.                                                *)
THEOREM ProjectsOnce == OneAtATime /\ Spec => ProjectedOnce
<1> DEFINE Serving == \A i \in Importers : Serves(i)
<1>1. OneAtATime /\ Inv /\ Serving /\ [Next]_vars => Serving'
  BY ServingStep
<1>2. OneAtATime /\ Inv /\ Serving /\ [Next]_vars =>
        [\A p \in Payloads :
           receipt[p] # NoReceipt =>
             /\ batch'[p].counted = batch[p].counted
             /\ projected' = p => projected = p]_vars
  BY ServingStep
<1>3. OneAtATime => []OneAtATime
  OBVIOUS
<1> HIDE DEF Serving
<1>4. Init => Serving
  BY ServingBegins DEF Serving
<1> QED
  BY <1>1, <1>2, <1>3, <1>4, Invariance, PTL DEF Spec, ProjectedOnce
=============================================================================
