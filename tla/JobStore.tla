------------------------------ MODULE JobStore ------------------------------
(***************************************************************************)
(* The durable job tables of the Cloudflare control plane                  *)
(* (frontend/cloudflare/workers/lib/job-store.ts): jobs, job_outbox,       *)
(* job_attempts and dlq_consumption_receipts.  Every operator that changes *)
(* state is one SQL statement (or one D1 batch, which is a transaction):   *)
(* the atomic steps out of which the queue consumers, the dispatcher and   *)
(* the operator's replay endpoint are built.                               *)
(*                                                                         *)
(* A lease token is a fresh UUID; it is identified here with the fencing   *)
(* version at which it was issued, 0 standing for NULL.  Time is reduced   *)
(* to one bit per lease, fresh: lease_until > now.                         *)
(*                                                                         *)
(* Next is the widest use the callers make of the statements: any caller   *)
(* may present any token ever issued, however old, at any moment.          *)
(***************************************************************************)
EXTENDS JobState, FiniteSets

CONSTANTS Jobs,         \* job ids that can ever be created
          NoJob,        \* replay_of_job_id of a job that replays nothing
          Outcomes,     \* values of job_attempts.outcome
          MaxClaims,    \* bound: claims of one job that are explored
          MaxTakeovers  \* bound: claims whose lease may run out

ASSUME NoJobAssumption == NoJob \notin Jobs
ASSUME OutcomesAssumption == "none" \notin Outcomes
ASSUME MaxClaimsAssumption == MaxClaims \in Nat \ {0}

VARIABLES jobs,       \* the rows of jobs, "absent" for a row not inserted
          outbox,     \* status of the job's job_outbox row
          attempts,   \* outcome in job_attempts, per job and attempt_no
          lastError,  \* last_error_code, as retryable or permanent
          receipts    \* jobs with a row in dlq_consumption_receipts

storeVars == <<jobs, outbox, attempts, lastError, receipts>>

RowStatus == JobStatus \cup {"absent"}

JobRow == [status : RowStatus, lease : 0 .. MaxClaims, fresh : BOOLEAN,
           fencing : 0 .. MaxClaims, attempt_count : Nat,
           replay_of : Jobs \cup {NoJob}]

TypeOK ==
  /\ jobs \in [Jobs -> JobRow]
  /\ outbox \in [Jobs -> {"absent", "pending", "dispatched", "confirmed"}]
  /\ attempts \in [Jobs -> [1 .. MaxClaims -> Outcomes \cup {"none"}]]
  /\ lastError \in [Jobs -> {"none", "retryable", "permanent"}]
  /\ receipts \subseteq Jobs

NewRow(status, origin) ==
  [status |-> status, lease |-> 0, fresh |-> FALSE, fencing |-> 0,
   attempt_count |-> 0, replay_of |-> origin]

Init ==
  /\ jobs = [j \in Jobs |-> NewRow("absent", NoJob)]
  /\ outbox = [j \in Jobs |-> "absent"]
  /\ attempts = [j \in Jobs |-> [n \in 1 .. MaxClaims |-> "none"]]
  /\ lastError = [j \in Jobs |-> "none"]
  /\ receipts = {}

-----------------------------------------------------------------------------
(* generateShadowJobs: one batch inserts the job and its outbox row; the   *)
(* idempotency key makes a second insertion a no-op.                       *)
GenerateShadowJob(j) ==
  /\ jobs[j].status = "absent"
  /\ jobs' = [jobs EXCEPT ![j] = NewRow("pending", NoJob)]
  /\ outbox' = [outbox EXCEPT ![j] = "pending"]
  /\ UNCHANGED <<attempts, lastError, receipts>>

(* Mutant: rows that were sent once are never sent again. *)
DispatchableOnce == {j \in Jobs : outbox[j] = "pending"}

(* loadDispatchableOutboxJobs: the rows the dispatcher may send.  A row    *)
(* dispatched before is due again after a backoff, at some later time.     *)
Dispatchable == {j \in Jobs : outbox[j] \in {"pending", "dispatched"}}

(* markOutboxDispatched: both updates in one batch. *)
Dispatched(j) ==
  IF jobs[j].status = "pending"
  THEN [jobs[j] EXCEPT !.status = "enqueued"]
  ELSE jobs[j]

MarkOutboxDispatched(j) ==
  /\ outbox[j] \in {"pending", "dispatched"}
  /\ outbox' = [outbox EXCEPT ![j] = "dispatched"]
  /\ jobs' = [jobs EXCEPT ![j] = Dispatched(j)]
  /\ UNCHANGED <<attempts, lastError, receipts>>

(* Mutant: an expired lease on a running job can be claimed again. *)
ClaimableRunning(j) ==
  /\ jobs[j].status \in {"enqueued", "retry_scheduled", "leased", "running"}
  /\ jobs[j].lease = 0 \/ ~jobs[j].fresh

(* claimJob: a running job is not claimable, whatever its lease says. *)
Claimable(j) ==
  /\ jobs[j].status \in {"enqueued", "retry_scheduled", "leased"}
  /\ jobs[j].lease = 0 \/ ~jobs[j].fresh

Claimed(j) ==
  LET version == jobs[j].fencing + 1
      attempt == jobs[j].attempt_count + 1
  IN  [jobs[j] EXCEPT !.status = "leased", !.lease = version, !.fresh = TRUE,
                      !.fencing = version, !.attempt_count = attempt]

ClaimJob(j) ==
  /\ Claimable(j)
  /\ jobs[j].fencing < MaxClaims
  /\ jobs' = [jobs EXCEPT ![j] = Claimed(j)]
  /\ UNCHANGED <<outbox, attempts, lastError, receipts>>

(* The clock passes lease_until. *)
LeaseExpires(j) ==
  /\ jobs[j].lease # 0
  /\ jobs[j].fresh
  /\ jobs[j].fencing <= MaxTakeovers
  /\ jobs' = [jobs EXCEPT ![j] = [jobs[j] EXCEPT !.fresh = FALSE]]
  /\ UNCHANGED <<outbox, attempts, lastError, receipts>>

(* Mutant: any lease will do. *)
PresentsAny(j, f) == jobs[j].lease # 0 /\ f <= jobs[j].fencing

(* The fence of every guarded update: WHERE lease_token=? AND              *)
(* fencing_version=?, for the token issued at version f.                   *)
Presents(j, f) == jobs[j].lease = f /\ jobs[j].fencing = f

(* The row with its lease columns cleared. *)
GivenBack(j, status) ==
  [jobs[j] EXCEPT !.status = status, !.lease = 0, !.fresh = FALSE]

(* transitionClaimedJob: the lease is given back with a terminal status or *)
(* a scheduled retry, and kept otherwise.                                  *)
TransitionMatches(j, from, to, f) ==
  CanTransition(from, to) /\ jobs[j].status = from /\ Presents(j, f)

ReleasesLease == TerminalStatuses \cup {"retry_scheduled"}

TransitionClaimedJob(j, from, to, f) ==
  /\ TransitionMatches(j, from, to, f)
  /\ jobs' = [jobs EXCEPT
                ![j] = IF to \in ReleasesLease
                       THEN GivenBack(j, to)
                       ELSE [jobs[j] EXCEPT !.status = to]]
  /\ UNCHANGED <<outbox, attempts, lastError, receipts>>

(* releaseClaimedJobOutcome: from any of the expected statuses, always     *)
(* giving the lease back.                                                  *)
ReleaseMatches(j, expected, to, f) ==
  /\ \E s \in expected : CanTransition(s, to)
  /\ jobs[j].status \in expected
  /\ Presents(j, f)

ReleaseClaimedJobOutcome(j, expected, to, f) ==
  /\ ReleaseMatches(j, expected, to, f)
  /\ jobs' = [jobs EXCEPT ![j] = GivenBack(j, to)]
  /\ UNCHANGED <<outbox, attempts, lastError, receipts>>

(* confirmOutboxClaim: only for the token that holds the job now. *)
ConfirmMatches(j, f) ==
  /\ outbox[j] \in {"pending", "dispatched", "confirmed"}
  /\ jobs[j].status \in {"leased", "running"}
  /\ Presents(j, f)

ConfirmOutboxClaim(j, f) ==
  /\ ConfirmMatches(j, f)
  /\ outbox' = [outbox EXCEPT ![j] = "confirmed"]
  /\ UNCHANGED <<jobs, attempts, lastError, receipts>>

(* recordJobAttempt: an upsert on (job_id, attempt_no), not fenced. *)
RecordJobAttempt(j, n, outcome) ==
  /\ attempts' = [attempts EXCEPT ![j][n] = outcome]
  /\ UNCHANGED <<jobs, outbox, lastError, receipts>>

(* updateJobLastError: not fenced either. *)
UpdateJobLastError(j, retryable) ==
  /\ lastError' = [lastError EXCEPT
                     ![j] = IF retryable THEN "retryable" ELSE "permanent"]
  /\ UNCHANGED <<jobs, outbox, attempts, receipts>>

(* The jobs statement of the source-fenced import finalize. *)
CommitMatches(j, f) == jobs[j].status = "running" /\ Presents(j, f)

CommitImportedJob(j, f) ==
  /\ CommitMatches(j, f)
  /\ jobs' = [jobs EXCEPT ![j] = GivenBack(j, "committed")]
  /\ UNCHANGED <<outbox, attempts, lastError, receipts>>

(* recordDlqConsumptionReceipt: true exactly for a dead-lettered job. *)
RecordDlqReceipt(j) ==
  /\ jobs[j].status = "dead_lettered"
  /\ receipts' = receipts \cup {j}
  /\ UNCHANGED <<jobs, outbox, attempts, lastError>>

(* Mutant: the replay starts the original job over. *)
ReplayInPlace(j, new) ==
  /\ jobs[j].status = "dead_lettered"
  /\ jobs[new].status = "absent"
  /\ jobs' = [jobs EXCEPT ![j] = NewRow("pending", NoJob)]
  /\ outbox' = [outbox EXCEPT ![j] = "pending"]
  /\ UNCHANGED <<attempts, lastError, receipts>>

(* createDlqReplayJob: a new pending job with its outbox row, selected     *)
(* from a job that is still dead-lettered when the batch runs.             *)
CreateDlqReplayJob(j, new) ==
  /\ jobs[j].status = "dead_lettered"
  /\ jobs[new].status = "absent"
  /\ jobs' = [jobs EXCEPT ![new] = NewRow("pending", j)]
  /\ outbox' = [outbox EXCEPT ![new] = "pending"]
  /\ UNCHANGED <<attempts, lastError, receipts>>

-----------------------------------------------------------------------------
(* The statements a holder of token f runs on job j, with the arguments    *)
(* the call sites of queue-shadow.ts and import-staging.ts give them.      *)
FencedStatement(j, f) ==
  \/ ConfirmOutboxClaim(j, f)
  \/ TransitionClaimedJob(j, "leased", "running", f)
  \/ TransitionClaimedJob(j, "running", "succeeded", f)
  \/ CommitImportedJob(j, f)
  \/ \E expected \in {{"leased"}, {"running", "leased"}},
        to \in {"retry_scheduled", "dead_lettered"} :
          ReleaseClaimedJobOutcome(j, expected, to, f)

UnfencedStatement(j, n) ==
  \/ \E outcome \in Outcomes : RecordJobAttempt(j, n, outcome)
  \/ \E retryable \in BOOLEAN : UpdateJobLastError(j, retryable)

SystemStatement(j) ==
  \/ GenerateShadowJob(j)
  \/ MarkOutboxDispatched(j)
  \/ ClaimJob(j)
  \/ LeaseExpires(j)
  \/ RecordDlqReceipt(j)

Next ==
  \/ \E j \in Jobs : SystemStatement(j)
  \/ \E j \in Jobs : \E f \in 1 .. jobs[j].fencing : FencedStatement(j, f)
  \/ \E j \in Jobs : \E n \in 1 .. jobs[j].fencing : UnfencedStatement(j, n)
  \/ \E j, new \in Jobs : CreateDlqReplayJob(j, new)

Spec == Init /\ [][Next]_storeVars

-----------------------------------------------------------------------------
(* What the statements keep true of the rows, whoever calls them.          *)

(* The token on record is always the newest one issued, and a job has a    *)
(* token exactly while it is leased or running: no statement leaves a      *)
(* lease behind on a job it takes out of those statuses.                   *)
LeaseConsistent ==
  \A j \in Jobs :
    /\ jobs[j].lease \in {0, jobs[j].fencing}
    /\ jobs[j].lease # 0 <=> jobs[j].status \in {"leased", "running"}

(* A job that nobody has claimed yet is still in the dispatcher's reach:   *)
(* its outbox row is not confirmed, and the row of a pending job says it   *)
(* was never sent.  The row and the job change in one batch or not at all. *)
UnclaimedIsDispatchable ==
  \A j \in Jobs :
    /\ jobs[j].status = "pending" <=> outbox[j] = "pending"
    /\ jobs[j].status = "enqueued" => outbox[j] = "dispatched"

(* A receipt or a replay refers to a job that is dead-lettered now, not    *)
(* only when the receipt or the replay was written.                        *)
DeadLettersStayDead ==
  \A j \in Jobs :
    (j \in receipts \/ \E k \in Jobs : jobs[k].replay_of = j)
      => jobs[j].status = "dead_lettered"

(* An attempt row belongs to a claim that was really made: late, unfenced  *)
(* writers only ever rewrite their own past attempt.  attempt_count counts *)
(* the tokens issued.                                                      *)
AttemptsWereClaimed ==
  \A j \in Jobs :
    /\ jobs[j].attempt_count = jobs[j].fencing
    /\ jobs[j].status = "absent" => jobs[j].attempt_count = 0
    /\ \A n \in 1 .. MaxClaims :
         attempts[j][n] # "none" => n <= jobs[j].attempt_count

(* tests/job-state.test.mts: "terminal statuses cannot be revived" -- by   *)
(* any sequence of statements, stale tokens and replays included; the same *)
(* holds of a job whose import is committed.                               *)
Settled == TerminalStatuses \cup {"committed"}

SettledStaySettled ==
  [][\A j \in Jobs : jobs[j].status \in Settled => jobs'[j] = jobs[j]]_storeVars

(* The lease protocol the statements implement. *)
PhaseOf(status) ==
  CASE status = "absent" -> "absent"
    [] status \in {"pending", "enqueued", "retry_scheduled"} -> "waiting"
    [] status = "leased" -> "held"
    [] status = "running" -> "executing"
    [] OTHER -> "settled"

Abstract == INSTANCE FencedJob
              WITH phase <- [j \in Jobs |-> PhaseOf(jobs[j].status)],
                   epoch <- [j \in Jobs |-> jobs[j].fencing]

ImplementsFencedJob == Abstract!Spec
=============================================================================
