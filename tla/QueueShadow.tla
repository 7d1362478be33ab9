---------------------------- MODULE QueueShadow ----------------------------
(***************************************************************************)
(* The queue runtime of the Cloudflare control plane                       *)
(* (frontend/cloudflare/workers/lib/queue-shadow.ts) over the tables of    *)
(* JobStore: the dispatcher that sends due outbox rows to the queue, the   *)
(* consumer that claims, runs and settles the job a message names, and the *)
(* consumer of the dead letter queue.                                      *)
(*                                                                         *)
(* Every await of a D1 call is a step of its own, so that any other        *)
(* process runs between two calls of one handler.  A call may be refused   *)
(* (throw with no effect) or lose its answer (throw after its effect), and *)
(* an invocation may die between two calls: each costs one of MaxFaults.   *)
(* The queue delivers at least once, in any order, MaxDeliveries times     *)
(* before the dead letter queue takes the message.                         *)
(***************************************************************************)
EXTENDS JobStore

CONSTANTS Workers,        \* consumer invocations that can overlap
          Slots,          \* bound: messages that exist at once
          NoSlot,
          MaxAttempts,    \* max_attempts of a row (3 in generateShadowJobs)
          MaxDeliveries,  \* 1 + max_retries of the queue (4 in wrangler.toml)
          MaxFaults       \* bound: failed calls and dead invocations

ASSUME NoSlotAssumption == NoSlot \notin Slots
ASSUME LimitsAssumption == MaxAttempts \in Nat \ {0} /\ MaxFaults \in Nat
ASSUME AttemptOutcomes ==
  {"succeeded", "committed", "retry_scheduled", "dead_lettered"} = Outcomes

(* The bounds never keep a handler from the claim it asks for: takeovers   *)
(* stop first, retries stop at MaxAttempts, and each fault adds one.       *)
ASSUME ClaimsSuffice ==
  /\ MaxClaims >= MaxTakeovers + 1 + MaxFaults
  /\ MaxClaims >= MaxAttempts + MaxFaults

VARIABLES messages,    \* the queue and its dead letter queue
          worker,      \* what each consumer invocation remembers
          dispatcher,  \* the outbox rows one dispatch pass has left to send
          faults

runtimeVars == <<messages, worker, dispatcher, faults>>
queueVars == <<storeVars, runtimeVars>>

Steps == {"idle", "claim", "confirm", "mark", "run", "finish", "succeed",
          "limits", "last_error", "release", "record"}

QueueTypeOK ==
  /\ TypeOK
  /\ messages \in [Slots -> [place : {"free", "queue", "inflight", "dlq"},
                             job : Jobs \cup {NoJob},
                             tries : 0 .. MaxDeliveries]]
  /\ worker \in [Workers -> [pc : Steps, slot : Slots \cup {NoSlot},
                             token : 0 .. MaxClaims,
                             expected : SUBSET {"leased", "running"},
                             retryable : BOOLEAN,
                             outcome : Outcomes \cup {"none"},
                             released : BOOLEAN]]
  /\ dispatcher \in [rows : SUBSET Jobs, sent : SUBSET Jobs]
  /\ faults \in 0 .. MaxFaults

NoMessage == [place |-> "free", job |-> NoJob, tries |-> 0]

Idle == [pc |-> "idle", slot |-> NoSlot, token |-> 0, expected |-> {},
         retryable |-> FALSE, outcome |-> "none", released |-> FALSE]

QueueInit ==
  /\ Init
  /\ messages = [m \in Slots |-> NoMessage]
  /\ worker = [w \in Workers |-> Idle]
  /\ dispatcher = [rows |-> {}, sent |-> {}]
  /\ faults = 0

JobOf(w) == messages[worker[w].slot].job

-----------------------------------------------------------------------------
(* One awaited D1 call: "ok" when the statement changed its row, "zero"    *)
(* when its WHERE clause matched none, "throw" with or without the effect. *)
Call(statement, matches, reply) ==
  \/ reply = "ok" /\ statement /\ UNCHANGED faults
  \/ reply = "zero" /\ ~matches /\ UNCHANGED <<storeVars, faults>>
  \/ /\ reply = "throw"
     /\ faults < MaxFaults
     /\ faults' = faults + 1
     /\ statement \/ UNCHANGED storeVars

Continue(w, changes) ==
  /\ worker' = [worker EXCEPT ![w] = changes]
  /\ UNCHANGED messages

(* message.ack() and message.retry() end the invocation's use of it. *)
Acked == NoMessage
Retried(m) ==
  IF messages[m].tries < MaxDeliveries
  THEN [messages[m] EXCEPT !.place = "queue"]
  ELSE [messages[m] EXCEPT !.place = "dlq", !.tries = 0]

Finish(w, message) ==
  /\ messages' = [messages EXCEPT ![worker[w].slot] = message]
  /\ worker' = [worker EXCEPT ![w] = Idle]

Ack(w) == Finish(w, Acked)
Retry(w) == Finish(w, Retried(worker[w].slot))

(* settleClaimedFailure begins: what it was called with. *)
SettleFailure(w, expected, error) ==
  Continue(w, [worker[w] EXCEPT !.pc = "limits", !.expected = expected,
                                !.retryable = Retryable(error)])

At(w, pc) == worker[w].pc = pc /\ UNCHANGED dispatcher

-----------------------------------------------------------------------------
(* dispatchDueShadowJobs: a pass reads the due rows once, then sends and   *)
(* marks them one by one.  Dispatched rows are due only after a backoff.   *)
LoadDispatchable(rows) ==
  /\ dispatcher.rows = {}
  /\ rows # {}
  /\ {j \in Jobs : outbox[j] = "pending"} \subseteq rows
  /\ rows \subseteq Dispatchable
  /\ dispatcher' = [dispatcher EXCEPT !.rows = rows]
  /\ UNCHANGED <<storeVars, messages, worker, faults>>

Send(j, m) ==
  /\ j \in dispatcher.rows \ dispatcher.sent
  /\ dispatcher.sent = {}
  /\ messages[m].place = "free"
  /\ messages' = [messages EXCEPT
                    ![m] = [place |-> "queue", job |-> j, tries |-> 0]]
  /\ dispatcher' = [dispatcher EXCEPT !.sent = {j}]
  /\ UNCHANGED <<storeVars, worker, faults>>

MarkDispatched(j) ==
  /\ dispatcher.sent = {j}
  /\ \/ /\ Call(MarkOutboxDispatched(j), j \in Dispatchable, "ok")
        /\ dispatcher' = [rows |-> dispatcher.rows \ {j}, sent |-> {}]
     \/ /\ Call(MarkOutboxDispatched(j), j \in Dispatchable, "zero")
        /\ dispatcher' = [rows |-> dispatcher.rows \ {j}, sent |-> {}]
     \/ /\ Call(MarkOutboxDispatched(j), j \in Dispatchable, "throw")
        /\ dispatcher' = [rows |-> {}, sent |-> {}]
  /\ UNCHANGED <<messages, worker>>

(* The dispatching invocation dies, between a send and its mark or not. *)
DispatcherDies ==
  /\ dispatcher.rows # {}
  /\ faults < MaxFaults
  /\ faults' = faults + 1
  /\ dispatcher' = [rows |-> {}, sent |-> {}]
  /\ UNCHANGED <<storeVars, messages, worker>>

-----------------------------------------------------------------------------
(* handleMessage, one awaited call per action. *)
Deliver(w, m) ==
  /\ worker[w] = Idle
  /\ messages[m].place = "queue"
  /\ messages' = [messages EXCEPT ![m].place = "inflight", ![m].tries = @ + 1]
  /\ worker' = [worker EXCEPT ![w].pc = "claim", ![w].slot = m]
  /\ UNCHANGED <<storeVars, dispatcher, faults>>

(* No row claimed: the message is acknowledged and forgotten.  A claim     *)
(* that throws is caught by the batch handler, which retries the message.  *)
Claim(w) ==
  LET j == JobOf(w) IN
  /\ At(w, "claim")
  /\ \/ /\ Call(ClaimJob(j), Claimable(j), "ok")
        /\ Continue(w, [worker[w] EXCEPT !.pc = "confirm",
                                         !.token = jobs[j].fencing + 1])
     \/ Call(ClaimJob(j), Claimable(j), "zero") /\ Ack(w)
     \/ Call(ClaimJob(j), Claimable(j), "throw") /\ Retry(w)

ConfirmOutbox(w) ==
  LET j == JobOf(w)
      f == worker[w].token
      Reply(r) == Call(ConfirmOutboxClaim(j, f), ConfirmMatches(j, f), r)
  IN  /\ At(w, "confirm")
      /\ \/ Reply("ok") /\ Continue(w, [worker[w] EXCEPT !.pc = "mark"])
         \/ /\ Reply("zero") \/ Reply("throw")
            /\ SettleFailure(w, {"leased"}, D1Error)

MarkRunning(w) ==
  LET j == JobOf(w)
      f == worker[w].token
      Reply(r) == Call(TransitionClaimedJob(j, "leased", "running", f),
                       TransitionMatches(j, "leased", "running", f), r)
  IN  /\ At(w, "mark")
      /\ \/ Reply("ok") /\ Continue(w, [worker[w] EXCEPT !.pc = "run"])
         \/ /\ Reply("zero") \/ Reply("throw")
            /\ SettleFailure(w, {"leased"}, D1Error)

(* The runner: without a staging payload it changes nothing; with one it   *)
(* commits the import, fenced by the token; or it fails, and the error may *)
(* be worth a retry or not.                                                *)
RunShadow(w) ==
  LET j == JobOf(w)
      f == worker[w].token
      Commit(r) == Call(CommitImportedJob(j, f), CommitMatches(j, f), r)
      Ran(outcome) == Continue(w, [worker[w] EXCEPT !.pc = "finish",
                                                    !.outcome = outcome])
  IN  /\ At(w, "run")
      /\ \/ Ran("succeeded") /\ UNCHANGED <<storeVars, faults>>
         \/ Commit("ok") /\ Ran("committed")
         \/ /\ Commit("zero") \/ Commit("throw")
            /\ SettleFailure(w, {"running", "leased"}, D1Error)
         \/ /\ \E error \in {D1Error, PayloadError} :
                 SettleFailure(w, {"running", "leased"}, error)
            /\ UNCHANGED <<storeVars, faults>>

(* Mutant: a success is not recorded. *)
FinishUnrecorded(w) ==
  /\ At(w, "finish")
  /\ UNCHANGED <<storeVars, faults>>
  /\ \/ /\ worker[w].outcome = "succeeded"
        /\ Continue(w, [worker[w] EXCEPT !.pc = "succeed"])
     \/ worker[w].outcome = "committed" /\ Ack(w)

(* finishAttempt on the way to success.  The upsert always matches. *)
FinishAttempt(w) ==
  LET j == JobOf(w)
      Reply(r) == Call(RecordJobAttempt(j, worker[w].token, worker[w].outcome),
                       TRUE, r)
  IN  /\ At(w, "finish")
      /\ \/ /\ Reply("ok")
            /\ worker[w].outcome = "succeeded"
            /\ Continue(w, [worker[w] EXCEPT !.pc = "succeed"])
         \/ Reply("ok") /\ worker[w].outcome = "committed" /\ Ack(w)
         \/ /\ Reply("throw")
            /\ SettleFailure(w, {"running", "leased"}, D1Error)

(* The last transition: whether it changed the row is not looked at. *)
Succeed(w) ==
  LET j == JobOf(w)
      f == worker[w].token
      Reply(r) == Call(TransitionClaimedJob(j, "running", "succeeded", f),
                       TransitionMatches(j, "running", "succeeded", f), r)
  IN  /\ At(w, "succeed")
      /\ \/ (Reply("ok") \/ Reply("zero")) /\ Ack(w)
         \/ Reply("throw") /\ SettleFailure(w, {"running", "leased"}, D1Error)

-----------------------------------------------------------------------------
(* Mutant: one attempt too many. *)
LoadLimitsOffByOne(w) ==
  LET exhausted == jobs[JobOf(w)].attempt_count > MaxAttempts
      retry == worker[w].retryable /\ ~exhausted
  IN  /\ At(w, "limits")
      /\ UNCHANGED <<storeVars, faults>>
      /\ Continue(w, [worker[w] EXCEPT
                    !.pc = "last_error",
                    !.outcome = IF retry THEN "retry_scheduled"
                                         ELSE "dead_lettered"])

(* settleClaimedFailure, one awaited call per action.  Limits that cannot  *)
(* be read count as not exhausted.                                         *)
LoadLimits(w) ==
  LET exhausted == jobs[JobOf(w)].attempt_count >= MaxAttempts
      Decide(retry) == Continue(w, [worker[w] EXCEPT
                         !.pc = "last_error",
                         !.outcome = IF retry THEN "retry_scheduled"
                                     ELSE "dead_lettered"])
  IN  /\ At(w, "limits")
      /\ UNCHANGED storeVars
      /\ \/ Decide(worker[w].retryable /\ ~exhausted) /\ UNCHANGED faults
         \/ /\ faults < MaxFaults
            /\ faults' = faults + 1
            /\ Decide(worker[w].retryable)

UpdateLastError(w) ==
  LET statement == UpdateJobLastError(JobOf(w), worker[w].retryable)
  IN  /\ At(w, "last_error")
      /\ Call(statement, TRUE, "ok") \/ Call(statement, TRUE, "throw")
      /\ Continue(w, [worker[w] EXCEPT !.pc = "release"])

ReleaseOutcome(w) ==
  LET j == JobOf(w)
      exp == worker[w].expected
      to == worker[w].outcome
      f == worker[w].token
      Reply(r) == Call(ReleaseClaimedJobOutcome(j, exp, to, f),
                       ReleaseMatches(j, exp, to, f), r)
      Released(b) == Continue(w, [worker[w] EXCEPT !.pc = "record",
                                                   !.released = b])
  IN  /\ At(w, "release")
      /\ \/ Reply("ok") /\ Released(TRUE)
         \/ (Reply("zero") \/ Reply("throw")) /\ Released(FALSE)

(* Mutants: the attempt of the next claim is written; a message is         *)
(* acknowledged although its job waits for a retry.                        *)
RecordNextAttempt(w) ==
  LET to == worker[w].outcome
      next == worker[w].token + 1
  IN  /\ At(w, "record")
      /\ Call(RecordJobAttempt(JobOf(w), next, to), TRUE, "ok")
      /\ IF to = "retry_scheduled" THEN Retry(w) ELSE Ack(w)

RecordAndAck(w) ==
  /\ At(w, "record")
  /\ Call(RecordJobAttempt(JobOf(w), worker[w].token, worker[w].outcome),
          TRUE, "ok")
  /\ Ack(w)

(* The attempt is recorded and settleMessage decides about the message. *)
RecordOutcome(w) ==
  LET to == worker[w].outcome
      Reply(r) == Call(RecordJobAttempt(JobOf(w), worker[w].token, to), TRUE, r)
      Settle(recorded) ==
        IF to = "retry_scheduled" \/ ~worker[w].released \/ ~recorded
        THEN Retry(w)
        ELSE Ack(w)
  IN  /\ At(w, "record")
      /\ \/ Reply("ok") /\ Settle(TRUE)
         \/ Reply("throw") /\ Settle(FALSE)

(* The invocation dies; the queue takes its message back. *)
WorkerDies(w) ==
  /\ worker[w] # Idle
  /\ faults < MaxFaults
  /\ faults' = faults + 1
  /\ Retry(w)
  /\ UNCHANGED <<storeVars, dispatcher>>

-----------------------------------------------------------------------------
(* handleDlqMessage: acknowledged only with a receipt of a dead-lettered   *)
(* job; otherwise retried, and dropped by the queue after its last retry.  *)
ConsumeDlq(m) ==
  LET j == messages[m].job
      dead == jobs[j].status = "dead_lettered"
      Again == IF messages[m].tries + 1 < MaxDeliveries
               THEN [messages[m] EXCEPT !.tries = @ + 1]
               ELSE NoMessage
  IN  /\ messages[m].place = "dlq"
      /\ \/ /\ Call(RecordDlqReceipt(j), dead, "ok")
            /\ messages' = [messages EXCEPT ![m] = NoMessage]
         \/ /\ Call(RecordDlqReceipt(j), dead, "zero")
               \/ Call(RecordDlqReceipt(j), dead, "throw")
            /\ messages' = [messages EXCEPT ![m] = Again]
      /\ UNCHANGED <<worker, dispatcher>>

WorkerStep(w) ==
  \/ Claim(w) \/ ConfirmOutbox(w) \/ MarkRunning(w) \/ RunShadow(w)
  \/ FinishAttempt(w) \/ Succeed(w)
  \/ LoadLimits(w) \/ UpdateLastError(w) \/ ReleaseOutcome(w)
  \/ RecordOutcome(w)

DispatcherStep ==
  \E j \in Jobs : MarkDispatched(j) \/ \E m \in Slots : Send(j, m)

(* The scheduler, the operator and the clock. *)
Environment ==
  /\ \/ \E j \in Jobs : GenerateShadowJob(j) \/ LeaseExpires(j)
     \/ \E j, new \in Jobs : CreateDlqReplayJob(j, new)
  /\ UNCHANGED runtimeVars

QueueNext ==
  \/ Environment
  \/ \E rows \in SUBSET Jobs : LoadDispatchable(rows)
  \/ DispatcherStep
  \/ DispatcherDies
  \/ \E w \in Workers : WorkerStep(w) \/ WorkerDies(w)
  \/ \E w \in Workers, m \in Slots : Deliver(w, m)
  \/ \E m \in Slots : ConsumeDlq(m)

QueueSpec == QueueInit /\ [][QueueNext]_queueVars
-----------------------------------------------------------------------------
(* What the cron trigger, the queue and the runtime give the code: a pass  *)
(* over all due rows keeps coming (dispatched rows become due again), an   *)
(* invocation that is not killed goes on, a queued message is delivered    *)
(* when invocations keep becoming free, and the clock moves.  Nothing      *)
(* says that calls succeed; only MaxFaults limits how many do not.         *)
Fairness ==
  /\ SF_queueVars(LoadDispatchable(Dispatchable))
  /\ SF_queueVars(DispatcherStep)
  /\ \A w \in Workers : WF_queueVars(WorkerStep(w))
  /\ \A m \in Slots : SF_queueVars(\E w \in Workers : Deliver(w, m))
  /\ \A m \in Slots : WF_queueVars(ConsumeDlq(m))
  /\ \A j \in Jobs : WF_queueVars(LeaseExpires(j) /\ UNCHANGED runtimeVars)

FairQueueSpec == QueueSpec /\ Fairness

(* The handlers use the tables only as JobStore says they may be used, so  *)
(* what is proved of JobStore holds of the runtime: no handler presents a  *)
(* token, an attempt number or a status that no claim gave it.             *)
ImplementsJobStore == Spec

(* While a runner works for a claim, and until its success is written, the *)
(* job is running under that very token: an expired lease, a duplicate     *)
(* message or a late settlement of an older claim never takes it away.     *)
RunnerOwnsJob ==
  \A w \in Workers :
    ( \/ worker[w].pc = "run"
      \/ worker[w].pc \in {"finish", "succeed"}
         /\ worker[w].outcome = "succeeded" )
    => /\ jobs[JobOf(w)].status = "running"
       /\ jobs[JobOf(w)].lease = worker[w].token

(* The next three are about a runtime whose calls do not fail; leases run   *)
(* out under slow handlers and messages are duplicated all the same.  Some *)
(* fault may leave a job running for ever: the answer of MarkRunning is     *)
(* lost, and nobody can claim, settle or replay the job any more.           *)

(* max_attempts is a real bound although the limit is read one call before *)
(* the release, and by whoever fails: a job waits for another attempt only *)
(* while one is left.                                                      *)
RetryBudget ==
  faults = 0 =>
    \A j \in Jobs :
      jobs[j].status = "retry_scheduled" => jobs[j].attempt_count < MaxAttempts

(* Once the newest claim's handler is done with a settled job, the attempt *)
(* row of that claim tells how it ended, although attempts are written     *)
(* without a fence and before or after the status.                         *)
Working(j) ==
  \E w \in Workers : /\ worker[w] # Idle
                     /\ JobOf(w) = j
                     /\ worker[w].token = jobs[j].fencing

AttemptTellsOutcome ==
  faults = 0 =>
    \A j \in Jobs :
      (jobs[j].status \in Settled /\ ~Working(j))
        => attempts[j][jobs[j].fencing] = jobs[j].status

(* Every job that is generated is settled, through refusals, takeovers and *)
(* retries, unless a fault hits it on the way.                             *)
AllJobsSettle ==
  \A j \in Jobs :
    jobs[j].status = "pending" ~> jobs[j].status \in Settled \/ faults > 0

(* With calls failing and invocations dying: a job nobody has claimed yet  *)
(* is claimed in the end, because its outbox row is sent again.            *)
UnclaimedGetsClaimed ==
  \A j \in Jobs :
    jobs[j].status \in {"pending", "enqueued"} ~> jobs[j].fencing > 0
=============================================================================
