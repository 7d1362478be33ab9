# NewsSentry in TLA+

NewsSentry collects news, has it judged by AI models and publishes it. It has
two halves that run concurrent code with something to lose:

* the **control plane**, a Cloudflare Worker
  (`frontend/cloudflare/workers`): durable jobs in D1, a queue with a dead
  letter queue, R2 objects, scheduled tasks that drive a container, read
  snapshots;
* the **Python core** (`src/news_sentry`): the bounded run of a target over
  files and SQLite, a server with one connection per target and asyncio workers
  around it, an event bus, a router for AI calls.

This directory holds TLA+ modules translated from that code, TLC
configurations that check them on small instances, and proofs checked by TLAPS.
Paths below are relative to the repository root; `workers/` stands for
`frontend/cloudflare/workers/` and `core/` for `src/news_sentry/core/`.

1. Inventory · 2. Modules · 3. Runs · 4. Bounds · 5. Fairness · 6. Proofs ·
7. Abstractions · 8. Behaviours met · 9. What is left

## 1. Inventory

### Modelled

**Job state table** — `workers/lib/job-state.ts`. Statuses, allowed
transitions, and the classification of errors into retryable and permanent.
No state. Correct when a terminal job has no way out, whichever statement tries.

**Durable job tables** — `workers/lib/job-store.ts`. State: `jobs` (status,
lease token, lease end, fencing version, attempt count), `job_outbox`,
`job_attempts`, `dlq_consumption_receipts`. Operations: generate, mark
dispatched, claim, fenced transition, fenced release, confirm, record attempt
and last error (both unfenced), receipt, replay. Hard: every statement runs
from handlers that may have been overtaken, and three of them carry no fence.
Correct when the lease columns and the status never disagree, a job nobody
claimed stays in the dispatcher's reach, and nothing changes a settled job.

**Queue runtime** — `workers/lib/queue-shadow.ts`. State: messages, plus what
each invocation remembers between two awaits. Operations: the dispatch pass
over due outbox rows, the message consumer (claim, confirm, mark running, run,
record, succeed, or settle the failure in four calls), the consumer of the dead
letter queue. It calls the job tables one awaited D1 call at a time. Hard: each
call can throw with or without its effect; messages are duplicated; leases run
out under slow handlers; the retry limit is read before it is used. Correct
when a runner is never robbed of its job, the retry budget holds, and every job
settles.

**Durable projection import** — `workers/lib/durable-import.ts`,
`durable-artifact.ts`, `import-staging.ts`, `projection-sql.ts`. State: R2
objects and key bindings, `artifact_manifests`, `jobs`, `import_batches`,
`import_batch_chunks` with staged events, finalize receipts, `events`. One
operation of some twenty awaited calls, started by a webhook or by the
container and retried by the client. Hard: overlapping requests for one
payload, two payloads under one idempotency key, partial failure at every call.
Correct when a receipt is always backed by everything it stands for, an answer
is true, and a retry finishes what an earlier attempt left.

**Scheduled container tasks** — `workers/lib/scheduled.ts`. State: lock rows
and the batch cursor in `ops_state`, and what each invocation is at.
Operations: acquire and release a lock (neither asks who holds it), call a
cycle in the container, persist the cursor. Hard: the lock is read and written
in two statements; an invocation is cut off with its locks; a call is given up
while its cycle goes on; the container goes down under it. Correct when one
cycle writes at a time and the cursor passes what was collected, once.

**Target store cache** — `core/target_store_utils.py`, `core/store/_base.py`,
`core/api_server.py`. State: the cache of opened stores, the connection of each,
the memory of a failed open. Operations: get or open, read, write (which
reopens), close all at the end of a cycle. Hard: every one of them awaits, and
several coroutines hold one store. Correct when no connection is lost and no
list is empty for want of one.

**Public read snapshots and generations** —
`workers/lib/public-read-snapshots.ts`, `snapshot-generation.ts`, and the
snapshot part of `durable-import.ts`. State: snapshot rows, generations with
their status, the pointer in `ops_state`, jobs that wait for a refresh.
Operations: refresh row by row, mark a job ready or pending, reclaim pending
jobs, copy, compare, build, activate, point. Hard: a refresh reads and writes in
many calls while projections commit between them and other builders write the
same rows; builders are stopped anywhere. Correct when the pointer names the
active generation, a generation holds what its watermark claims, and the latest
publication is shown in the end.

**Bounded run of a target** — `core/run.py`, `core/async_run.py`,
`core/memory.py`, `core/file_writer.py`, `skills/`. State: the files of each
stage, the file of known ids, the event index. Operations: collect, filter,
judge, output, together or each alone. Hard: files are written one by one, the
known ids before them all; runs die, overlap, and are repeated stage by stage.
Correct when what is known is accounted for, nothing passes the filter twice, a
stage that is run alone finishes what a dead run left, and what the sources keep
giving is filtered in the end.

**Publication workers** — `core/public_translation.py`,
`core/ai_enrichment.py`, `core/collector_config_utils.py`,
`core/store/_events.py`. State: metadata of indexed rows, retry delays, the
usage of the day. Operations: a cycle of the translation, a cycle of the
enrichment, started by loops, by hand or by the container. Hard: usage and
metadata are read before several awaits and written after them. Correct when
the day's limit holds, no work is taken back, a delay is waited for, and each
event gets its turn.

**Canonical event graph** — `core/store/_canonical.py`,
`core/canonical_projection.py`, `core/canonical_handlers.py`. State: canonical
events, mentions, relations, operations, research artifacts. Operations: merge,
split, upsert and patch of an artifact, projection. Hard: six statements to a
merge, one connection for all handlers of a target, a client that repeats its
apply, a process that ends. Correct when a decision is taken once and can be
traced, a merge is recorded whole, and no mention is hidden.

**Event bus** — `core/event_bus.py`. State: the table of subscribers, a
bounded queue and a consumer task each, one asyncio lock. Operations:
`publish`, `subscribe`, `unsubscribe`. Hard: `put` on a full queue under the
lock, tasks cancelled wherever they are. Correct when each subscriber sees what
was published to it, once and in order, and everybody gets out again.

**AI provider router** — `core/provider_router.py`. State: accumulated cost,
rotation cursors, cooldowns. Operation: `route_async`, with model rotation and
route fallback. Hard: concurrent calls read this state before a provider call
and write it after. Correct when spending is bounded, a call fails only after
its whole chain, and every call returns.

### Not modelled

| Part | State and operations | What would make it correct | Why it is left out |
|---|---|---|---|
| Container import, environment and health (`container-import.ts`, `container-env.ts`, `health-status.ts`) | none of their own | – | a thin caller of the modelled import, and read-only aggregation |
| Worker HTTP API (`index.ts`, `api/`, `router.ts`, `errors.ts`, read cache) | none beyond the tables above | – | parsing and read queries; its two handlers that change durable state are modelled where they act: `JobStore!CreateDlqReplayJob` and `ProjectionImport` |
| Access control (`access.ts`, `access-jwt.ts`) | none | – | stateless verification of tokens |
| Native collection (`workers/lib/collect`) | its own cursor and rows | – | nothing in the worker calls it; the collection that runs is the container's |
| Typed API client (`backend/`) | none | – | builds requests and parses answers |
| `core/scheduler.py`, `core/async_rate_limiter.py` | a counter, the time of the last refill | no more tokens than time has earned | a run uses `acquire` and `release` once; the limiter is a matter of durations, which the models abstract from |
| Store: rules, administration, entities, migrations (`store/_rules.py`, `_admin.py`, `_entities.py`, `_infra.py`, `async_store.py`) | rows of independent tables | each write is one statement | one-statement writes and read queries have no step between which anything could happen |
| Notifications (`core/notification_engine.py`) | deduplication, rate windows | an alert is sent once | no part of the program creates the engine, only its tests do; the alerts of a run are in `TargetPipeline` |
| API server, handlers, forms (`core/api_server.py`, `api/`, `public_news_utils.py`, `target_config_utils.py`, `cli/`) | none beyond the stores | – | read queries, configuration files, formatting; what its handlers change over several awaits is in `ContainerCycles`, `CanonicalGraph`, `TargetPipeline` and `PublicationWorkers` |
| Analysis and scoring (`nlp_rules.py`, `breaking_scoring.py`, `confidence_router.py`, `latent_value_model.py`, `skills/judge`) | none | the scores are right | pure computations on text and weights; what would be checked is their wording, not their behaviour. `TargetPipeline` has their verdicts |
| Adapters and collectors (`adapters/`, `collect/`) | none | – | external services; `ProviderRouter` has their outcomes |
| Frontend pages, Tauri client, configuration, schemas, scripts, tools, rss-bridge | none shared | – | user interface, data, build and deployment files |

Of parts that are modelled, these pieces are left out: the source-fenced mode of
`import-staging.ts` except for its statement on the job row
(`JobStore!CommitImportedJob`); the digests that name a job and the two delay
functions of `job-state.ts`, which the runtime does not call; the choice of the
due source; the records, quality, retention and budget reports of
`scheduled.ts`; the copy of the snapshots in KV and their readers; the remote AI
calls of a run, which are off by default, its synchronous entry point for the
Hermes adapter, and the migration of old files.

Much of the repository is of these kinds: of its Python half the larger
part reads, renders, scores or checks configuration. A model of it would restate
it. The share of lines that the modules translate is therefore small, and it is the
share in which steps of several actors meet.

### Interactions

```
 cron ──► dispatcher ──► queue ──► consumer ──► job tables ◄── replay endpoint
            │ outbox                 │  │            ▲
            └────────── job tables   │  └─► runner ──┘ (fenced import)
                                     └─► dead letter queue ──► receipts
 webhook / container ──► projection import ──► R2, D1 ──► snapshot rows
 cron ──► refresh, reclaim ──► generation ──► activation ──► pointer
 cron ──► locks ──► container: cycle ──► target stores ◄── requests
                                │
      collect, filter, judge, output ──► files, event index
                                │
                 translation, enrichment ──► metadata of the rows
 research API ──► canonical graph (the target's one connection)
 pipeline ──► provider router        subscribers ◄── event bus ◄── publishers
```

Everything in the control plane meets in D1, statement by statement: there are
no transactions across two calls, so each module has one step per awaited call.
In Python everything meets in one event loop, in SQLite and in files: a step
runs from one `await`, or from one file, to the next.

## 2. Modules

| Module | Models | Built on |
|---|---|---|
| `JobState` | the status table and `classifyJobError` | – |
| `FencedJob` | *abstract*: what the lease protocol promises of a job | – |
| `JobStore` | every SQL statement over the job tables | `JobState`; implements `FencedJob` |
| `QueueShadow` | dispatcher, consumers, queue, clock | extends `JobStore`; implements it |
| `ImportLedger` | *abstract*: what an import promises a client | – |
| `ProjectionImport` | import requests, one step per awaited call | implements `ImportLedger` |
| `CanonicalTables` | the graph tables, and what each statement does to them | – |
| `CanonicalLedger` | *abstract*: whole merges, splits, artifacts and projections | `CanonicalTables` |
| `CanonicalGraph` | handlers over the one connection, statement by statement | `CanonicalTables`; implements `CanonicalLedger` |
| `ScheduledTasks` | invocations, locks, batch cursor | – |
| `TargetStores` | the store cache and who uses it | – |
| `ContainerCycles` | both together: the cycle an invocation starts is a user of the stores | extends `ScheduledTasks`, `TargetStores` |
| `TargetPipeline` | the bounded runs of a target | – |
| `PublicationWorkers` | translation and enrichment | – |
| `SnapshotPipeline` | snapshot rows, generations, pointer | – |
| `EventBus` | bus, lock and consumer tasks | – |
| `ProviderRouter` | concurrent `route_async` calls | – |
| `Subsequences` | the entries of a sequence at chosen positions, in order (`Only`), used by `EventBus`, `ProviderRouter` and `SnapshotPipeline` | – |
| `QueueShadowProofs` (tables and runtime), `ProjectionImportProofs`, `CanonicalGraphProofs`, `ContainerCyclesProofs` (locks and stores), `TargetPipelineProofs`, `PublicationWorkersProofs`, `SnapshotPipelineProofs`, `SharedServicesProofs` (bus and router) | theorems | the modules they name, TLAPS |
| `MC*` | instances for TLC | the module they name |

`EventBus` calls its specification `BusSpec` (`BusInit`, `BusNext`), so that
one module can extend it together with `ProviderRouter`.

Definitions marked *Mutant* in the modules are never part of a specification.
They are plausible bugs in the definition that follows them; putting one in its
place makes the property it is meant for fail.

Several modules carry **history variables**. They change nothing, and
the properties use them to say under which circumstances something is promised:
`slipped` (two held a lock at once, or a cycle outlived its lock), `crossed`
(a cycle closed stores, or two coroutines opened one, at once), `overlapped` (two
runs of a target were at work at once), `mixed` (a worker's run began
while another went on; of a snapshot builder: another refresh wrote over its rows
before it copied them), `unpointed` (a builder was stopped between activation and
pointer), `lost` (ids marked by a run that died), `uncounted` (requests a run
that died did not count). What is promised under such a condition is what the
code keeps by itself; what happens beyond it is described in section 8.

### JobStore

`jobs[j]` is a row; a status of `"absent"` stands for a row not inserted. A
lease token is a fresh UUID in the code; here it is the fencing version at which
it was issued, which is as unique, and 0 is NULL. Time is one bit per lease,
`fresh`, for `lease_until > now`. Each action is one statement or one D1 batch:
its guard is the WHERE clause, `TransitionMatches`, `ReleaseMatches`,
`ConfirmMatches` and `CommitMatches` are the fences, and an action that is not
enabled is an UPDATE of zero rows. `Next` lets anybody present any token ever
issued for a job at any time, and any past attempt number to the two unfenced
statements. That is more than the handlers do, and it is deliberately so: what
holds here depends on no caller's discipline.

### QueueShadow

`worker[w].pc` names the D1 call a consumer awaits next: `claim`
(`claimJob`), `confirm` (`confirmOutboxClaim`), `mark` (`markRunning`), `run`
(the runner), `finish` (`finishAttempt`), `succeed`, and of
`settleClaimedFailure` `limits`, `last_error`, `release`, `record`. `Call`
gives every call its three outcomes: it changed its row, it matched none, or it
threw, with or without its effect. The dispatcher loads its rows once, then
sends and marks them one at a time, so that a consumer can be faster than the
mark. `LoadDispatchable` takes every pending row and any of the dispatched
ones: those come back after a backoff of fifteen minutes, which is an
unspecified time here. `WorkerDies` and `DispatcherDies` end an invocation
between two calls, and the queue takes the message back.

### ProjectionImport

A payload stands for its SHA-256 and all ids derived from it, so that two
requests with the same payload meet in the same rows. Staging keeps its two
separate steps, chunk and recount, which is where the code can lose count.
`ProjectionFinalize` is one transaction; its guard columns (NOT NULL
expressions in the receipt) are `FinalizeGuards`, and a finalize that finds a
receipt already there keeps it, lets all other statements take effect, and then
throws, as the code does. The rows of events are one register, `projected`,
which holds the payload whose version of the event was written last. A snapshot
refresh is one call that succeeds or fails; its inside is `SnapshotPipeline`.

### CanonicalTables, CanonicalGraph

The tables are one record: per event its status and the event it was merged
into, per mention the event it is under (`home`), per decision its artifact row,
the logged operations, the relations. `Created`, `Moved`, `Marked`, `Restated`,
`Decided`, `Recorded` are what the groups of statements of an apply write, in
the order of `_apply_canonical_merge_plan` and its split; `Restated` and
`Decided` write rows back from the plan that was read before, as the code does.
`live` is what the shared aiosqlite connection reads, `disk` what is committed,
`txn` whether a transaction is open. A statement opens a transaction if none is
open, and a commit or rollback ends whatever is open, whoever began it:
`BEGIN IMMEDIATE` inside an open transaction fails outside of the `try`
(`Begin`). `MoveBreaksKey`, `LinkBreaksKey` and `RecordBreaksIndex` are the
foreign keys and the unique index. `Overlap` says whether a client may call
while another waits for its answer. The projection has a connection of its own
and waits for the write lock.

### ScheduledTasks, TargetStores, ContainerCycles

`lock[l]` is whether `lock_until` is ahead. `Tick` is the SELECT of
`acquireLock`, `Take` its write, whatever the row says by then. A task that
writes the container's databases also asks for the lock of the writer. From
`Call` on the cycle is in `going`; `Abort` is the limit of eight minutes, after
which the invocation releases and the cycle goes on; `Die` leaves the locks held;
`RunsOut` is the end of the twenty minutes; `CyclesEnd` is the container going
down, after which `Call` starts the cycle anew. In `TargetStores` every await is
a step: a user connects, prepares, is cached, reads and writes; a store without
a connection reads an empty list, and a write opens it again. `CloseStores`
empties the cache, `Close` and `Closed` end the connection of what it held. A
store object may be used again when nobody holds it: if it still has a
connection, `orphans` remembers that nobody names it any more.
`ContainerCycles` identifies the two: an invocation's cycle is a user of
the stores, ends by closing them, and is at work until it has. A request is
a user that closes nothing.

### TargetPipeline

`raw`, `archive`, `filtered`, `judged`, `drafts`, `reviewed` are the ids with a
file of that stage. A run has its copy of the known ids and, per phase, the
events its loop has still to do; each turn of a loop writes one file. `Filter`
marks and rewrites the whole `known_item_ids.yaml` from the run's own memory
(`mark_known`); the files of what passed are written two phases later.
`PendingFilter`, `PendingJudge`, `PendingOutput` are what a stage that runs alone
finds. `Crash` is the process or an uncaught write; the two writes whose errors
are caught fail in `WriteJudged` and `Output`. `Index` replaces the row of an
event, whose metadata the translation worker changes (`Translate`). At the end of
the output the alerts ask for the stage each event has in memory (`ShouldAlert`).

### PublicationWorkers

The rows are numbered in the order of the candidates, which decides who waits
for whom. A translation takes the first due rows of the first candidates
(`DueRows`), asks for each, and writes in the two steps of
`update_event_metadata`, the SELECT (`ReadTranslated`) and the UPDATE with what
was merged into it (`WriteTranslated`). An enrichment reads the usage and all
its rows when it begins, sends a request per row, merges its whole copies back,
again in two steps, and counts when all is done. `Answered` may bring a title of
too low a quality; `Refused` ends the requests, and a rate limit drops what they
brought. `Restart` takes all runs with it. Every record of an attempt, also that of
a success, starts the delay again (`cooling`).

### SnapshotPipeline

A version counts the committed projections. A row has two of them: `mark`, the
one at which the watermark it is stored with was read, and `version`, that of the
oldest thing it holds. A refresh reads in the order of the code: `Start` the
watermark, `ReadFacets` facets and regions, and then the rows are written one by
one (`WriteRow`), the news of every locale (`Feeds`) side by side and the
bootstrap pages (`Pages`) after them. The news of a feed are read on their own, at
some moment between the facets and the write (`HeldBy`), so a projection that
commits in between is in some rows and not in others.

The first read or write to fail rejects the refresh (`RefreshFails`), but the calls
that were on their way go on unheard: their rows stay in `todo` and may land until
the invocation is over (`LandLate`), also while an importer marks its job, and over
the rows of others. A job is marked ready, or pending when the refresh or that mark
has failed. A task goes on to reclaim pending jobs (`Reconcile`, with the second in
which its refresh began as the cutoff); when that fails it goes on all the same
(`ReconcileFails`). It then builds a generation from what `Copy` read, with the
latest of the watermarks in the rows as its own. `gens` are the generations in the
order of their rowid: the activation updates the rows in that order under a
unique index on the active one, so it collides with an active generation of a
later rowid (`Collides`), and supersedes an earlier one. `Point` writes the
pointer if the generation is still the active one. `Stops` ends a builder
anywhere. A repeated delivery refreshes again without a new projection
(`ComesAgain`).

### EventBus

The lock is `holder` and a first-come-first-served list `waiters`, as in
asyncio. A publish takes the lock, reads the matching subscribers once, and
puts into their queues one after the other without giving the lock back; a
consumer takes the lock to look itself up before each `get`; `unsubscribe`
removes the entry under the lock, then cancels the consumer wherever it waits.
`log` is a history variable: to whom each message was addressed when it was
published.

### ProviderRouter

A call holds its route, the models left to try on it and whether it fell back.
`EnterRoute` computes `_model_candidates` and moves the cursor in one step, as
the code does without awaiting; `Answered` and `Failed` end one provider call.
Cooldowns end at any time. `tried` and `limited` are history. A call may begin at
any route, which covers a preferred route and the first of a task type.

## 3. Runs

The numbers are the distinct states of the whole instance. *Fair* marks the
runs whose specification has fairness, for their liveness properties.

| Run | Instance | Checks |
|---|---|---|
| `job_store` | 2 jobs (one may replay the other), 2 claims each, 1 takeover; symmetric; 59 076 | `SettledStaySettled`, and the refinement `ImplementsFencedJob` |
| `queue_faults` | 2 jobs, 2 consumers, 2 messages, 3 claims, 1 takeover, 1 attempt, 2 deliveries, 1 fault; symmetric; 677 635 | the refinement `ImplementsJobStore` |
| `queue_settles` | 1 job, 2 consumers, 2 messages, 4 claims, 2 takeovers, 2 attempts, 3 deliveries, 1 fault; fair; 200 103 | `RunnerOwnsJob`, `RetryBudget`, `AttemptTellsOutcome`, `AllJobsSettle`, `UnclaimedGetsClaimed` |
| `import_concurrent` | 2 requests, 2 payloads, 1 key, 2 chunks, 1 fault; symmetric; 766 783 | `CommittedIsBacked`, `AnswersAreTrue`, and the refinement `ImplementsImportLedger` |
| `import_serial` | 1 request at a time, 2 payloads, 1 key, 2 chunks, 2 faults; fair; 34 175 | `ProjectedOnce`, `CountedGetsCommitted` |
| `canonical` | 1 client at a time, 3 events, 3 mentions, 4 requests, 2 decisions; 181 038 | `DecisionsAreTraced`, `MergedIsRecorded`, `MergedKeepsNothing`, and the refinement `ImplementsCanonicalLedger` |
| `pipeline` | 1 run at a time, of any stages, 2 events, 1 fault; fair; 309 848 | `KnownIsAccounted`, `PassedOnce`, `TranslationSurvives`, `StageFinishes`, `CollectedGetsFiltered` |
| `publication_workers` | 1 translation, 1 enrichment, 2 rows, 2 requests a day, 1 restart; fair; 140 768 | `BudgetHolds`, `WorkStays`, `RetryWaits`, `EachGetsPublished` |
| `container_cycles` | 2 invocations, 1 request, 2 store objects, 3 batches, 1 trouble; symmetric; 2 900 412 | `OneWriter`, `NoConnectionLost`, `ReadsAreTrue`, `CursorPassesCollected` |
| `snapshots` | 1 importer, 2 scheduled tasks, 1 feed, 1 page, 1 projection, 2 seconds, 1 trouble; fair; 632 405 | `PointerTells`, `CopiedIsCurrent`, `ReclaimedIsShown`, `LatestGetsActive` |
| `event_bus` | 2 publishers, 2 subscriptions, queues of 1, 3 messages; fair; 153 348 | `InPublishOrder`, `UnsubscribedIsQuiet`, `PublishEnds` |
| `router` | 2 callers, 3 calls, 4 routes, 4 providers; fair; 86 518 | `SpendBound`, `FailsOnlyAfterChain`, `CallsReturn` |

What the runs show, beyond their names:

* **The job tables carry themselves.** No interleaving of statements, with any
  stale token, leaves a lease on a job that is not leased or running, claims a
  running job, or touches a settled one. The unfenced writers can rewrite the
  record of an attempt that was made, and invent none.
* **The runtime stays within the tables.** `ImplementsJobStore` is the bridge
  between the modules: with calls failing, invocations dying and consumers
  overlapping, each step of `QueueShadow` is a statement `JobStore` allows or
  leaves the tables alone.
* **Two weak spots of the runtime are harmless.** Sending before marking can only
  cost a message that finds its job pending, and the outbox sends it again
  (`UnclaimedGetsClaimed`). Reading the retry limit one call before the release
  cannot overrun the budget as long as calls do not fail (`RetryBudget`); a
  limit that cannot be read counts as not exhausted, and one fault then buys one
  attempt more, so this property is about runs in which nothing has failed.
* **An import is the ledger it promises to be**, even with overlapping requests
  that disturb its status rows: receipts are written once, for kept objects, one
  payload per key. `ProjectedOnce` is checked for requests one at a time: with
  three overlapping ones, two read "no receipt", one commits, another payload is
  projected over it, and the second finalize writes the older version back
  before it throws.
* **A merge is whole wherever the process ends**, and so is everything else
  that is done to the graph; a client that repeats its apply gets the answer of
  the first one, also when the decision was patched or a projection ran in
  between. This is shown for a client that waits for its answers (section 8).
* **What the filter knows has its file**, or a run that died owns up to it. The
  known ids that a dead run left without files are the one loss (`lost`): their
  events pass no filter again. What becomes of the other files of a dead run
  depends on who comes next. The schedules only start runs of all stages, and
  these load no files of earlier runs. So an event is filtered or archived in the
  end when the sources keep giving it (`CollectedGetsFiltered`), and nothing is
  promised of a file that only a dead run has touched, until an operator runs the
  stage alone: then a filter leaves no raw file undone, not even that of a lost
  id, an output indexes all that is judged, and nothing passes twice
  (`StageFinishes`, `PassedOnce`).
* **The workers take nothing back while no two of their runs overlap**, and the
  day's limit is exceeded by what overlapping runs send, and by what a restart
  forgot, at the most (`BudgetHolds`). A row can be kept from its turn only by as
  many rows that are too old as a cycle looks at (`Starved`).
* **Locks and stores hold as long as they are read and written in order.**
  `slipped` and `crossed` say exactly when that is: no two ticks between SELECT and
  write, no cycle that outlives its invocation or its lock, no cycle that ends
  under another user of the stores. Under it, one cycle writes at a time, the
  cursor passes each batch after it was collected, no connection is lost and no
  list is empty that should not be.
* **Whatever overlaps or fails, the latest publication is shown in the end**
  (`LatestGetsActive`): a slow builder may put older rows over a newer
  generation, but its watermark then differs from the rows', and the next build
  repairs it. A generation claims a watermark, and later builds compare nothing
  else; what a task copies is never older than the claim, although projections
  commit between the reads of a refresh and refreshes fail halfway, unless another
  refresh has written rows of another watermark between the task's own and its copy
  (`CopiedIsCurrent`). Only a stop between activation and pointer leaves the
  pointer behind (`PointerTells`).
* **The bus is right until a queue is full.** `PublishEnds` names the one
  exception.
* **The budget of the router is soft.** It is compared when a call begins and
  charged when it ends, and `SpendBound` is the exact form of what this gives:
  one call per concurrent caller over the budget. Only the first of
  `fallback_route_ids` that exists is ever tried by a route.

## 4. Bounds

* `MaxClaims`, `MaxTakeovers`: claims of one job, and how many of them may see
  their lease run out. Each claim is a new epoch; two suffice for a stale holder
  and a current one, three for a stale holder of a stale holder. `ClaimsSuffice`
  is an assumption TLC evaluates: no handler is ever kept from a claim it asks
  for by the bound.
* `MaxFaults`, `MaxTroubles`: failing calls, lost answers, dying invocations,
  restarts share one budget, anywhere in the run. One fault meets every
  single point of failure, and the two of the serial import any pair. An
  unbounded number of faults would make every liveness property false.
* `MaxDeliveries`, `MaxAttempts`: smaller than in the configuration, to reach both
  the dead letter queue and an exhausted job.
* `Slots`: messages alive at once; the dispatcher waits for a free one. Two
  give the duplicate a second dispatch makes.
* `Chunks` 2: a last chunk and one before it. One key is enough for two payloads
  to race for it, and a request may also come without.
* The canonical instance has a merge under a decision, the same with what a split
  left (which the decision comes to name when it is patched), the merge that
  turns the first one round, and a split of the survivor.
* `Runners` 1: overlapping runs of a target are not kept apart by anything, and
  what is promised of them (`KnownIsAccounted`) is proved for any number of them.
  Two events are one that a phase has done and one that it has not.
* `N`, `CandidateLimit`, `PerCycleLimit`: a cycle that takes one of two
  candidates, so that one row waits for the other. `DailyLimit` and
  `RequestLimit` 2 give a cycle that is cut short by the day.
* `Stores` 2: a store in the cache and one that was closed or replaced under
  its holder. `Batches` 3: the next batch is not the one before.
* `MaxNews`, `MaxSec` 1: a refresh before a projection and one after it, or a
  projection between any two reads of a refresh, in the same second or the next.
  One feed and one page are two rows that are written one after the other, of
  which the first is read later than the second.
* `QueueSize` 1: a full queue after one message; three messages with two
  publishers leave one more to overtake or to block.
* `MaxCalls` 3 for two callers: two that overlap, and one that begins after the
  budget is gone. The configuration of routes has the cases the code
  distinguishes: a pool, a stale fallback id, a provider without a key, a chain
  that ends in the local rules, and the global fallback.

Larger instances were explored beside the runs, for safety: `PublicationWorkers` with two enrichments (396 000, and 61 000 with a
translation and one row). The inductive invariants of section 6 were checked by TLC on the instances of the runs before
they were proved, which corrected several of them.

`CHECK_DEADLOCK FALSE` appears where the system may stop: all jobs settled,
claims used up, every message published, every call made, every row published,
every event through.

## 5. Fairness

* `FairQueueSpec`: cron passes keep coming, and a pass reads every row that is due
  (strong fairness of `LoadDispatchable(Dispatchable)`); an invocation goes on
  unless it dies, because the platform either runs it or ends it (weak fairness of
  `WorkerStep`); the queue redelivers (strong fairness of `Deliver` per message,
  since consumers are busy in between); the clock moves (weak fairness of
  `LeaseExpires`, limited by `MaxTakeovers`). Sending needs strong fairness
  because a free slot comes and goes.
* `FairSpec` of `ProjectionImport`: an invocation goes on unless it dies, and the
  client sends a payload again, the behaviour of the container's retries.
  Nothing makes the client send a key.
* `FairSpec` of `TargetPipeline`: a run goes on until it ends or dies, and runs of
  all stages are started again and again: that is what every schedule of the
  repository does (`tools/run_realtime_collection.sh`,
  `config/realtime.crontab`, `config/news-sentry.service`,
  `config/runtime/collector.yaml`). The fairness is strong, since an operator may
  run other stages in between. Nothing schedules a stage alone, so nothing is
  assumed of one. That the sources give an event to every collection from some
  time on is the premise of `CollectedGetsFiltered`, not fairness.
* `FairSpec` of `PublicationWorkers`: the loop of the translation goes round, its
  runs go on, delays pass, and a row that is asked for again and again is
  translated one time (strong fairness of `Translated` per row): a provider
  that never answers well publishes nothing. The enrichment has no fairness.
* `Spec` of `SnapshotPipeline`: the cron ticks for ever and what a task has begun
  goes on (weak fairness of all the steps of a task together). Writes that have
  gone unheard need not land. Of importers nothing is assumed, not even that they finish a refresh
  that they have begun, and nothing says that a projection is ever committed.
* `BusFairSpec` of `EventBus`: the event loop runs every task that can run, and
  callbacks return. Nothing says that anybody publishes, subscribes or closes.
* `FairSpec` of `ProviderRouter`: a provider call ends, with an answer, an error or
  the adapter's timeout.

Nowhere is a call of the control plane assumed to succeed; only the bounds
limit how many do not.

## 6. Proofs

Eight modules hold proofs. Each is about the specification of the module it
extends, without bounds on the sets: any number of jobs, requests, events, rows,
stores or callers, and any value of the constants that the named assumptions
allow. In each the argument is an inductive invariant; the step that shows it has
one case per action, and under it one per conjunct the action can disturb.

| Module | Theorems | Assumptions on constants |
|---|---|---|
| `QueueShadowProofs`, tables | `Typing`, `LeasesConsistent`, `UnclaimedDispatchable`, `DeadLettersDead`, `AttemptsClaimed`, `SettledIsFinal`, `Refinement` | `NoJobAssumption`, `OutcomesAssumption`, `MaxClaimsAssumption` |
| `QueueShadowProofs`, runtime | `HandlersUseTables`, `RunnersOwnJobs`, `RuntimeSettles`, `OutcomesAreKnown`, `BudgetIsKept`, `AttemptsTell` | those, `NoSlotAssumption`, `LimitsAssumption`, `AttemptOutcomes`, `ClaimsSuffice` |
| `ProjectionImportProofs` | `Typing`, `CommittedBacked`, `CommittedTogether`, `TrueAnswers`, `KeysAgree`, `ProjectsOnce`, `LedgerKept` | `ChunksAssumption`, `NoValueAssumption`, `MaxFaultsAssumption` |
| `CanonicalGraphProofs` | `CanonicalTypeCorrect`, `DecisionsStayTraced`, `MergesStayRecorded`, `MergedStayEmpty`, `AppliedStaysRecorded`, `GraphImplementsLedger` | `PayloadsAreChecked`, `IdentifiersAreTyped`, `OverlapIsSaid` |
| `ContainerCyclesProofs` | `WriterGuarded`, `OneWriterAtATime`, `CursorFollowsCollection`, `StoresStayKept`, `ConnectionsStayKnown`, `ReadsStayTrue` | `BatchesAssumption`, `TroublesAssumption`, `UsersAssumption`, `NoStoreAssumption` |
| `TargetPipelineProofs` | `PipelineTypeCorrect`, `KnownStaysAccounted`, `AloneStaysOrderly`, `PassesOnce`, `TranslationsStay`, `StagesFinish` | `AlertableAssumption`, `MaxFaultsAssumption` |
| `PublicationWorkersProofs` | `WorkersTypeCorrect`, `PublishedWorkStays`, `RetriesWait`, `BudgetKept` | `SizeAssumption`, `EnrichersAssumption` |
| `SnapshotPipelineProofs` | `SnapshotInvariance`, `PointerStaysTold`, `CopiesStayCurrent`, `ReclaimedStaysShown` | `TasksAssumption`, `RowsAssumption`, `BoundsAssumption` |
| `SharedServicesProofs`, bus | `BusTypeCorrect`, `UnsubscribedStaysQuiet`, `PublishOrderKept` | `QueueSizeAssumption`, `NobodyAssumption`, `PublishersAssumption` |
| `SharedServicesProofs`, router | `RouterTypeCorrect`, `SpendingBounded`, `ChainsAreTried` | `RouterAssumption`, `ConfigurationAssumption` |

**JobStore.** `TypeOK`, `LeaseConsistent`, `UnclaimedIsDispatchable`,
`DeadLettersStayDead` and `AttemptsWereClaimed` are proved together as one
`Inv`, because each needs another: that a settled row cannot be written takes
`LeaseConsistent` in the form "a lease exists exactly while the job is leased or
running", for then the fence of every late handler compares its token with none.
The proof goes by effect, as the code does: what a fenced statement may do
(`FencedEffect`) is stated once, with both outcomes of the fence, and every handler
is an instance of it. For `Refinement` the status maps to a phase and the
fencing version to an epoch; a claim is a grant, `MarkRunning` a start, a retry gives
the job back, every other fenced move settles it, and all else stutters.

**QueueShadow.** The runtime never lets two handlers use the tables in a way
`JobStore` does not have, which needs what a handler remembers to be true of the
tables. `QInv` adds to `Inv`: the message of a consumer is its own; a token
somebody remembers lies between 1 and the fencing version of its job; no two
consumers share a message, or a job and a token (`Apart`); a runner's job is
running under its token (`Holds`). `Calm` says of all the other steps what these
need: the fencing version only grows, and a running job keeps status and token
unless its own holder moves it. With `HandlersUseTables`, what is proved of
`JobStore` carries over, and `RuntimeSettles` is the instance that matters.
`BudgetIsKept` and `AttemptsTell` hold while no call has failed, and need
`ToldInv`: what a consumer is at fits the status of its job while its claim is the
newest, and it asks for a retry only below the limit (`Tells`); a settled job
without such a consumer has an attempt that tells how it ended (`Told`); and only
a job with attempts left waits for another (`Budgeted`). Whoever writes a row is
its holder; of everybody else `Steady` says that status and numbers stay, or
that it moves a job that was not claimed, or claims it.

**ProjectionImport.** What a request read before an await may be false after it;
what stays true is what only grows (`Grows`): receipts, objects and bindings of
keys. `CountIsStaged` makes a full count stand for all chunks, `Knows` says what
a stage has learnt of these, and `Undisturbed` that no other request takes it
away. From it follow that the receipt comes only after its object, chunks, count
and manifest, and `LedgerKept`: the first transaction that succeeds is `Commit`, the first put of the key `Keep`,
and the rest stutters. `ProjectsOnce` is for requests that come one after the
other (`OneAtATime`): a request between its lookup and its transaction works
for a payload without a receipt (`Serves`), so the transaction that counts the
events is the one that leaves the receipt. Overlapping requests disturb this, and
the status of job and batch before the commit, of which nothing is proved.

**CanonicalGraph.** Typing holds whatever overlaps. The others are stated for
`~Overlap`, a client that waits for its answers. `SerialInv`: at most one
handler is on its way; between transactions the connection sees what is on disk;
and `Progress` says, stage by stage, what the connection sees in terms of the disk. A
crash therefore leaves one of two states, before or after a whole operation,
which is what `GraphImplementsLedger` says.

**ContainerCycles.** `IInv` says `Guarded` unless `slipped`: whoever the writer's
lock guards is alone, the row is held, the invocation of a cycle waits for its
call or is gone, and the cursor it read still holds. `StepOfTasks` shows that
whatever stores and requests do, a step of the composition is a step of the tasks or
leaves them alone. `StoresInv` is the same for the stores: unless `crossed`,
whoever opens or closes one is alone with it, whoever reads or writes holds the
cached one, the cached one is open, and every connection is the cached one's or
somebody's (`Kept`).

**TargetPipeline.** `KnownInv` is `KnownIsAccounted` of the file and of each run's
own copy of it (a run that saves its copy may bring back an id that another run
forgot), and that what an evaluate loop has written belongs to what it has filtered.
It holds for overlapping runs. The others are for runs one at a time:
`AloneInv` says that unless `overlapped` one run is on its way at most, what it
has in memory is what the file says, and nothing it has in hand is in the index
unless it was reviewed (`Orderly`); and what was filtered or indexed is in the
file, and what is indexed has or had its draft (`Tables`). With it an event
passes once (`PassesOnce`), and no run puts one into the index again over its
translation (`TranslationsStay`). `CourseInv` follows a filter or an output that
is alone: at each phase, whatever is not settled yet is among the events that it
has in hand, so nothing is left when it ends (`StagesFinish`).

**PublicationWorkers.** `WorkStays` follows from `Alone`: unless `mixed`, one run is
on its way at most, and what it remembers of its row, the content of the
translator and the flags of the enricher, is still what the row says.
`RetriesWait` adds `Waits`: of the rows a run has still to ask for none is
cooling, except the one it has just tried. `BudgetKept` does not need runs to be
alone. `Ledger` says that every request sent was counted, or is still to be
counted by its run, or was lost with one that died; and that what was counted
and what the runs may yet send fit into the day and one limit for every further
run. A sum over runs is written as the cardinality of a set of pairs, so that
the library's theorems about finite sets apply.

**SnapshotPipeline.** `IInv` bounds versions and times by the news and the clock
(`Known`) and says that a job marked before a task's refresh is one the refresh
has seen (`SeenBefore`), from which `ReclaimedIsShown` follows. `Pointing`: an
active generation is still to be pointed at by the builder that made it so, or
the pointer names it unless `unpointed`. `Current`: no row, and nothing that a
refresh has read, is older than its watermark, and the rows that a task has written
have its watermark until it copies them, unless `mixed`. From it follows
`CopiesStayCurrent`: the watermarks of an unmixed copy are all the task's own. Any
number of tasks and importers may refresh and activate, late writes included, and
a stop may come anywhere.

**EventBus.** `LockInv`: who waits for the lock stands at the step that asks for
it; the lock is held by the publisher that puts the newest message, or, between two
steps, by nobody; a subscription being closed is out of the list before its
consumer is. `OrderInv` then says for each subscription that the messages
addressed to it are those it received, in that order, and at most the newest
one, which the publisher in the lock has still to put. That the lock is held
across a whole publish is what makes it inductive: there is one publisher at
most with something left to put.

**ProviderRouter.** `SpendBound` is inductive with the shape of the callers: a call
that begins finds at most the budget spent, and one that ends spends at most
`MaxCost` and leaves the running set. That there is a costliest route needs the
routes to be finite (`ConfigurationAssumption`). For `ChainsAreTried`,
`ChainInv` carries along a call the routes it has left behind: all of them
exhausted, leading only to each other and to the route it is at. When it has no
further route the set is closed, and so contains the chain of the route it
began with, which is the least closed set.

Every safety property of the runs, invariant or action property, and every
refinement is stated by a theorem. Only model-checked are the liveness
properties (`AllJobsSettle`, `UnclaimedGetsClaimed`, `CountedGetsCommitted`,
`CollectedGetsFiltered`, `EachGetsPublished`,
`LatestGetsActive`, `PublishEnds`, `CallsReturn`), because fairness and ENABLED
are out of the prover's reach. So are the induction theorems of the library that
take an operator as a parameter; where a proof needs induction it takes a
smallest counterexample instead. The prover also knows nothing of `SelectSeq`.
Filtered sequences are therefore `Only` of a set of positions, each put at its
`Rank` among them, and the lemmas about that are about cardinalities.

## 7. Abstractions

* **Data.** Payloads, events, rows, artifacts and texts are members of small sets;
  titles, summaries, digests and metadata appear as far as a property tells them
  apart. Errors are of two kinds, those a retry may cure and the others, which is
  what the code distinguishes.
* **Time.** There is no clock except where the code compares seconds
  (`SnapshotPipeline`). A lease, a delay, a cooldown or a lock may end at any
  moment; what a property says therefore holds for all durations.
* **Storage.** A D1 statement is atomic and a batch of D1 is a transaction; so is a
  statement of SQLite, and a transaction lasts from the first write to the commit of
  its connection. An awaited call is a step of its own; it may fail before it took
  effect or, where the code can see that, after it. Reads are merged with the step
  before them only where no other actor writes what they read in between.
* **Sources of jobs** are reduced to the insertion of the row and its outbox entry.
* **One target** per run, per connection and per worker. Targets share no row.
* `PublicationWorkers` reads the rows and the day's usage in the one step
  `BeginEnrichment`. `SnapshotPipeline` reads the rows of facets and of regions
  together, inserts and completes a generation in one step, for nobody looks at one
  before it is active, and forgets generations that were superseded or failed,
  which no code reads; a write on its way when an invocation is cut off has
  landed by then, or never does. In queue mode the code moves the cursor of a task
  without a cycle (`scheduled.ts:738`, `:806`); `ScheduledTasks` has the mode in
  which a cycle runs. A
  store object that is opened again is a new one, whose connection is then lost
  unless it was closed (`NoConnectionLost`).
* What is left out of modelled parts is listed under "Not modelled".

## 8. Behaviours met

Conditions in the properties, such as `~slipped` or `faults = 0`, and history
variables mark where the code promises less than a reader may expect. What
happens beyond them, at the line where it begins:

| Where | What the code does | How the models treat it |
|---|---|---|
| `workers/lib/queue-shadow.ts:361` | A job whose `markRunning` took effect, but whose answer was lost, has no holder: its lease is not taken over, and nothing settles it. | `AllJobsSettle` is stated of behaviours without a fault |
| `workers/lib/import-staging.ts:667` | Chunks are counted again only after one was staged: a stop between the last chunk and the count leaves a count that no repetition repairs. | `CountedGetsCommitted` begins at the full count |
| `workers/lib/durable-import.ts:321` | An overlapping request for a committed payload sets job and batch back to running before it finds the receipt. | `NothingCommittedAlone` promises one direction only |
| `workers/lib/import-staging.ts:505` | The cursor of a source is set without being compared: an earlier window that finishes late moves it back. | not modelled; listed as a hazard |
| `core/event_bus.py:59` | `publish` waits for a full queue and keeps the lock its consumer needs. | `PublishEnds` excepts it |
| `core/store/_canonical.py:543` | Handlers of a target share a connection: the commit of one ends the transaction of another, and half a merge stays if the process ends there. | proofs and run are for `~Overlap` |
| `core/store/_canonical.py:1968` | A projection makes its events active again and puts their mentions back under them, also what a merge had moved: the operation stays in the log, its effect does not. | part of the model (`Projected`); no property promises that a merge lasts |
| `core/run.py:433` | Alerts are asked for after the output has changed the stage in memory, and only judged events qualify: no alert of a run is ever sent. | `ShouldAlert` has the test as it is; no property promises an alert |
| `core/file_writer.py:119` | A reviewed draft is moved away, so an output stage run again writes another. | part of the model |
| `core/memory.py:94` | A run writes its whole memory: overlapping runs forget each other's ids and let events through twice. | `PassedOnce` is stated for `~overlapped` |
| `core/collector_config_utils.py:690` | The day's usage is read before the requests and added to after them: overlapping runs spend the same rest of the day, and a run that dies is not counted. | `BudgetHolds` allows one request limit for every further run, and what was not counted |
| `workers/lib/scheduled.ts:158`, `:178` | A lock is read and written in two statements, and released without asking who holds it. | `OneWriter` is stated for `~slipped` |
| `workers/lib/scheduled.ts:806` | The cursor stays at a batch that fails: no later batch is collected until it succeeds. | part of the model; no liveness of the cursor is promised |
| `core/api_server.py:1636` | The end of a cycle closes every cached store, also one that others hold between two awaits: they read an empty list, or open it again and nobody closes it. | `ReadsAreTrue`, `NoConnectionLost` are stated for `~crossed` |
| `workers/lib/snapshot-generation.ts:152`, `:76` | A stop between activation and pointer leaves the pointer behind, and the next build sees an unchanged watermark and returns before it would be repaired. | `PointerTells` is stated for `~unpointed` |
| `workers/lib/snapshot-generation.ts:43` | Rows are written one by one under no common lock, and copied in one statement: a task that copies while another refresh is under way has rows of two under the later watermark, and no build replaces them before the next publication. | `CopiedIsCurrent` excepts copies whose rows were crossed (`mixed`) |
| `core/run.py:327` | A run of all stages hands its events from stage to stage and loads no files: what a dead run left in files is picked up by a stage run alone, which nothing schedules. | the liveness is of events that the sources keep giving; `StageFinishes` is about stages run alone |
| `core/provider_router.py:497`, `:542` | A fallback chain that the configuration leads back to itself is followed for ever. | the instance has none; `CallsReturn` is about chains that end |
| `workers/lib/durable-import.ts:433` | The cutoff is compared by the second: a job marked in the second in which a refresh began is reclaimed, seen or not. | `ReclaimedIsShown` excepts that second |
| `core/async_rate_limiter.py:28` | The time of the refill is taken before the sleep, so the next caller is credited with the wait once more. | not modelled; a matter of durations |

## 9. What is left

In the order of what it would add:

1. The source-fenced import composed with `JobStore`, which would show in which
   order windows of one source can finish and what becomes of the cursor
   (`import-staging.ts:505`).
2. Overlapping clients of the canonical graph: which states half a merge can
   leave, and which of them the next projection repairs.
3. Abstract specifications of the bus (a log and a place in it for each
   subscription) and of the snapshots (one active generation that only becomes
   newer), with the refinements; `OrderInv` and `IInv` are most of what they
   need.
4. Proofs of what overlapping still leaves true, beyond `KnownIsAccounted`,
   `BudgetHolds` and the import ledger: of two runs of a target, and of two
   users of one store.
5. Two targets that share the lock of the writer, and the copies of the snapshots
   in KV.
