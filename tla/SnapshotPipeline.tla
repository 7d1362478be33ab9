-------------------------- MODULE SnapshotPipeline --------------------------
(***************************************************************************)
(* The public read snapshots and their generations (workers/lib/           *)
(* public-read-snapshots.ts, snapshot-generation.ts, and the snapshot part *)
(* of durable-import.ts and scheduled.ts).                                 *)
(*                                                                         *)
(* Importers commit a projection and refresh the rows; the scheduled tasks *)
(* refresh them, reclaim the jobs whose refresh had failed, and copy the   *)
(* rows into a generation. The locks of two tasks are two, so builders     *)
(* overlap. A version counts the projections; a row has the version that   *)
(* its watermark was read at and the version of the oldest thing it holds. *)
(***************************************************************************)
EXTENDS Naturals, SequencesExt, FiniteSets, Subsequences

CONSTANTS Importers,       \* bound: imports at one time
          MaxNews,         \* bound: projections ever committed
          Schedulers,      \* bound: scheduled invocations at one time
          Feeds,           \* bound: rows that hold the news of a locale
          Pages,           \* the rows of the facets and of the regions
          Fresh,           \* versions with a later publication than any before
          MaxSec,          \* bound: seconds of the clock
          Nobody,
          MaxTroubles      \* bound: failures, cut-offs, repeated deliveries

ASSUME TasksAssumption ==
  /\ Importers \cap Schedulers = {}
  /\ Nobody \notin Importers \cup Schedulers
ASSUME RowsAssumption == Feeds \cap Pages = {} /\ Pages # {}
ASSUME BoundsAssumption ==
  MaxNews \in Nat /\ MaxSec \in Nat /\ MaxTroubles \in Nat

Builders == Importers \cup Schedulers
Rows == Feeds \cup Pages

VARIABLES news,      \* projections committed so far
          sec,       \* the clock, as datetime('now') tells it
          job,       \* the job of each importer
          rows,      \* public_read_snapshots
          builder,   \* what each builder is at
          gens,      \* the active generation and those on their way to it, in
                     \* the order of their rowid, with who will go on with them
          pointer,   \* the generation of active:snapshot-generation
          unpointed, \* was a builder stopped between activation and pointer?
          troubles

vars == <<news, sec, job, rows, builder, gens, pointer, unpointed, troubles>>

Idle == [at |-> "away", mark |-> 0, facets |-> 0, todo |-> {}, since |-> 0,
         mixed |-> FALSE]
Versions == 0..MaxNews
Stages == {"away", "due", "read", "write", "settle", "fail", "end",
           "reconcile", "copy", "compare", "activate", "point"}

TypeOK ==
  /\ news \in Versions /\ sec \in 0..MaxSec /\ troubles \in 0..MaxTroubles
  /\ job \in [Importers -> [status : {"none", "committed", "pending"},
                            version : Versions, since : 0..MaxSec]]
  /\ rows \in [Rows -> [mark : Versions, version : Versions]]
  /\ builder \in [Builders -> [at : Stages, mark : Versions,
                    facets : Versions, todo : SUBSET Rows,
                    since : 0..MaxSec, mixed : BOOLEAN]]
  /\ gens \in Seq([by : Schedulers \cup {Nobody}, mark : Versions,
                   status : {"ready", "active"}])
  /\ pointer \in {"none", "active", "older"}
  /\ unpointed \in BOOLEAN

Init ==
  /\ news = 0 /\ sec = 0 /\ troubles = 0 /\ gens = <<>> /\ pointer = "none"
  /\ job = [i \in Importers |-> [status |-> "none", version |-> 0,
                                 since |-> 0]]
  /\ rows = [r \in Rows |-> [mark |-> 0, version |-> 0]]
  /\ builder = [b \in Builders |-> Idle]
  /\ unpointed = FALSE

Goto(b, at) == builder' = [builder EXCEPT ![b].at = at]
Gone(b) == builder' = [builder EXCEPT ![b] = Idle]
(* The latest publication of a version. *)
Watermark(v) == Cardinality({k \in Fresh : k <= v})
Own(b) == {g \in DOMAIN gens : gens[g].by = b}
Active == {g \in DOMAIN gens : gens[g].status = "active"}
(* A generation that has failed, or that nobody goes on with, is not read  *)
(* again; the active one is.                                               *)
Abandoned(b) ==
  LET left == [g \in DOMAIN gens |->
                 IF g \in Active /\ gens[g].by = b
                 THEN [gens[g] EXCEPT !.by = Nobody] ELSE gens[g]]
  IN  Only(left, {gen \in Range(left) : gen.by # b})
Shown(g) == Watermark(gens[g].mark)
(* The rows that a refresh is writing, together: the pages after the feeds. *)
Due(b) ==
  LET feeds == builder[b].todo \cap Feeds
  IN  IF feeds # {} THEN feeds ELSE builder[b].todo

-----------------------------------------------------------------------------
(* A projection commits, as a new job of the importer, which then is to    *)
(* refresh the rows; so is a delivery that comes again.                    *)
Commit(i) ==
  /\ news < MaxNews
  /\ job[i].status # "pending" /\ builder[i].at = "away"
  /\ news' = news + 1
  /\ job' = [job EXCEPT ![i] = [status |-> "committed", version |-> news + 1,
                                since |-> 0]]
  /\ Goto(i, "due")
  /\ UNCHANGED <<sec, rows, gens, pointer, unpointed, troubles>>
ComesAgain(i) ==
  /\ troubles < MaxTroubles
  /\ troubles' = troubles + 1
  /\ job[i].status # "none" /\ builder[i].at = "away"
  /\ Goto(i, "due")
  /\ UNCHANGED <<news, sec, job, rows, gens, pointer, unpointed>>

(* refreshPublicReadSnapshots: the latest publication is read,             *)
Start(b) ==
  /\ builder[b].at = IF b \in Importers THEN "due" ELSE "away"
  /\ builder' = [builder EXCEPT ![b] =
                    [Idle EXCEPT !.at = "read", !.mark = news,
                       !.since = IF b \in Schedulers THEN sec ELSE 0]]
  /\ UNCHANGED <<news, sec, job, rows, gens, pointer, unpointed, troubles>>
(* then facets and regions,                                                *)
ReadFacets(b) ==
  /\ builder[b].at = "read"
  /\ builder' = [builder EXCEPT ![b].at = "write", ![b].todo = Rows,
                                ![b].facets = news]
  /\ UNCHANGED <<news, sec, job, rows, gens, pointer, unpointed, troubles>>

(* A row is written with the watermark of its refresh. A feed's news are   *)
(* read after the facets and before the write; a bootstrap row holds the   *)
(* facets too, and is as old as they are.                                  *)
HeldBy(b, row) ==
  IF row \in Feeds THEN builder[b].facets .. news ELSE {builder[b].facets}
(* The tasks that have written the row, not yet copied it, and now find    *)
(* another watermark in it.                                                *)
Mixes(row, mark) ==
  {s \in Schedulers : /\ builder[s].at \in {"write", "reconcile", "copy"}
                      /\ row \notin builder[s].todo /\ builder[s].mark # mark}
Lands(b, row, then) ==
  /\ \E v \in HeldBy(b, row) :
       rows' = [rows EXCEPT ![row] = [mark |-> builder[b].mark, version |-> v]]
  /\ builder' = [c \in Builders |->
       IF c = b THEN then
       ELSE [builder[c] EXCEPT
               !.mixed = @ \/ c \in Mixes(row, builder[b].mark)]]
(* then the news of each locale, read and written, and the pages at last.  *)
Written(b, row) ==
  IF builder[b].todo # {row} THEN [builder[b] EXCEPT !.todo = @ \ {row}]
  ELSE IF b \in Importers THEN [Idle EXCEPT !.at = "settle"]
  ELSE [builder[b] EXCEPT !.at = "reconcile", !.todo = {}, !.facets = 0]
WriteRow(b) ==
  /\ builder[b].at = "write"
  /\ \E r \in Due(b) : Lands(b, r, Written(b, r))
  /\ UNCHANGED <<news, sec, job, gens, pointer, unpointed, troubles>>

(* Mutant: a task whose refresh has failed goes on to the generation. *)
AfterFailureCopy(b) == IF b \in Importers THEN "fail" ELSE "copy"
(* A refresh that fails ends the task's snapshots, or marks the job. *)
AfterFailure(b) == IF b \in Importers THEN "fail" ELSE "end"
(* The first of the reads or writes to fail rejects them all, and the      *)
(* others go on unheard until the invocation ends; so may the one that     *)
(* failed, when it was only its answer that was lost.                      *)
Unheard(b, at, rest) ==
  IF rest = {} THEN [Idle EXCEPT !.at = at]
  ELSE [builder[b] EXCEPT !.at = at, !.todo = rest, !.since = 0,
                          !.mixed = FALSE]
RefreshFails(b) ==
  /\ troubles < MaxTroubles
  /\ troubles' = troubles + 1
  /\ builder[b].at \in {"read", "write"}
  /\ builder' = [builder EXCEPT ![b] = Unheard(b, AfterFailure(b), Due(b))]
  /\ UNCHANGED <<news, sec, job, rows, gens, pointer, unpointed>>
LandLate(b) ==
  /\ builder[b].at \in {"fail", "end"}
  /\ \E r \in builder[b].todo :
       Lands(b, r, Unheard(b, builder[b].at, builder[b].todo \ {r}))
  /\ UNCHANGED <<news, sec, job, gens, pointer, unpointed, troubles>>
End(b) ==
  /\ builder[b].at = "end"
  /\ Gone(b)
  /\ UNCHANGED <<news, sec, job, rows, gens, pointer, unpointed, troubles>>

(* markSnapshotReady, markSnapshotPending. *)
MarkReady(i) ==
  /\ builder[i].at = "settle"
  /\ job' = [job EXCEPT ![i].status = "committed", ![i].since = 0]
  /\ Gone(i)
  /\ UNCHANGED <<news, sec, rows, gens, pointer, unpointed, troubles>>
MarkReadyFails(i) ==
  /\ troubles < MaxTroubles
  /\ troubles' = troubles + 1
  /\ builder[i].at = "settle"
  /\ Goto(i, "fail")
  /\ UNCHANGED <<news, sec, job, rows, gens, pointer, unpointed>>
MarkPending(i) ==
  /\ builder[i].at = "fail"
  /\ job' = [job EXCEPT ![i].status = "pending", ![i].since = sec]
  /\ Goto(i, "end")
  /\ UNCHANGED <<news, sec, rows, gens, pointer, unpointed, troubles>>

-----------------------------------------------------------------------------
(* Mutant: the cutoff is taken when the refresh is over. *)
CutoffNow(b) == sec
(* The second in which the refresh started. *)
Cutoff(b) == builder[b].since
Reclaimed(b) ==
  {i \in Importers : job[i].status = "pending" /\ job[i].since <= Cutoff(b)}
Reconciled(b) ==
  builder' = [builder EXCEPT ![b] =
                [Idle EXCEPT !.at = "copy", !.mark = builder[b].mark,
                             !.mixed = builder[b].mixed]]
Reconcile(b) ==
  /\ builder[b].at = "reconcile"
  /\ job' = [i \in Importers |->
               IF i \in Reclaimed(b)
               THEN [job[i] EXCEPT !.status = "committed", !.since = 0]
               ELSE job[i]]
  /\ Reconciled(b)
  /\ UNCHANGED <<news, sec, rows, gens, pointer, unpointed, troubles>>

(* A reconciliation that fails is noted, and the task goes on.             *)
ReconcileFails(b) ==
  /\ troubles < MaxTroubles
  /\ troubles' = troubles + 1
  /\ builder[b].at = "reconcile"
  /\ Reconciled(b)
  /\ UNCHANGED <<news, sec, job, rows, gens, pointer, unpointed>>

(* buildAndActivateShadowSnapshotGeneration: the rows, in one statement;   *)
(* the latest of their watermarks stands for them all,                     *)
Copy(b) ==
  /\ builder[b].at = "copy"
  /\ \E late \in Rows :
       /\ \A r \in Rows : rows[r].mark <= rows[late].mark
       /\ builder' = [builder EXCEPT ![b] = [Idle EXCEPT !.at = "compare",
                                               !.mark = rows[late].mark]]
  /\ UNCHANGED <<news, sec, job, rows, gens, pointer, unpointed, troubles>>

(* the active generation, which may be as late as they are,                *)
Mark(b) == Watermark(builder[b].mark)
Unchanged(b) == \E g \in Active : Shown(g) = Mark(b)
LeaveUnchanged(b) ==
  /\ builder[b].at = "compare" /\ Unchanged(b)
  /\ Gone(b)
  /\ UNCHANGED <<news, sec, job, rows, gens, pointer, unpointed, troubles>>

(* a generation of their own, with its items and made ready in a batch that *)
(* nobody sees before it is active,                                        *)
Insert(b) ==
  /\ builder[b].at = "compare" /\ ~Unchanged(b)
  /\ gens' = Append(gens, [by |-> b, status |-> "ready",
                          mark |-> builder[b].mark])
  /\ builder' = [builder EXCEPT ![b] = [Idle EXCEPT !.at = "activate"]]
  /\ UNCHANGED <<news, sec, job, rows, pointer, unpointed, troubles>>

(* Mutant: the activation does not supersede the active generation. *)
CollidesAlways(b) == Active # {}
(* its activation, in one statement that takes the rows in their order and *)
(* meets the unique index before an active generation of a later rowid;    *)
Collides(b) == \E g \in Own(b), h \in Active : g < h
Activate(b) ==
  /\ builder[b].at = "activate" /\ ~Collides(b)
  /\ LET shown == [g \in DOMAIN gens |->
                     IF g \in Own(b) THEN [gens[g] EXCEPT !.status = "active"]
                     ELSE gens[g]]
     IN  gens' = Only(shown, {gen \in Range(shown) :
                                gen.status # "active" \/ gen.by = b})
  /\ pointer' = IF pointer = "active" THEN "older" ELSE pointer
  /\ Goto(b, "point")
  /\ UNCHANGED <<news, sec, job, rows, unpointed, troubles>>
ActivationFails(b) ==
  /\ builder[b].at = "activate" /\ Collides(b)
  /\ gens' = Abandoned(b)
  /\ Gone(b)
  /\ UNCHANGED <<news, sec, job, rows, pointer, unpointed, troubles>>

(* Mutant: the pointer is written without a look at the generation. *)
PointedAnyway(b) == IF Own(b) # {} THEN "active" ELSE "older"
(* the pointer, if the generation is still the active one.                 *)
Pointed(b) == IF Own(b) # {} THEN "active" ELSE pointer
Point(b) ==
  /\ builder[b].at = "point"
  /\ pointer' = Pointed(b)
  /\ unpointed' = (unpointed /\ Own(b) = {})
  /\ gens' = Abandoned(b)
  /\ Gone(b)
  /\ UNCHANGED <<news, sec, job, rows, troubles>>

-----------------------------------------------------------------------------
(* A statement fails, or the invocation is cut off: its generation has     *)
(* failed or stays where it is, unless it is active.                       *)
Stops(b) ==
  /\ troubles < MaxTroubles
  /\ troubles' = troubles + 1
  /\ builder[b].at # "away"
  /\ gens' = Abandoned(b)
  /\ unpointed' = (unpointed \/ builder[b].at = "point")
  /\ Gone(b)
  /\ UNCHANGED <<news, sec, job, rows, pointer>>
Tick ==
  /\ sec < MaxSec
  /\ sec' = sec + 1
  /\ UNCHANGED <<news, job, rows, builder, gens, pointer, unpointed, troubles>>

Refresh(b) == Start(b) \/ ReadFacets(b) \/ WriteRow(b) \/ End(b)
Settle(i) == MarkReady(i) \/ MarkReadyFails(i) \/ MarkPending(i)
Generate(b) ==
  \/ Reconcile(b) \/ Copy(b) \/ LeaveUnchanged(b) \/ Insert(b)
  \/ Activate(b) \/ ActivationFails(b) \/ Point(b)

Next ==
  \/ \E i \in Importers : Commit(i) \/ ComesAgain(i) \/ Settle(i)
  \/ \E b \in Builders :
       Refresh(b) \/ LandLate(b) \/ RefreshFails(b) \/ Stops(b)
  \/ \E s \in Schedulers : Generate(s) \/ ReconcileFails(s)
  \/ Tick

(* The cron ticks for ever, and what its tasks have begun goes on.  That an *)
(* importer comes again, or finishes what it has begun, is not promised.   *)
Fairness == \A s \in Schedulers : WF_vars(Refresh(s) \/ Generate(s))

Spec == Init /\ [][Next]_vars /\ Fairness

-----------------------------------------------------------------------------
(* The pointer names the active generation when nobody is about to write   *)
(* it, unless a builder was stopped right before that: two builders do not *)
(* leave it at the one that lost.                                          *)
PointerTells ==
  (\A b \in Builders : builder[b].at # "point") /\ ~unpointed
    => Active = {} \/ pointer = "active"

(* What a task copies into a generation holds, in every row, at least what *)
(* was there when the watermark of the generation was read: later builds   *)
(* compare the watermarks alone, and would never replace a generation that *)
(* claims what it does not hold. That is so whatever commits between the   *)
(* reads of a refresh, and wherever a refresh has stopped before, unless a *)
(* write of another watermark has come between the task's own and its copy.*)
CopiedIsCurrent ==
  [][\A s \in Schedulers :
       Copy(s) /\ ~builder[s].mixed =>
         \A r \in Rows : rows[r].version >= builder'[s].mark]_vars

(* A job that a task reclaims is one that its refresh has seen, unless it  *)
(* was marked in the very second in which the refresh started.             *)
ReclaimedIsShown ==
  [][\A b \in Schedulers, i \in Importers :
       Reconcile(b) /\ job[i].status = "pending" /\ job'[i].status # "pending"
         => \/ job[i].version <= builder[b].mark
            \/ job[i].since = builder[b].since]_vars

(* Whatever overlaps and fails, the generation shown in the end has the   *)
(* latest publication.                                                     *)
LatestGetsActive ==
  <>[](\E g \in Active : Shown(g) = Watermark(news))
=============================================================================
