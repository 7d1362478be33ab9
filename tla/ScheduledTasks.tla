--------------------------- MODULE ScheduledTasks ---------------------------
(***************************************************************************)
(* The scheduled invocations that use the container (workers/lib/          *)
(* scheduled.ts): the locks of ops_state, which are read and written in    *)
(* two statements, say nothing of their holder and run out after twenty    *)
(* minutes, and the cursor of the batches that the collection goes         *)
(* through. An invocation that is cut off leaves its locks; a cycle in the *)
(* container goes on when nobody waits for its answer any more.            *)
(***************************************************************************)
EXTENDS Naturals, FiniteSets

CONSTANTS Runs,         \* bound: invocations at one time
          Batches,      \* batches of targets that the cursor goes around
          MaxTroubles   \* bound: cut-offs, timeouts, locks run out, restarts

ASSUME BatchesAssumption == Batches \in Nat \ {0}
ASSUME TroublesAssumption == MaxTroubles \in Nat

Tasks == {"collect", "translate"}
Locks == Tasks \cup {"writer"}

VARIABLES lock,     \* is lock_until of each lock in the future?
          run,      \* what each invocation is at
          going,    \* the invocations whose cycle is at work
          cursor,   \* the batch to collect next
          slipped,  \* did two hold a lock at once, or a cycle outlive it?
          troubles

taskVars == <<lock, run, going, cursor, slipped, troubles>>

Idle == [task |-> "collect", at |-> "away", from |-> 0]

TasksTypeOK ==
  /\ lock \in [Locks -> {"free", "held"}]
  /\ run \in [Runs -> [task : Tasks, from : 0..(Batches - 1),
                      at : {"away", "lock", "ask", "writer", "load", "start",
                            "call", "lost", "persist", "release", "unlock"}]]
  /\ going \subseteq Runs
  /\ cursor \in 0..(Batches - 1)
  /\ slipped \in BOOLEAN
  /\ troubles \in 0..MaxTroubles

TasksInit ==
  /\ lock = [l \in Locks |-> "free"]
  /\ run = [r \in Runs |-> Idle]
  /\ going = {} /\ cursor = 0 /\ slipped = FALSE /\ troubles = 0

Goto(r, at) == run' = [run EXCEPT ![r].at = at]
(* Nothing is left of an invocation but the cycle it has started. *)
Gone(r) ==
  run' = [run EXCEPT ![r] =
            [Idle EXCEPT !.task = IF r \in going THEN run[r].task ELSE @]]

(* Mutant: the locks are released before the cursor is written. *)
CursorLast(at) ==
  CASE at = "call" -> "release" [] at = "release" -> "unlock"
    [] at = "unlock" -> "persist" [] at = "persist" -> "away"
(* What follows a good answer, to the end of the finally block. *)
After(at) ==
  CASE at = "call" -> "persist" [] at = "persist" -> "release"
    [] at = "release" -> "unlock" [] at = "unlock" -> "away"

(* An invocation thinks a lock its own from its write to its release. *)
HoldsTask(r) == run[r].at \notin {"away", "lock"}
HoldsWriter(r) ==
  run[r].at \in {"load", "start", "call", "lost", "persist", "release"}
Guards(l, r) ==
  IF l = "writer" THEN HoldsWriter(r) \/ r \in going
  ELSE run[r].task = l /\ (HoldsTask(r) \/ r \in going)

-----------------------------------------------------------------------------
(* acquireLock, the SELECT: the lock is held, and the tick is skipped, or  *)
(* it is not.                                                              *)
Tick(r) ==
  /\ run[r].at = "away" /\ r \notin going
  /\ \E t \in Tasks :
       /\ lock[t] = "free"
       /\ run' = [run EXCEPT ![r] =
                     [task |-> t, at |-> "lock", from |-> 0]]
  /\ UNCHANGED <<lock, going, cursor, slipped, troubles>>

(* acquireLock, the write, whatever the row says by now. *)
TakeLock(l) ==
  /\ lock' = [lock EXCEPT ![l] = "held"]
  /\ slipped' = (slipped \/ lock[l] = "held")
Take(r) ==
  /\ run[r].at = "lock"
  /\ TakeLock(run[r].task)
  /\ Goto(r, "ask")
  /\ UNCHANGED <<going, cursor, troubles>>

(* Mutant: the translation does not ask for the lock of the writer. *)
Collectors == {"collect"}
(* The tasks that write the databases of the container. *)
WriterTasks == {"collect", "translate"}
AskWriter(r) ==
  /\ run[r].at = "ask"
  /\ IF run[r].task \notin WriterTasks THEN Goto(r, "load")
     ELSE IF lock["writer"] = "held" THEN Goto(r, "unlock")
     ELSE Goto(r, "writer")
  /\ UNCHANGED <<lock, going, cursor, slipped, troubles>>
TakeWriter(r) ==
  /\ run[r].at = "writer"
  /\ TakeLock("writer")
  /\ Goto(r, "load")
  /\ UNCHANGED <<going, cursor, troubles>>

(* loadCollectTargetBatch reads the cursor. *)
Load(r) ==
  /\ run[r].at = "load"
  /\ run' = [run EXCEPT ![r] =
                [task |-> run[r].task, at |-> "start",
                 from |-> IF run[r].task = "collect" THEN cursor ELSE 0]]
  /\ UNCHANGED <<lock, going, cursor, slipped, troubles>>

(* callContainerInternalTask: the cycle starts, again when the container   *)
(* went down before it answered.                                           *)
Call(r) ==
  /\ run[r].at \in {"start", "lost"}
  /\ Goto(r, "call")
  /\ going' = going \cup {r}
  /\ UNCHANGED <<lock, cursor, slipped, troubles>>

(* The cycle is over: its status lets a collection write the cursor. *)
AnswerOk(r) ==
  /\ run[r].at = "call" /\ r \notin going
  /\ Goto(r, After("call"))
  /\ UNCHANGED <<lock, going, cursor, slipped, troubles>>
(* A statement before the call fails, the cycle ends with an error, or the *)
(* import of what it found does.                                           *)
AnswerError(r) ==
  /\ run[r].at \in {"load", "start", "call", "lost"} /\ r \notin going
  /\ Goto(r, "release")
  /\ UNCHANGED <<lock, going, cursor, slipped, troubles>>

(* persistCollectTargetCursor. *)
Persist(r) ==
  /\ run[r].at = "persist"
  /\ cursor' = IF run[r].task = "collect"
               THEN (run[r].from + 1) % Batches ELSE cursor
  /\ Goto(r, After("persist"))
  /\ UNCHANGED <<lock, going, slipped, troubles>>

(* releaseLock asks nobody whose lock it is. *)
Free(l) == lock' = [lock EXCEPT ![l] = "free"]
ReleaseWriter(r) ==
  /\ run[r].at = "release"
  /\ IF run[r].task \in WriterTasks THEN Free("writer") ELSE UNCHANGED lock
  /\ Goto(r, After("release"))
  /\ UNCHANGED <<going, cursor, slipped, troubles>>
ReleaseTask(r) ==
  /\ run[r].at = "unlock"
  /\ Free(run[r].task)
  /\ IF After("unlock") = "away" THEN Gone(r) ELSE Goto(r, After("unlock"))
  /\ UNCHANGED <<going, cursor, slipped, troubles>>

-----------------------------------------------------------------------------
Trouble == troubles < MaxTroubles /\ troubles' = troubles + 1

(* The eight minutes are over: the call is given up, the cycle goes on. *)
Abort(r) ==
  /\ Trouble
  /\ run[r].at = "call" /\ r \in going
  /\ Goto(r, "release")
  /\ slipped' = TRUE
  /\ UNCHANGED <<lock, going, cursor>>

(* The invocation is cut off; what it holds stays held. *)
Die(r) ==
  /\ Trouble
  /\ run[r].at # "away"
  /\ Gone(r)
  /\ UNCHANGED <<lock, going, cursor, slipped>>

(* lock_until is in the past: of a lock that was left, or of one that      *)
(* still guards something.                                                 *)
RunsOut(l) ==
  /\ lock[l] = "held"
  /\ Free(l)
  /\ IF \E r \in Runs : Guards(l, r) THEN slipped' = TRUE /\ Trouble
     ELSE UNCHANGED <<slipped, troubles>>
  /\ UNCHANGED <<run, going, cursor>>

(* The container goes down: no cycle is at work any more. *)
CyclesEnd ==
  /\ Trouble
  /\ going' = {}
  /\ run' = [r \in Runs |->
               IF run[r].at = "call" /\ r \in going
               THEN [run[r] EXCEPT !.at = "lost"] ELSE run[r]]
  /\ UNCHANGED <<lock, cursor, slipped>>

(* What an invocation does by itself. *)
Work(r) ==
  \/ Tick(r) \/ Take(r) \/ AskWriter(r) \/ TakeWriter(r) \/ Load(r)
  \/ AnswerOk(r) \/ AnswerError(r) \/ Persist(r)
  \/ ReleaseWriter(r) \/ ReleaseTask(r) \/ Abort(r) \/ Die(r)

-----------------------------------------------------------------------------
(* At most one cycle is at work in the container, as long as no two ticks  *)
(* read a lock before the other writes it and no cycle outlives the        *)
(* invocation's wait or the lock.                                          *)
OneWriter == ~slipped => Cardinality(going) <= 1

(* Under the same conditions the cursor leaves the batch that was loaded   *)
(* by the collection that has succeeded, and by one batch: none is skipped *)
(* or passed over twice, whoever else was cut off.                         *)
CursorPassesCollected ==
  [][cursor' # cursor /\ ~slipped =>
       /\ cursor' = (cursor + 1) % Batches
       /\ \E r \in Runs : run[r].task = "collect" /\ run[r].from = cursor
                            /\ run[r].at = "persist"]_taskVars
=============================================================================
