----------------------- MODULE ContainerCyclesProofs -----------------------
(***************************************************************************)
(* The lock of the writer, for any number of invocations, users, stores    *)
(* and batches: while no lock is taken twice and no cycle outlives it, an  *)
(* invocation between the write and the release of the lock, or with a     *)
(* cycle at work, is alone, and what it has read of the cursor still holds.*)
(* The second part is about the stores of a target, of which the server    *)
(* loses no open connection.                                               *)
(***************************************************************************)
EXTENDS ContainerCycles, FiniteSetTheorems, TLAPS

Loaded == {"start", "call", "lost", "persist"}

(* What the lock guards is its holder's alone, until it is released. *)
Guarded ==
  /\ \A r \in Runs : Guards("writer", r) => lock["writer"] = "held"
  /\ \A r, s \in Runs : Guards("writer", r) /\ Guards("writer", s) => r = s
  /\ \A r \in going : run[r].at \in {"call", "away"}
  /\ \A r \in Runs : run[r].task = "collect" /\ run[r].at \in Loaded
                       => run[r].from = cursor

IInv == TasksTypeOK /\ (~slipped => Guarded)

(* A step, as far as the scheduled tasks see it. *)
CycleEnds == /\ going' \subseteq going
             /\ UNCHANGED <<lock, run, cursor, slipped, troubles>>
TaskStep ==
  \/ \E r \in Runs : Work(r) \/ Call(r)
  \/ \E l \in Locks : RunsOut(l)
  \/ CyclesEnd \/ CycleEnds

(* Whatever the stores do, a step of the composition is one of these. *)
LEMMA StepOfTasks == [Next]_vars => TaskStep
<1> SUFFICES ASSUME [Next]_vars PROVE TaskStep
  OBVIOUS
<1>1. CASE \E r \in Runs : Work(r) /\ UNCHANGED storeVars
  BY <1>1 DEF TaskStep
<1>2. CASE \E l \in Locks : RunsOut(l) /\ UNCHANGED storeVars
  BY <1>2 DEF TaskStep
<1>3. CASE \E r \in Runs : StartCycle(r) \/ CycleWorks(r)
  <2>1. PICK r \in Runs : StartCycle(r) \/ CycleWorks(r)
    BY <1>3
  <2>2. CASE StartCycle(r)
    BY <2>2 DEF StartCycle, TaskStep
  <2>3. CASE CycleWorks(r)
    BY <2>3 DEF CycleWorks, StillGoing, TaskStep, CycleEnds
  <2> QED
    BY <2>1, <2>2, <2>3
<1>4. CASE \E q \in Requests : Request(q)
  BY <1>4 DEF Request, taskVars, TaskStep, CycleEnds
<1>5. CASE FailureForgotten /\ UNCHANGED taskVars
  BY <1>5 DEF taskVars, TaskStep, CycleEnds
<1>6. CASE ContainerEnds
  BY <1>6 DEF ContainerEnds, TaskStep
<1>7. CASE UNCHANGED vars
  BY <1>7 DEF vars, taskVars, TaskStep, CycleEnds
<1> QED
  BY <1>1, <1>2, <1>3, <1>4, <1>5, <1>6, <1>7 DEF Next

-----------------------------------------------------------------------------
(* The shape of an invocation. *)
RunShape == [task : Tasks, from : 0..(Batches - 1),
             at : {"away", "lock", "ask", "writer", "load", "start",
                   "call", "lost", "persist", "release", "unlock"}]

LEMMA InitIInv == Init => IInv
<1> SUFFICES ASSUME Init PROVE IInv
  OBVIOUS
<1> USE BatchesAssumption, TroublesAssumption DEF Init, TasksInit
<1>1. TasksTypeOK
  <2>1. Idle \in RunShape
    BY DEF Idle, RunShape, Tasks
  <2>2. run \in [Runs -> RunShape]
    BY <2>1
  <2>3. lock \in [Locks -> {"free", "held"}]
    OBVIOUS
  <2>4. cursor \in 0..(Batches - 1) /\ troubles \in 0..MaxTroubles
    OBVIOUS
  <2> QED
    BY <2>2, <2>3, <2>4 DEF TasksTypeOK, RunShape
<1>2. Guarded
  BY DEF Guarded, Guards, HoldsWriter, Loaded, Idle
<1> QED
  BY <1>1, <1>2 DEF IInv

LEMMA TaskStepType ==
  ASSUME TasksTypeOK, TaskStep
  PROVE  TasksTypeOK'
<1> USE BatchesAssumption, TroublesAssumption DEF TasksTypeOK
<1>1. ASSUME NEW r \in Runs, Work(r) \/ Call(r)
      PROVE  TasksTypeOK'
  <2> USE DEF Goto, Gone, Idle, Tasks, Locks, TakeLock, Free, Trouble, After
  <2>1. CASE Tick(r)
    BY <2>1 DEF Tick
  <2>2. CASE Take(r)
    BY <2>2 DEF Take
  <2>3. CASE AskWriter(r)
    BY <2>3 DEF AskWriter
  <2>4. CASE TakeWriter(r)
    BY <2>4 DEF TakeWriter
  <2>5. CASE Load(r)
    BY <2>5 DEF Load
  <2>6. CASE AnswerOk(r)
    BY <2>6 DEF AnswerOk
  <2>7. CASE AnswerError(r)
    BY <2>7 DEF AnswerError
  <2>8. CASE Persist(r)
    BY <2>8 DEF Persist
  <2>9. CASE ReleaseWriter(r)
    BY <2>9 DEF ReleaseWriter
  <2>10. CASE ReleaseTask(r)
    BY <2>10 DEF ReleaseTask
  <2>11. CASE Abort(r)
    BY <2>11 DEF Abort
  <2>12. CASE Die(r)
    BY <2>12 DEF Die
  <2>13. CASE Call(r)
    BY <2>13 DEF Call
  <2> QED
    BY <1>1, <2>1, <2>2, <2>3, <2>4, <2>5, <2>6, <2>7, <2>8, <2>9, <2>10,
       <2>11, <2>12, <2>13 DEF Work
<1>2. ASSUME NEW l \in Locks, RunsOut(l)
      PROVE  TasksTypeOK'
  <2>1. lock' \in [Locks -> {"free", "held"}]
    BY <1>2 DEF RunsOut, Free
  <2>2. slipped' \in BOOLEAN /\ troubles' \in 0..MaxTroubles
    <3>1. CASE \E r \in Runs : Guards(l, r)
      <4>1. slipped' = TRUE /\ Trouble
        BY <1>2, <3>1, Zenon DEF RunsOut
      <4> QED
        BY <4>1 DEF Trouble
    <3>2. CASE ~\E r \in Runs : Guards(l, r)
      <4>1. slipped' = slipped /\ troubles' = troubles
        BY <1>2, <3>2, Zenon DEF RunsOut
      <4> QED
        BY <4>1
    <3> QED
      BY <3>1, <3>2
  <2> QED
    BY <1>2, <2>1, <2>2 DEF RunsOut
<1>3. CASE CyclesEnd
  BY <1>3 DEF CyclesEnd, Trouble
<1>4. CASE CycleEnds
  BY <1>4 DEF CycleEnds
<1> QED
  BY <1>1, <1>2, <1>3, <1>4 DEF TaskStep
-----------------------------------------------------------------------------
(* Each step of the scheduled tasks that does not slip keeps the lock to   *)
(* its holder.                                                             *)
LEMMA TaskStepGuarded ==
  ASSUME TasksTypeOK, TaskStep, ~slipped => Guarded, ~slipped'
  PROVE  Guarded'
<1> USE BatchesAssumption DEF TasksTypeOK, Guarded, Guards, HoldsWriter, Loaded
<1>1. ASSUME NEW r \in Runs, Work(r) \/ Call(r)
      PROVE  Guarded'
  <2> USE DEF Goto, Gone, Idle, Tasks, Locks, TakeLock, Free, After
  <2>1. CASE Tick(r)
    BY <2>1 DEF Tick
  <2>2. CASE Take(r)
    BY <2>2 DEF Take
  <2>3. CASE AskWriter(r)
    BY <2>3 DEF AskWriter, WriterTasks
  <2>4. CASE TakeWriter(r)
    <3>1. /\ run' = [run EXCEPT ![r].at = "load"] /\ run[r].at = "writer"
          /\ lock' = [lock EXCEPT !["writer"] = "held"]
          /\ lock["writer"] # "held" /\ ~slipped
          /\ going' = going /\ cursor' = cursor
      BY <2>4 DEF TakeWriter
    <3>2. \A s \in Runs : ~HoldsWriter(s) /\ s \notin going
      BY <3>1
    <3>3. /\ lock'["writer"] = "held" /\ run'[r].at = "load"
          /\ \A s \in Runs \ {r} : run'[s] = run[s]
      BY <3>1
    <3> QED
      BY <3>1, <3>2, <3>3
  <2>5. CASE Load(r)
    BY <2>5 DEF Load
  <2>6. CASE AnswerOk(r)
    BY <2>6 DEF AnswerOk
  <2>7. CASE AnswerError(r)
    BY <2>7 DEF AnswerError
  <2>8. CASE Persist(r)
    BY <2>8 DEF Persist
  <2>9. CASE ReleaseWriter(r)
    BY <2>9 DEF ReleaseWriter, WriterTasks
  <2>10. CASE ReleaseTask(r)
    BY <2>10 DEF ReleaseTask
  <2>11. CASE Abort(r)
    BY <2>11 DEF Abort
  <2>12. CASE Die(r)
    BY <2>12 DEF Die
  <2>13. CASE Call(r)
    BY <2>13 DEF Call
  <2> QED
    BY <1>1, <2>1, <2>2, <2>3, <2>4, <2>5, <2>6, <2>7, <2>8, <2>9, <2>10,
       <2>11, <2>12, <2>13 DEF Work
<1>2. ASSUME NEW l \in Locks, RunsOut(l)
      PROVE  Guarded'
  BY <1>2 DEF RunsOut, Free, Locks, Tasks
<1>3. CASE CyclesEnd
  BY <1>3 DEF CyclesEnd
<1>4. CASE CycleEnds
  BY <1>4 DEF CycleEnds
<1> QED
  BY <1>1, <1>2, <1>3, <1>4 DEF TaskStep

LEMMA StepIInv == IInv /\ [Next]_vars => IInv'
<1> SUFFICES ASSUME IInv, [Next]_vars PROVE IInv'
  OBVIOUS
<1>1. TaskStep
  BY StepOfTasks
<1>2. TasksTypeOK'
  BY <1>1, TaskStepType DEF IInv
<1>3. ~slipped' => Guarded'
  BY <1>1, TaskStepGuarded DEF IInv
<1> QED
  BY <1>2, <1>3 DEF IInv

(* What the runs of TLC show of two invocations holds of any number: every *)
(* state of the composition satisfies the invariant.                       *)
THEOREM WriterGuarded == Spec => []IInv
<1>1. Init => IInv
  BY InitIInv
<1>2. IInv /\ [Next]_vars => IInv'
  BY StepIInv
<1> QED
  BY <1>1, <1>2, PTL DEF Spec

(* One cycle at a time in the container, while no lock is taken twice and  *)
(* no cycle outlives the wait for it or the lock.                          *)
THEOREM OneWriterAtATime == Spec => []OneWriter
<1>1. IInv => OneWriter
  <2> SUFFICES ASSUME IInv, ~slipped PROVE Cardinality(going) <= 1
    BY DEF OneWriter
  <2>1. \A r, s \in going : r = s
    BY DEF IInv, Guarded, Guards, TasksTypeOK
  <2>2. CASE going = {}
    BY <2>2, FS_EmptySet
  <2>3. CASE going # {}
    <3>1. PICK r \in going : TRUE
      BY <2>3
    <3>2. going = {r}
      BY <2>1, <3>1
    <3> QED
      BY <3>2, FS_Singleton
  <2> QED
    BY <2>2, <2>3
<1> QED
  BY <1>1, WriterGuarded, PTL

(* The cursor leaves a batch only by the collection that loaded it, after  *)
(* its success and by one batch, under the same conditions.                *)
THEOREM CursorFollowsCollection == Spec => CursorPassesCollected
<1> DEFINE Passes ==
      cursor' # cursor /\ ~slipped =>
        /\ cursor' = (cursor + 1) % Batches
        /\ \E r \in Runs : run[r].task = "collect" /\ run[r].from = cursor
                             /\ run[r].at = "persist"
<1>1. IInv /\ [Next]_vars => Passes
  <2> SUFFICES ASSUME IInv, [Next]_vars, cursor' # cursor, ~slipped
               PROVE  Passes
    OBVIOUS
  <2>1. TaskStep
    BY StepOfTasks
  <2>2. PICK r \in Runs : Persist(r)
    <3>1. ASSUME NEW r \in Runs, Work(r) \/ Call(r)
          PROVE  Persist(r)
      BY <3>1 DEF Work, Call, Tick, Take, AskWriter, TakeWriter, Load,
                  AnswerOk, AnswerError, ReleaseWriter, ReleaseTask, Abort,
                  Die
    <3> QED
      BY <2>1, <3>1 DEF TaskStep, RunsOut, CyclesEnd, CycleEnds
  <2>3. run[r].task = "collect" /\ run[r].at = "persist"
    BY <2>2 DEF Persist
  <2>4. run[r].from = cursor
    BY <2>3 DEF IInv, Guarded, Loaded
  <2> QED
    BY <2>2, <2>3, <2>4 DEF Persist
<1>2. IInv /\ [Next]_vars => [Passes]_taskVars
  BY <1>1
<1> QED
  BY <1>2, WriterGuarded, PTL DEF Spec, CursorPassesCollected

-----------------------------------------------------------------------------
(* While no cycle closes the stores, and no coroutine opens one, beside    *)
(* another that is at work: who opens a store is alone in opening and the  *)
(* cache is empty, who uses one uses the cached one, who closes one is its *)
(* last holder.                                                            *)
OpensAlone(u) ==
  /\ cache = NoStore
  /\ \A v \in Users \ {u} : v \notin Opening /\ user[v].store # user[u].store
  /\ db[user[u].store] = IF user[u].at = "connect" THEN "none" ELSE "open"
UsesCached(u) == user[u].store = cache /\ user[u].at # "reopen"
ClosesAlone(u) ==
  /\ user[u].store # cache
  /\ \A v \in Users \ {u} : user[v].store # user[u].store
  /\ db[user[u].store] = IF user[u].at = "close" THEN "open" ELSE "closing"
HasNone(u) == user[u].store = NoStore

Kept ==
  /\ ~orphans
  /\ cache # NoStore => db[cache] = "open"
  /\ \A s \in Stores : db[s] # "none" => s = cache \/ Holders(s) # {}
  /\ \A u \in Users :
       /\ user[u].at \in {"connect", "prepare"} => OpensAlone(u)
       /\ user[u].at \in {"read", "write", "reopen"} => UsesCached(u)
       /\ user[u].at \in {"close", "closed"} => ClosesAlone(u)
       /\ user[u].at \in {"away", "leave"} <=> HasNone(u)

StoresInv == StoresTypeOK /\ (~crossed => Kept)

(* A step, as far as the stores see it. *)
UserStep(u) ==
  \/ user[u] = Away /\ Get(u)
  \/ user[u] = Away /\ Done(u) /\ UNCHANGED <<cache, db, orphans, failing, crossed>>
  \/ Use(u) \/ CloseStores(u) \/ Close(u) \/ Closed(u) \/ Leave(u)
StoresStep ==
  \/ \E u \in Users : UserStep(u)
  \/ FailureForgotten \/ ProcessEnds

LEMMA StepOfStores == [Next]_vars => StoresStep \/ UNCHANGED storeVars
<1> SUFFICES ASSUME [Next]_vars PROVE StoresStep \/ UNCHANGED storeVars
  OBVIOUS
<1>1. CASE \E r \in Runs : StartCycle(r) \/ CycleWorks(r)
  <2>1. PICK r \in Runs : StartCycle(r) \/ CycleWorks(r)
    BY <1>1
  <2>2. UserStep(r)
    BY <2>1 DEF StartCycle, CycleWorks, UserStep
  <2> QED
    BY <2>2, UsersAssumption DEF StoresStep
<1>2. CASE \E q \in Requests : Request(q)
  <2>1. PICK q \in Requests : Request(q)
    BY <1>2
  <2>2. UserStep(q)
    BY <2>1 DEF Request, UserStep
  <2> QED
    BY <2>2, UsersAssumption DEF StoresStep
<1>3. CASE FailureForgotten \/ ContainerEnds
  BY <1>3 DEF ContainerEnds, StoresStep
<1>4. CASE \/ \E r \in Runs : Work(r) /\ UNCHANGED storeVars
           \/ \E l \in Locks : RunsOut(l) /\ UNCHANGED storeVars
           \/ UNCHANGED vars
  BY <1>4 DEF vars
<1> QED
  BY <1>1, <1>2, <1>3, <1>4 DEF Next

LEMMA InitStoresInv == Init => StoresInv
<1> SUFFICES ASSUME Init PROVE StoresInv
  OBVIOUS
<1> USE NoStoreAssumption DEF Init, StoresInit, Away
<1>1. StoresTypeOK
  BY DEF StoresTypeOK
<1>2. Kept
  BY DEF Kept, HasNone
<1> QED
  BY <1>1, <1>2 DEF StoresInv

Places == {"away", "connect", "prepare", "read", "write", "reopen", "leave",
           "close", "closed"}
UserShape == [at : Places, store : Stores \cup {NoStore}]

LEMMA GoUser ==
  ASSUME StoresTypeOK, NEW u \in Users, NEW at \in Places,
         NEW s \in Stores \cup {NoStore}, Go(u, at, s)
  PROVE  /\ user' \in [Users -> UserShape]
         /\ user'[u] = [at |-> at, store |-> s]
         /\ \A v \in Users \ {u} : user'[v] = user[v]
<1>1. user \in [Users -> UserShape]
  BY DEF StoresTypeOK, UserShape, Places
<1>2. [at |-> at, store |-> s] \in UserShape
  BY DEF UserShape
<1> QED
  BY <1>1, <1>2 DEF Go

(* What a user holds, and where a step can take it. *)
LEMMA UserMoves ==
  ASSUME StoresTypeOK, NEW u \in Users, UserStep(u)
  PROVE  \E at \in Places, s \in Stores \cup {NoStore} : Go(u, at, s)
<1> USE DEF StoresTypeOK, Places
<1>1. CASE Get(u)
  <2>1. CASE GetCached(u)
    BY <2>1 DEF GetCached
  <2>2. CASE OpenNew(u)
    BY <2>2 DEF OpenNew
  <2>3. CASE GetNothing(u)
    BY <2>3 DEF GetNothing, Done
  <2> QED
    BY <1>1, <2>1, <2>2, <2>3 DEF Get
<1>2. user[u].store \in Stores \cup {NoStore}
  OBVIOUS
<1>3. CASE Use(u)
  BY <1>2, <1>3 DEF Use, Connect, Prepared, OpenFails, Read, Write, Reopen, Done
<1>4. CASE user' = [user EXCEPT ![u] = Away]
  BY <1>4 DEF Away, Go
<1> QED
  BY <1>1, <1>2, <1>3, <1>4
  DEF UserStep, CloseStores, Close, Closed, Leave, Done

LEMMA StoresStepType ==
  ASSUME StoresTypeOK, StoresStep
  PROVE  StoresTypeOK'
<1> USE DEF StoresTypeOK
<1>1. ASSUME NEW u \in Users, UserStep(u)
      PROVE  StoresTypeOK'
  <2>1. user' \in [Users -> UserShape]
    BY <1>1, UserMoves, GoUser
  <2>2. cache' \in Stores \cup {NoStore} /\ db' \in [Stores -> {"none", "open", "closing"}]
    BY <1>1 DEF UserStep, Get, GetCached, OpenNew, GetNothing, Use, Connect,
       Connected, Prepared, OpenFails, ClosedDb, Read, Write, Reopen,
       CloseStores, EmptiedCache, Close, Closed, Leave
  <2>3. orphans' \in BOOLEAN /\ failing' \in BOOLEAN /\ crossed' \in BOOLEAN
    BY <1>1 DEF UserStep, Get, GetCached, OpenNew, GetNothing, Use, Connect,
       Connected, Prepared, OpenFails, Read, Write, Reopen,
       CloseStores, Close, Closed, Leave
  <2> QED
    BY <2>1, <2>2, <2>3 DEF UserShape, Places
<1>2. CASE FailureForgotten
  BY <1>2 DEF FailureForgotten
<1>3. CASE ProcessEnds
  BY <1>3 DEF ProcessEnds, Away
<1> QED
  BY <1>1, <1>2, <1>3 DEF StoresStep

(* Each step that crosses nobody keeps every connection in somebody's      *)
(* hands.                                                                  *)
LEMMA StoresStepKept ==
  ASSUME StoresTypeOK, StoresStep, ~crossed => Kept, ~crossed'
  PROVE  Kept'
<1> USE NoStoreAssumption
    DEF StoresTypeOK, Kept, OpensAlone, UsesCached, ClosesAlone, HasNone,
        Holders, Opening
<1>1. ASSUME NEW u \in Users, UserStep(u)
      PROVE  Kept'
  <2> USE DEF Go, Done, Away
  <2>1. CASE user[u] = Away /\ GetCached(u) /\ UNCHANGED <<cache, failing>>
    BY <2>1 DEF GetCached
  <2>2. CASE user[u] = Away /\ OpenNew(u) /\ UNCHANGED <<cache, failing>>
    <3>1. PICK s \in Stores :
            /\ Holders(s) = {} /\ cache = NoStore
            /\ Go(u, "connect", s)
            /\ db' = [db EXCEPT ![s] = "none"]
            /\ orphans' = (orphans \/ db[s] = "open")
            /\ crossed' = (crossed \/ Opening # {})
            /\ cache' = cache
      BY <2>2 DEF OpenNew
    <3>2. ~crossed /\ Opening = {}
      BY <3>1
    <3>3. /\ user'[u] = [at |-> "connect", store |-> s]
          /\ \A v \in Users \ {u} : user'[v] = user[v]
      BY <3>1, GoUser DEF Places
    <3>4. db[s] = "none" /\ db' = db
      BY <3>1, <3>2
    <3>5. ~orphans'
      BY <3>1, <3>2, <3>4
    <3>6. \A v \in Users \ {u} : user[v].store # s
      BY <3>1
    <3> QED
      BY <3>1, <3>2, <3>3, <3>4, <3>5, <3>6, <2>2
  <2>3. CASE user[u] = Away /\ Done(u) /\ UNCHANGED <<cache, db, orphans, crossed>>
    BY <2>3
  <2>4. CASE Connect(u)
    BY <2>4 DEF Connect, Connected
  <2>5. CASE Prepared(u)
    BY <2>5 DEF Prepared
  <2>6. CASE OpenFails(u)
    BY <2>6 DEF OpenFails, ClosedDb
  <2>7. CASE Read(u)
    <3>1. user[u].store = cache /\ cache \in Stores /\ db[cache] = "open"
      BY <2>7 DEF Read
    <3>2. Go(u, "write", cache)
      BY <2>7, <3>1 DEF Read
    <3>3. /\ user'[u] = [at |-> "write", store |-> cache]
          /\ \A v \in Users \ {u} : user'[v] = user[v]
      BY <3>1, <3>2, GoUser DEF Places
    <3> QED
      BY <2>7, <3>1, <3>3 DEF Read
  <2>8. CASE Write(u) \/ Reopen(u)
    BY <2>8 DEF Write, Reopen
  <2>9. CASE CloseStores(u)
    <3>1. ~crossed /\ Present = {u} /\ cache' = NoStore
      BY <2>9 DEF CloseStores, EmptiedCache
    <3>2. \A v \in Users \ {u} : user[v] = Away
      BY <3>1 DEF Present
    <3>3. \A v \in Users \ {u} : user'[v] = user[v]
      BY <2>9 DEF CloseStores
    <3>4. \A s \in Stores : db[s] # "none" => s = cache
      BY <2>9, <3>1, <3>2 DEF CloseStores
    <3>5. CASE cache = NoStore
      <4>1. user'[u] = Away
        BY <2>9, <3>5 DEF CloseStores
      <4> QED
        BY <2>9, <3>1, <3>2, <3>3, <3>4, <3>5, <4>1 DEF CloseStores
    <3>6. CASE cache # NoStore
      <4>1. user'[u] = [at |-> "close", store |-> cache]
        BY <2>9, <3>6, GoUser DEF CloseStores, Places
      <4> QED
        BY <2>9, <3>1, <3>2, <3>3, <3>4, <3>6, <4>1 DEF CloseStores
    <3> QED
      BY <3>5, <3>6
  <2>10. CASE Close(u)
    BY <2>10 DEF Close
  <2>11. CASE Closed(u)
    BY <2>11 DEF Closed
  <2>12. CASE Leave(u)
    BY <2>12 DEF Leave
  <2> QED
    BY <1>1, <2>1, <2>2, <2>3, <2>4, <2>5, <2>6, <2>7, <2>8, <2>9, <2>10,
       <2>11, <2>12 DEF UserStep, Get, GetNothing, Use
<1>2. CASE FailureForgotten
  BY <1>2 DEF FailureForgotten
<1>3. CASE ProcessEnds
  BY <1>3 DEF ProcessEnds, Away
<1> QED
  BY <1>1, <1>2, <1>3 DEF StoresStep

(* Whatever the tasks do meanwhile, the composition keeps it. *)
LEMMA StepStoresInv == StoresInv /\ [Next]_vars => StoresInv'
<1> SUFFICES ASSUME StoresInv, [Next]_vars PROVE StoresInv'
  OBVIOUS
<1>1. CASE StoresStep
  <2>1. StoresTypeOK'
    BY <1>1, StoresStepType DEF StoresInv
  <2>2. ~crossed' => Kept'
    BY <1>1, StoresStepKept DEF StoresInv
  <2> QED
    BY <2>1, <2>2 DEF StoresInv
<1>2. CASE UNCHANGED storeVars
  BY <1>2 DEF storeVars, StoresInv, StoresTypeOK, Kept, OpensAlone,
              UsesCached, ClosesAlone, HasNone, Holders, Opening
<1> QED
  BY <1>1, <1>2, StepOfStores

(* Every state of the composition satisfies the invariant of the stores,   *)
(* for any number of requests, cycles and stores.                          *)
THEOREM StoresStayKept == Spec => []StoresInv
<1>1. Init => StoresInv
  BY InitStoresInv
<1>2. StoresInv /\ [Next]_vars => StoresInv'
  BY StepStoresInv
<1> QED
  BY <1>1, <1>2, PTL DEF Spec

(* While nobody crosses another, every open connection is the cached one   *)
(* or in the hands of who uses or closes it (_close_target_stores).        *)
THEOREM ConnectionsStayKnown == Spec => []NoConnectionLost
<1>1. StoresInv => NoConnectionLost
  BY DEF StoresInv, Kept, NoConnectionLost, Lost
<1> QED
  BY <1>1, StoresStayKept, PTL

(* While nobody crosses another, whoever is about to read or write has an  *)
(* open connection (_get_target_store).                                    *)
THEOREM ReadsStayTrue == Spec => []ReadsAreTrue
<1>1. StoresInv => ReadsAreTrue
  BY NoStoreAssumption
  DEF StoresInv, StoresTypeOK, Kept, UsesCached, HasNone, ReadsAreTrue
<1> QED
  BY <1>1, StoresStayKept, PTL
=============================================================================
