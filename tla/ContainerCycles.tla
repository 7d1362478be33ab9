-------------------------- MODULE ContainerCycles --------------------------
(***************************************************************************)
(* The scheduled invocations and the stores of the server together: the    *)
(* cycle that an invocation starts in the container is a coroutine of the  *)
(* server, beside the requests, and ends by closing every cached store     *)
(* (core/api_server.py).                                                   *)
(***************************************************************************)
EXTENDS ScheduledTasks, TargetStores

CONSTANT Requests   \* bound: requests at one time

ASSUME UsersAssumption == Users = Runs \cup Requests

vars == <<taskVars, storeVars>>

TypeOK == TasksTypeOK /\ StoresTypeOK
Init == TasksInit /\ StoresInit

(* A cycle is at work until the stores are closed. *)
StillGoing(r) == going' = IF user'[r] = Away THEN going \ {r} ELSE going

(* The collection opens stores of its own and closes them; of the cached   *)
(* ones it only uses the end.                                              *)
StartCycle(r) ==
  /\ user[r] = Away
  /\ Call(r)
  /\ IF run[r].task = "translate" THEN Get(r)
     ELSE Done(r) /\ UNCHANGED <<cache, db, orphans, failing, crossed>>

CycleWorks(r) ==
  /\ r \in going
  /\ Use(r) \/ CloseStores(r) \/ Close(r) \/ Closed(r)
  /\ StillGoing(r)
  /\ UNCHANGED <<lock, run, cursor, slipped, troubles>>

Request(q) ==
  /\ (user[q] = Away /\ Get(q)) \/ Use(q) \/ Leave(q)
  /\ UNCHANGED taskVars

ContainerEnds == CyclesEnd /\ ProcessEnds

Next ==
  \/ \E r \in Runs : Work(r) /\ UNCHANGED storeVars
  \/ \E l \in Locks : RunsOut(l) /\ UNCHANGED storeVars
  \/ \E r \in Runs : StartCycle(r) \/ CycleWorks(r)
  \/ \E q \in Requests : Request(q)
  \/ FailureForgotten /\ UNCHANGED taskVars
  \/ ContainerEnds

Spec == Init /\ [][Next]_vars
=============================================================================
