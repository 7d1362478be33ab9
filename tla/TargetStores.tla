---------------------------- MODULE TargetStores ----------------------------
(***************************************************************************)
(* The connections of the server to the state.db of a target               *)
(* (core/target_store_utils.py, core/store/_base.py, core/api_server.py):  *)
(* the cache of opened stores, requests and cycles that hold a store over  *)
(* many awaits, and the end of a cycle, which closes what the cache holds. *)
(*                                                                         *)
(* Every await is a step; aiosqlite closes and opens in a thread of its    *)
(* own, so another coroutine runs in between.                              *)
(***************************************************************************)
EXTENDS Naturals, FiniteSets

CONSTANTS Users,    \* coroutines that use the target's store
          Stores,   \* bound: store objects at one time
          NoStore

ASSUME NoStoreAssumption == NoStore \notin Stores

VARIABLES cache,    \* the store in _target_stores
          db,       \* _db of each store: none, open, closing
          orphans,  \* is there a connection that no store names any more?
          failing,  \* the memory of a failed open, until it is over
          user,     \* what each coroutine is at, and the store it holds
          crossed   \* did a cycle close, or two coroutines open, at once?

storeVars == <<cache, db, orphans, failing, user, crossed>>

Away == [at |-> "away", store |-> NoStore]

StoresTypeOK ==
  /\ cache \in Stores \cup {NoStore}
  /\ db \in [Stores -> {"none", "open", "closing"}]
  /\ orphans \in BOOLEAN /\ failing \in BOOLEAN /\ crossed \in BOOLEAN
  /\ user \in [Users -> [at : {"away", "connect", "prepare", "read", "write",
                              "reopen", "leave", "close", "closed"},
                         store : Stores \cup {NoStore}]]

StoresInit ==
  /\ cache = NoStore
  /\ db = [s \in Stores |-> "none"]
  /\ orphans = FALSE /\ failing = FALSE /\ crossed = FALSE
  /\ user = [u \in Users |-> Away]

Holders(s) == {u \in Users : user[u].store = s}
Opening == {u \in Users : user[u].at \in {"connect", "prepare"}}
Present == {u \in Users : user[u] # Away}

Go(u, at, s) == user' = [user EXCEPT ![u] = [at |-> at, store |-> s]]
(* A coroutine that has its store uses it; without one it is done. *)
Done(u) == Go(u, "leave", NoStore)

-----------------------------------------------------------------------------
(* _get_target_store: the cached store, a new one, or none while the last  *)
(* failure is remembered. A store that nobody holds any more is gone, its  *)
(* connection is not.                                                      *)
GetCached(u) ==
  /\ ~failing /\ cache # NoStore
  /\ Go(u, "read", cache)
  /\ UNCHANGED <<db, orphans, crossed>>
OpenNew(u) ==
  /\ ~failing /\ cache = NoStore
  /\ \E s \in Stores :
       /\ Holders(s) = {}
       /\ Go(u, "connect", s)
       /\ db' = [db EXCEPT ![s] = "none"]
       /\ orphans' = (orphans \/ db[s] = "open")
  /\ crossed' = (crossed \/ Opening # {})
GetNothing(u) ==
  /\ failing
  /\ Done(u)
  /\ UNCHANGED <<db, orphans, crossed>>
Get(u) ==
  /\ GetCached(u) \/ OpenNew(u) \/ GetNothing(u)
  /\ UNCHANGED <<cache, failing>>

(* AsyncStore.initialize: the connection, then the schema and its commit. *)
Connected(s) ==
  /\ db' = [db EXCEPT ![s] = "open"]
  /\ orphans' = (orphans \/ db[s] # "none")
Connect(u) ==
  /\ user[u].at = "connect"
  /\ Connected(user[u].store)
  /\ Go(u, "prepare", user[u].store)
  /\ UNCHANGED <<cache, failing, crossed>>
Prepared(u) ==
  /\ user[u].at = "prepare"
  /\ cache' = user[u].store
  /\ Go(u, "read", user[u].store)
  /\ UNCHANGED <<db, orphans, failing, crossed>>

(* Mutant: a store that could not be opened is not closed. *)
AbandonedDb(s) == db
(* The open fails or takes too long, and what it has opened is closed. *)
ClosedDb(s) == [db EXCEPT ![s] = "none"]
OpenFails(u) ==
  /\ user[u].at \in {"connect", "prepare"}
  /\ db' = ClosedDb(user[u].store)
  /\ failing' = TRUE
  /\ Done(u)
  /\ UNCHANGED <<cache, orphans, crossed>>
FailureForgotten ==
  /\ failing
  /\ failing' = FALSE
  /\ UNCHANGED <<cache, db, orphans, user, crossed>>

(* A list of rows is empty when the store has no connection; a connection  *)
(* that is being closed raises.                                            *)
Read(u) ==
  /\ user[u].at = "read"
  /\ IF db[user[u].store] = "closing" THEN Done(u)
     ELSE Go(u, "write", user[u].store)
  /\ UNCHANGED <<cache, db, orphans, failing, crossed>>

(* A write opens the store again where it has no connection: _ensure_db. *)
Write(u) ==
  /\ user[u].at = "write"
  /\ IF db[user[u].store] = "none" THEN Go(u, "reopen", user[u].store)
     ELSE Done(u)
  /\ UNCHANGED <<cache, db, orphans, failing, crossed>>
Reopen(u) ==
  /\ user[u].at = "reopen"
  /\ \/ Connected(user[u].store) /\ Go(u, "write", user[u].store)
     \/ Done(u) /\ UNCHANGED <<db, orphans>>
  /\ UNCHANGED <<cache, failing, crossed>>

-----------------------------------------------------------------------------
(* Mutant: a store that is closed stays in the cache. *)
KeptCache == cache
(* _close_target_stores: the cache is emptied, and what it held is closed. *)
EmptiedCache == NoStore
CloseStores(u) ==
  /\ user[u].at = "leave"
  /\ cache' = EmptiedCache
  /\ IF cache = NoStore THEN user' = [user EXCEPT ![u] = Away]
     ELSE Go(u, "close", cache)
  /\ crossed' = (crossed \/ Present # {u})
  /\ UNCHANGED <<db, orphans, failing>>
Close(u) ==
  LET s == user[u].store IN
  /\ user[u].at = "close"
  /\ IF db[s] = "open"
     THEN db' = [db EXCEPT ![s] = "closing"] /\ Go(u, "closed", s)
     ELSE user' = [user EXCEPT ![u] = Away] /\ UNCHANGED db
  /\ UNCHANGED <<cache, orphans, failing, crossed>>
Closed(u) ==
  /\ user[u].at = "closed"
  /\ db' = [db EXCEPT ![user[u].store] = "none"]
  /\ user' = [user EXCEPT ![u] = Away]
  /\ UNCHANGED <<cache, orphans, failing, crossed>>
(* A request closes nothing. *)
Leave(u) ==
  /\ user[u].at = "leave"
  /\ user' = [user EXCEPT ![u] = Away]
  /\ UNCHANGED <<cache, db, orphans, failing, crossed>>

(* The process goes down with everything it has in memory. *)
ProcessEnds ==
  /\ cache' = NoStore
  /\ db' = [s \in Stores |-> "none"]
  /\ orphans' = FALSE /\ failing' = FALSE /\ crossed' = FALSE
  /\ user' = [u \in Users |-> Away]

(* What a coroutine that holds a store does. *)
Use(u) ==
  \/ Connect(u) \/ Prepared(u) \/ OpenFails(u)
  \/ Read(u) \/ Write(u) \/ Reopen(u)

-----------------------------------------------------------------------------
Lost == {s \in Stores : db[s] = "open" /\ s # cache /\ Holders(s) = {}}

(* Every open connection is the cached one, or in the hands of who uses it *)
(* or closes it, as long as no cycle ends, and no coroutine opens a store, *)
(* while another is at work.                                               *)
NoConnectionLost == ~crossed => Lost = {} /\ ~orphans

(* No list is empty for want of a connection, and no statement meets one   *)
(* that is being closed, as long as that does not happen.                  *)
ReadsAreTrue ==
  ~crossed => \A u \in Users : user[u].at \in {"read", "write"}
                                 => db[user[u].store] = "open"
=============================================================================
