------------------------------ MODULE EventBus ------------------------------
(***************************************************************************)
(* The in-process event bus (src/news_sentry/core/event_bus.py): publish   *)
(* puts a message into the bounded queue of every matching subscriber, a   *)
(* consumer task per subscriber takes it out and awaits the callback, and  *)
(* one asyncio lock guards the table of subscribers.  A step runs from one *)
(* await to the next, except that the puts of one publish, which do not    *)
(* yield while there is room, are taken one by one under the lock.         *)
(*                                                                         *)
(* A message is the number of its publish in the order in which publishers *)
(* got the lock, log remembers to whom each is addressed.                  *)
(***************************************************************************)
EXTENDS SequencesExt, Subsequences

CONSTANTS Publishers,
          Subscribers,   \* subscriptions, each made once
          Matches(_, _), \* does the topic of a publisher match a pattern?
          Nobody,
          QueueSize,     \* _MAX_QUEUE_SIZE
          MaxMessages    \* bound: calls of publish

ASSUME QueueSizeAssumption == QueueSize \in Nat \ {0}
ASSUME NobodyAssumption == Nobody \notin Publishers \cup Subscribers
ASSUME PublishersAssumption == IsFiniteSet(Publishers) /\ MaxMessages \in Nat

VARIABLES holder,      \* task that holds the lock
          waiters,     \* tasks queued for it, first come first served
          subscribers, \* _subscribers, in the order of insertion
          publisher,   \* per publisher, what its publish has still to do
          consumer,    \* per subscription, where its _consumer task is
          closing,     \* per subscription, where its unsubscribe is
          queue,       \* the queue of each subscription
          handled,     \* messages whose callback has been awaited
          log          \* the subscribers each message was addressed to

busVars == <<holder, waiters, subscribers, publisher, consumer, closing, queue,
          handled, log>>

(* The tasks that ask for the lock: a publisher, and of a subscription its *)
(* subscribe, its consumer and its unsubscribe.                            *)
Tasks == ({"publish"} \X Publishers)
           \cup ({"subscribe", "consume", "close"} \X Subscribers)
None == <<"none", Nobody>>
Messages == 1 .. MaxMessages

BusTypeOK ==
  /\ holder \in Tasks \cup {None}
  /\ waiters \in Seq(Tasks) /\ IsInjective(waiters)
  /\ subscribers \in Seq(Subscribers) /\ IsInjective(subscribers)
  /\ publisher \in [Publishers -> [pc : {"idle", "lock", "put"},
                                   message : Messages \cup {0},
                                   rest : Seq(Subscribers)]]
  /\ consumer \in [Subscribers -> [pc : {"absent", "subscribing", "lock", "get",
                                         "callback", "done"},
                                   message : Messages \cup {0}]]
  /\ closing \in [Subscribers -> {"no", "lock", "cancel", "done"}]
  /\ queue \in [Subscribers -> Seq(Messages)]
  /\ \A s \in Subscribers : Len(queue[s]) <= QueueSize
  /\ handled \in [Subscribers -> Seq(Messages)]
  /\ log \in Seq(SUBSET Subscribers)

BusInit ==
  /\ holder = None
  /\ waiters = <<>>
  /\ subscribers = <<>>
  /\ publisher = [p \in Publishers |-> [pc |-> "idle", message |-> 0, rest |-> <<>>]]
  /\ consumer = [s \in Subscribers |-> [pc |-> "absent", message |-> 0]]
  /\ closing = [s \in Subscribers |-> "no"]
  /\ queue = [s \in Subscribers |-> <<>>]
  /\ handled = [s \in Subscribers |-> <<>>]
  /\ log = <<>>

-----------------------------------------------------------------------------
(* asyncio.Lock: taken at once when it is free and nobody waits.           *)
Ask(task) ==
  /\ waiters' = Append(waiters, task)
  /\ UNCHANGED holder

Granted(task) == holder = None /\ waiters # <<>> /\ Head(waiters) = task

Take(task) ==
  /\ Granted(task)
  /\ holder' = task
  /\ waiters' = Tail(waiters)

(* The lock is taken and given back in one step without an await between. *)
Pass(task) ==
  /\ Granted(task)
  /\ waiters' = Tail(waiters)
  /\ UNCHANGED holder

-----------------------------------------------------------------------------
(* subscribe: entered in the table and its consumer task started. *)
CallSubscribe(s) ==
  /\ consumer[s].pc = "absent"
  /\ consumer' = [consumer EXCEPT ![s].pc = "subscribing"]
  /\ Ask(<<"subscribe", s>>)
  /\ UNCHANGED <<subscribers, publisher, closing, queue, handled, log>>

AddSubscriber(s) ==
  /\ consumer[s].pc = "subscribing"
  /\ Granted(<<"subscribe", s>>)
  /\ waiters' = Append(Tail(waiters), <<"consume", s>>)
  /\ subscribers' = Append(subscribers, s)
  /\ consumer' = [consumer EXCEPT ![s].pc = "lock"]
  /\ UNCHANGED <<holder, publisher, closing, queue, handled, log>>

(* publish *)
CallPublish(p) ==
  /\ publisher[p].pc = "idle"
  /\ Len(log) + Cardinality({q \in Publishers : publisher[q].pc = "lock"})
       < MaxMessages
  /\ publisher' = [publisher EXCEPT ![p].pc = "lock"]
  /\ Ask(<<"publish", p>>)
  /\ UNCHANGED <<subscribers, consumer, closing, queue, handled, log>>

EnterPublish(p) ==
  /\ publisher[p].pc = "lock"
  /\ Take(<<"publish", p>>)
  /\ LET matching == Only(subscribers, {s \in Subscribers : Matches(p, s)}) IN
     /\ log' = Append(log, Range(matching))
     /\ publisher' = [publisher EXCEPT ![p] = [pc |-> "put",
                                               message |-> Len(log) + 1,
                                               rest |-> matching]]
  /\ UNCHANGED <<subscribers, consumer, closing, queue, handled>>

(* Mutant: a message is dropped when the queue is full. *)
PutOrDrop(p) ==
  LET s == Head(publisher[p].rest) IN
  /\ publisher[p].pc = "put"
  /\ publisher[p].rest # <<>>
  /\ queue' = IF Len(queue[s]) < QueueSize
              THEN [queue EXCEPT ![s] = Append(@, publisher[p].message)]
              ELSE queue
  /\ publisher' = [publisher EXCEPT ![p].rest = Tail(@)]
  /\ UNCHANGED <<holder, waiters, subscribers, consumer, closing, handled, log>>

(* The next matching queue; when it is full the publisher waits in put(),  *)
(* with the lock.                                                          *)
Put(p) ==
  LET s == Head(publisher[p].rest) IN
  /\ publisher[p].pc = "put"
  /\ publisher[p].rest # <<>>
  /\ Len(queue[s]) < QueueSize
  /\ queue' = [queue EXCEPT ![s] = Append(@, publisher[p].message)]
  /\ publisher' = [publisher EXCEPT ![p].rest = Tail(@)]
  /\ UNCHANGED <<holder, waiters, subscribers, consumer, closing, handled, log>>

(* Mutant: the lock is given back only by a publish that reached somebody. *)
LeaveIfReached(p) ==
  /\ publisher[p].pc = "put"
  /\ publisher[p].rest = <<>>
  /\ holder' = IF log[publisher[p].message] = {} THEN holder ELSE None
  /\ publisher' = [publisher EXCEPT ![p] = [pc |-> "idle", message |-> 0,
                                            rest |-> <<>>]]
  /\ UNCHANGED <<waiters, subscribers, consumer, closing, queue, handled, log>>

LeavePublish(p) ==
  /\ publisher[p].pc = "put"
  /\ publisher[p].rest = <<>>
  /\ holder' = None
  /\ publisher' = [publisher EXCEPT ![p] = [pc |-> "idle", message |-> 0,
                                            rest |-> <<>>]]
  /\ UNCHANGED <<waiters, subscribers, consumer, closing, queue, handled, log>>

-----------------------------------------------------------------------------
(* _consumer: looks itself up under the lock, waits for a message, awaits  *)
(* the callback, and starts over.  A callback that raises changes nothing. *)
LookUp(s) ==
  /\ consumer[s].pc = "lock"
  /\ Pass(<<"consume", s>>)
  /\ consumer' = [consumer EXCEPT ![s].pc = IF s \in Range(subscribers)
                                            THEN "get" ELSE "done"]
  /\ UNCHANGED <<subscribers, publisher, closing, queue, handled, log>>

Get(s) ==
  /\ consumer[s].pc = "get"
  /\ queue[s] # <<>>
  /\ queue' = [queue EXCEPT ![s] = Tail(@)]
  /\ consumer' = [consumer EXCEPT ![s] = [pc |-> "callback",
                                          message |-> Head(queue[s])]]
  /\ UNCHANGED <<holder, waiters, subscribers, publisher, closing, handled, log>>

CallbackReturns(s) ==
  /\ consumer[s].pc = "callback"
  /\ handled' = [handled EXCEPT ![s] = Append(@, consumer[s].message)]
  /\ consumer' = [consumer EXCEPT ![s] = [pc |-> "lock", message |-> 0]]
  /\ Ask(<<"consume", s>>)
  /\ UNCHANGED <<subscribers, publisher, closing, queue, log>>

-----------------------------------------------------------------------------
(* unsubscribe: out of the table, then the consumer is cancelled wherever  *)
(* it is, and awaited.                                                     *)
CallUnsubscribe(s) ==
  /\ consumer[s].pc \notin {"absent", "subscribing"}
  /\ closing[s] = "no"
  /\ closing' = [closing EXCEPT ![s] = "lock"]
  /\ Ask(<<"close", s>>)
  /\ UNCHANGED <<subscribers, publisher, consumer, queue, handled, log>>

RemoveSubscriber(s) ==
  /\ closing[s] = "lock"
  /\ Pass(<<"close", s>>)
  /\ subscribers' = Only(subscribers, Subscribers \ {s})
  /\ closing' = [closing EXCEPT ![s] = "cancel"]
  /\ UNCHANGED <<publisher, consumer, queue, handled, log>>

(* Mutant: the cancelled task is not awaited and runs on. *)
ForgetConsumer(s) ==
  /\ closing[s] = "cancel"
  /\ closing' = [closing EXCEPT ![s] = "done"]
  /\ UNCHANGED <<holder, waiters, subscribers, publisher, consumer, queue,
                 handled, log>>

CancelConsumer(s) ==
  /\ closing[s] = "cancel"
  /\ closing' = [closing EXCEPT ![s] = "done"]
  /\ consumer' = [consumer EXCEPT ![s] = [pc |-> "done", message |-> 0]]
  /\ waiters' = Only(waiters, Tasks \ {<<"consume", s>>})
  /\ UNCHANGED <<holder, subscribers, publisher, queue, handled, log>>

PublisherStep(p) == EnterPublish(p) \/ Put(p) \/ LeavePublish(p)
ConsumerStep(s) == AddSubscriber(s) \/ LookUp(s) \/ Get(s) \/ CallbackReturns(s)
CloseStep(s) == RemoveSubscriber(s) \/ CancelConsumer(s)

BusNext ==
  \/ \E p \in Publishers : CallPublish(p) \/ PublisherStep(p)
  \/ \E s \in Subscribers : \/ CallSubscribe(s) \/ ConsumerStep(s)
                            \/ CallUnsubscribe(s) \/ CloseStep(s)

BusSpec == BusInit /\ [][BusNext]_busVars

(* The event loop runs every task that can run; callbacks return. *)
BusFairSpec ==
  /\ BusSpec
  /\ \A p \in Publishers : WF_busVars(PublisherStep(p))
  /\ \A s \in Subscribers : WF_busVars(ConsumerStep(s)) /\ WF_busVars(CloseStep(s))

-----------------------------------------------------------------------------
(* What a subscription has received, in order: handled, in the callback,   *)
(* in the queue.  A message counts as sent to it once put.                 *)
Current(s) == IF consumer[s].pc = "callback" THEN <<consumer[s].message>> ELSE <<>>
Received(s) == handled[s] \o Current(s) \o queue[s]

Numbers(n) == [m \in 1 .. n |-> m]
AddressedTo(s) == Only(Numbers(Len(log)), {m \in DOMAIN log : s \in log[m]})

(* Every subscriber gets exactly the messages published while it was       *)
(* subscribed, each once and in the order of the publishes, whatever       *)
(* publishers overlap and however often its queue fills up: all but those  *)
(* that the publisher in the lock has still to put.                        *)
InPublishOrder ==
  \A s \in Subscribers :
    (closing[s] # "done") =>
      LET missing == {p \in Publishers : s \in Range(publisher[p].rest)}
      IN  AddressedTo(s) = Received(s) \o
            (IF missing = {} THEN <<>>
             ELSE <<publisher[CHOOSE p \in missing : TRUE].message>>)

(* Once unsubscribe has returned, no callback of the subscription runs and *)
(* none will: its consumer is gone and nothing waits in its name.          *)
UnsubscribedIsQuiet ==
  \A s \in Subscribers :
    closing[s] = "done" =>
      /\ consumer[s].pc = "done"
      /\ s \notin Range(subscribers)
      /\ <<"consume", s>> \notin Range(waiters) \cup {holder}

(* A publisher that waits, with the lock, for room in a full queue. *)
Blocked(p) ==
  /\ publisher[p].pc = "put"
  /\ publisher[p].rest # <<>>
  /\ Len(queue[Head(publisher[p].rest)]) = QueueSize

(* Unless a publisher meets a full queue the lock always comes around and  *)
(* a publish ends, whatever the other tasks do.  A full queue blocks its   *)
(* publisher for ever when its consumer is not already waiting in get.     *)
PublishEnds ==
  \A p \in Publishers :
    publisher[p].pc # "idle"
      ~> publisher[p].pc = "idle" \/ \E q \in Publishers : Blocked(q)

=============================================================================
