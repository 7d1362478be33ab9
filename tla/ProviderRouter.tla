--------------------------- MODULE ProviderRouter ---------------------------
(***************************************************************************)
(* Routing of AI calls (src/news_sentry/core/provider_router.py): one      *)
(* ProviderRouter is shared by the calls of route_async that a batch runs  *)
(* side by side.  They share the spent cost, the rotation cursor of every  *)
(* route and the models that cool down, and read and write them between    *)
(* the awaits of the provider calls.  The synchronous route() takes the    *)
(* same steps for a single caller.                                         *)
(***************************************************************************)
EXTENDS SequencesExt, Subsequences

CONSTANTS Callers,
          Routes,
          NoRoute,
          Providers,
          Limiting,        \* providers that answer with rate or credit errors
          Missing,         \* providers the factory returns None for
          Models,
          ProviderOf(_),
          PoolOf(_),       \* model and model_pool of a route, without repetition
          FallbacksOf(_),  \* fallback_route_ids, ids unknown to the index included
          GlobalFallback,  \* fallback_route_id
          CostOf(_),       \* max_cost_usd_per_call
          Budget,          \* cost_budget, 0 for none
          MaxCalls         \* bound: calls of route_async

ASSUME RouterAssumption ==
  /\ NoRoute \notin Routes
  /\ Budget \in Nat /\ MaxCalls \in Nat
  /\ \A r \in Routes : /\ ProviderOf(r) \in Providers
                       /\ PoolOf(r) \in Seq(Models) /\ PoolOf(r) # <<>>
                       /\ IsInjective(PoolOf(r))
                       /\ CostOf(r) \in Nat
                       /\ DOMAIN FallbacksOf(r) \subseteq Nat

(* There are finitely many routes in a configuration, and finitely many    *)
(* tasks in a batch.                                                       *)
ASSUME ConfigurationAssumption ==
  /\ IsFiniteSet(Callers) /\ IsFiniteSet(Routes) /\ Routes # {}

VARIABLES caller,   \* what each running call knows
          cursor,   \* _model_cursor
          cooling,  \* the (provider, model) pairs with a cooldown in the future
          spent,    \* total of the cost tracker
          calls,    \* calls made
          limited   \* the pairs that have ever been put on cooldown

vars == <<caller, cursor, cooling, spent, calls, limited>>

Pairs == Providers \X Models
Answers == {"none", "content", "failed", "over budget"}

TypeOK ==
  /\ caller \in [Callers ->
       [pc : {"idle", "route", "call"}, start : Routes \cup {NoRoute},
        route : Routes \cup {NoRoute}, left : Seq(Models), fallback : BOOLEAN,
        tried : SUBSET (Routes \X Models), answer : Answers]]
  /\ \A c \in Callers : (caller[c].pc = "call") => (caller[c].left # <<>>)
  /\ cursor \in [Routes -> Nat]
  /\ \A r \in Routes : cursor[r] < Len(PoolOf(r))
  /\ cooling \in SUBSET Pairs /\ cooling \subseteq limited
  /\ spent \in Nat /\ calls \in 0 .. MaxCalls

Init ==
  /\ caller = [c \in Callers |->
       [pc |-> "idle", start |-> NoRoute, route |-> NoRoute, left |-> <<>>,
        fallback |-> FALSE, tried |-> {}, answer |-> "none"]]
  /\ cursor = [r \in Routes |-> 0]
  /\ cooling = {}
  /\ spent = 0
  /\ calls = 0
  /\ limited = {}

-----------------------------------------------------------------------------
(* get_fallback_route: the first listed id that exists, else the global    *)
(* fallback unless it is the route itself.                                 *)
GetFallbackRoute(r) ==
  LET known == {i \in DOMAIN FallbacksOf(r) : FallbacksOf(r)[i] \in Routes}
      first == CHOOSE i \in known : \A j \in known : i <= j
  IN  IF known # {} THEN FallbacksOf(r)[first]
      ELSE IF GlobalFallback \in Routes \ {r} THEN GlobalFallback
      ELSE NoRoute

NeverOverBudget == FALSE   \* Mutant: the budget is not checked.
IsOverBudget == Budget > 0 /\ spent > Budget

(* _model_candidates: the models that do not cool down, or all of them     *)
(* when all do, beginning with the one under the cursor.                   *)
Active(r) == Only(PoolOf(r), {m \in Models : <<ProviderOf(r), m>> \notin cooling})
Candidates(r) == IF Active(r) # <<>> THEN Active(r) ELSE PoolOf(r)
Turn(r) == cursor[r] % Len(Candidates(r))
Rotated(r) == SubSeq(Candidates(r), Turn(r) + 1, Len(Candidates(r)))
                \o SubSeq(Candidates(r), 1, Turn(r))

Advanced(r) == (Turn(r) + 1) % Len(Candidates(r))

-----------------------------------------------------------------------------
(* The call resolves its route (a preferred id or the first of the task    *)
(* type) and is turned away when the budget is spent.                      *)
Begin(c) ==
  /\ caller[c].pc = "idle"
  /\ calls < MaxCalls
  /\ calls' = calls + 1
  /\ \E r \in Routes :
       caller' = [caller EXCEPT ![c] =
         [pc |-> IF IsOverBudget THEN "idle" ELSE "route",
          start |-> r, route |-> r, left |-> <<>>, fallback |-> FALSE, tried |-> {},
          answer |-> IF IsOverBudget THEN "over budget" ELSE "none"]]
  /\ UNCHANGED <<cursor, cooling, spent, limited>>

(* No provider for the route: on to its fallback.  The loop does not await *)
(* here; the step touches nothing the calls share.                         *)
SkipRoute(c) ==
  LET r == caller[c].route IN
  /\ caller[c].pc = "route" /\ r # NoRoute
  /\ ProviderOf(r) \in Missing
  /\ caller' = [caller EXCEPT ![c].route = GetFallbackRoute(r),
                              ![c].fallback = TRUE]
  /\ UNCHANGED <<cursor, cooling, spent, calls, limited>>

EnterRoute(c) ==
  LET r == caller[c].route IN
  /\ caller[c].pc = "route" /\ r # NoRoute
  /\ ProviderOf(r) \notin Missing
  /\ caller' = [caller EXCEPT ![c].pc = "call", ![c].left = Rotated(r)]
  /\ cursor' = [cursor EXCEPT ![r] = Advanced(r)]
  /\ UNCHANGED <<cooling, spent, calls, limited>>

(* The provider answers with a text that passes validation. *)
Answered(c) ==
  LET r == caller[c].route IN
  /\ caller[c].pc = "call"
  /\ spent' = spent + CostOf(r)
  /\ caller' = [caller EXCEPT ![c].pc = "idle", ![c].left = <<>>,
                              ![c].answer = "content"]
  /\ UNCHANGED <<cursor, cooling, calls, limited>>

AfterFirstFailure(call, r) ==   \* Mutant: one failure ends the route.
  [call EXCEPT !.tried = @ \cup {<<r, Head(call.left)>>}, !.left = <<>>,
               !.pc = "route", !.route = GetFallbackRoute(r), !.fallback = TRUE]

RetrySameModel(call, r) ==      \* Mutant: a model is tried until it answers.
  [call EXCEPT !.tried = @ \cup {<<r, Head(call.left)>>}]

(* The next model of the route, or after the last one the fallback route.  *)
AfterFailure(call, r) ==
  LET failed == [call EXCEPT !.tried = @ \cup {<<r, Head(call.left)>>},
                             !.left = Tail(@)]
  IN  IF Len(call.left) > 1 THEN failed
      ELSE [failed EXCEPT !.pc = "route", !.route = GetFallbackRoute(r),
                          !.fallback = TRUE]

(* The call raises, or its text is empty; a rate or credit error puts the  *)
(* model on cooldown.                                                      *)
Failed(c) ==
  LET r == caller[c].route
      pair == <<ProviderOf(r), Head(caller[c].left)>>
  IN
  /\ caller[c].pc = "call"
  /\ \E rateOrCredit \in BOOLEAN :
       /\ rateOrCredit => ProviderOf(r) \in Limiting
       /\ cooling' = IF rateOrCredit THEN cooling \cup {pair} ELSE cooling
       /\ limited' = IF rateOrCredit THEN limited \cup {pair} ELSE limited
  /\ caller' = [caller EXCEPT ![c] = AfterFailure(@, r)]
  /\ UNCHANGED <<cursor, spent, calls>>

GiveUp(c) ==
  /\ caller[c].pc = "route" /\ caller[c].route = NoRoute
  /\ caller' = [caller EXCEPT ![c].pc = "idle", ![c].answer = "failed",
                              ![c].fallback = TRUE]
  /\ UNCHANGED <<cursor, cooling, spent, calls, limited>>

(* Thirty minutes pass. *)
CooldownEnds ==
  /\ \E pair \in cooling : cooling' = cooling \ {pair}
  /\ UNCHANGED <<caller, cursor, spent, calls, limited>>

CallStep(c) == SkipRoute(c) \/ EnterRoute(c) \/ Answered(c) \/ Failed(c) \/ GiveUp(c)

Next == CooldownEnds \/ \E c \in Callers : Begin(c) \/ CallStep(c)

Spec == Init /\ [][Next]_vars

(* A provider call ends, with an answer, an error or its timeout. *)
FairSpec == Spec /\ \A c \in Callers : WF_vars(CallStep(c))

-----------------------------------------------------------------------------
Running(c) == caller[c].pc # "idle"
MaxCost == CHOOSE n \in {CostOf(r) : r \in Routes} : \A r \in Routes : CostOf(r) <= n

(* The budget is read when a call begins and spent when it ends: what has  *)
(* been spent and what the running calls may still spend stay within one   *)
(* call per caller of the budget, fallbacks and failures included.         *)
SpendBound ==
  Budget > 0 => spent + Cardinality({c \in Callers : Running(c)}) * MaxCost
                  <= Budget + Cardinality(Callers) * MaxCost

(* The routes a call that begins at r comes to, if none answers: those in  *)
(* every set that has r and where each of its routes hands a call on to.   *)
LeadsOn(S) == \A q \in S : GetFallbackRoute(q) \in S \cup {NoRoute}
Chain(r) ==
  {q \in Routes : \A S \in SUBSET Routes : r \in S /\ LeadsOn(S) => q \in S}

(* A call that answers with an error has tried every model of every route  *)
(* of its fallback chain, whatever the other calls did to the cursors, but *)
(* for those that some call had to put on cooldown.                        *)
FailsOnlyAfterChain ==
  \A c \in Callers : caller[c].answer = "failed" =>
    \A r \in Chain(caller[c].start) : ProviderOf(r) \notin Missing =>
      \A m \in Range(PoolOf(r)) :
        <<r, m>> \in caller[c].tried \/ <<ProviderOf(r), m>> \in limited

(* Every call comes back, whatever providers fail. *)
CallsReturn == \A c \in Callers : Running(c) ~> ~Running(c)
=============================================================================
