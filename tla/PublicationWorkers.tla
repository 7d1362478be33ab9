------------------------- MODULE PublicationWorkers -------------------------
(***************************************************************************)
(* The workers that make an indexed event fit for the public site, in the  *)
(* event loop of the server: the translation (core/public_translation.py)  *)
(* and the AI enrichment (core/ai_enrichment.py), started by their loops,  *)
(* by hand, or by the container's cycle (core/collector_config_utils.py,   *)
(* core/api_server.py), over the rows of one target's event_index and the  *)
(* tables ai_enrichment_events and ai_enrichment_usage of a day.           *)
(*                                                                         *)
(* Every await lets another run in, also the one between the SELECT and    *)
(* the UPDATE of update_event_metadata.                                    *)
(***************************************************************************)
EXTENDS Integers, FiniteSets

CONSTANTS N,               \* events 1 .. N, in the order of the candidates
          Translators,     \* runs of the translation that can go on at once
          Enrichers,       \* runs of the enrichment that can go on at once
          CandidateLimit,  \* candidate_limit
          PerCycleLimit,   \* per_cycle_limit of the translation
          DailyLimit,      \* daily_request_limit of the enrichment
          RequestLimit,    \* its per_cycle_request_limit
          MaxFaults        \* bound: restarts of the server

ASSUME SizeAssumption ==
  /\ N \in Nat /\ CandidateLimit \in Nat \ {0} /\ PerCycleLimit \in Nat \ {0}
  /\ DailyLimit \in Nat \ {0} /\ RequestLimit \in Nat \ {0}
  /\ MaxFaults \in Nat
(* The server always has its loop of the enrichment. *)
ASSUME EnrichersAssumption == IsFiniteSet(Enrichers) /\ Enrichers # {}

Events == 1 .. N
Titles == {"none", "good", "bad"}

VARIABLES meta,        \* metadata of the row of each event
          cooling,     \* events whose retry delay has not passed
          old,         \* events past max_event_age_hours
          usage,       \* request_count of the day
          cooldown,    \* is cooldown_until ahead?
          translating, \* run of each translator
          enriching,   \* run of each enricher
          sent,        \* requests the enrichment has sent
          uncounted,   \* those of them whose run died before it counted them
          mixed,       \* was another run going on when the last one began?
          faults

rows == <<meta, cooling, old>>
budget == <<usage, cooldown, sent, uncounted>>
vars == <<rows, budget, translating, enriching, mixed, faults>>

(* translation.title_pre, whether the summary and the publication fields   *)
(* are there, and whether the enrichment has left its review.              *)
Metadata == [title : Titles, publication : BOOLEAN, reviewed : BOOLEAN]
Fresh == [title |-> "none", publication |-> FALSE, reviewed |-> FALSE]

Idle == [at |-> "idle"]
Translations ==
  [at : {"ask", "failed", "quota", "read", "write"}, todo : SUBSET Events,
   seen : Metadata]
Enrichments ==
  [at : {"request", "limited", "read", "write", "count"},
   todo : SUBSET Events, out : SUBSET Events, requests : Nat,
   copy : [Events -> Metadata], seen : Metadata]

TypeOK ==
  /\ meta \in [Events -> Metadata]
  /\ cooling \in SUBSET Events /\ old \in SUBSET Events
  /\ usage \in Nat /\ cooldown \in BOOLEAN
  /\ translating \in [Translators -> Translations \cup {Idle}]
  /\ enriching \in [Enrichers -> Enrichments \cup {Idle}]
  /\ sent \in Nat /\ uncounted \in Int
  /\ mixed \in BOOLEAN
  /\ faults \in 0 .. MaxFaults

Init ==
  /\ meta = [e \in Events |-> Fresh]
  /\ cooling = {} /\ old = {}
  /\ usage = 0 /\ cooldown = FALSE /\ sent = 0 /\ uncounted = 0
  /\ translating = [t \in Translators |-> Idle]
  /\ enriching = [a \in Enrichers |-> Idle]
  /\ mixed = FALSE /\ faults = 0

IsFirst(e, S) == e \in S /\ \A f \in S : e <= f
(* The first n events of S. *)
FirstOf(S, n) == {e \in S : Cardinality({f \in S : f < e}) < n}

(* public_publication_ready: public_translation_ready of the row. *)
ReadyMeta(m) == m.title = "good" /\ m.publication
Ready == {e \in Events : ReadyMeta(meta[e])}

-----------------------------------------------------------------------------
(* list_public_translation_candidates *)
Candidates == FirstOf(Events \ Ready, CandidateLimit)

(* Mutant: the rows of a cycle are chosen before the due ones among them. *)
DueOfFirst == FirstOf(Candidates, PerCycleLimit) \ (cooling \cup old)
(* Mutant: a row is due whatever became of its last attempt. *)
DueAgain == FirstOf(Candidates \ old, PerCycleLimit)
(* row_is_due, and the rows of one cycle. *)
DueRows == FirstOf(Candidates \ (cooling \cup old), PerCycleLimit)

Busy(w) == w # Idle
(* What a run that begins finds: is another one going on? *)
Mixed == \/ \E t \in Translators : Busy(translating[t])
         \/ \E a \in Enrichers : Busy(enriching[a])

BeginTranslation(t) ==
  /\ ~Busy(translating[t]) /\ DueRows # {}
  /\ translating' = [translating EXCEPT ![t] =
                       [at |-> "ask", todo |-> DueRows, seen |-> Fresh]]
  /\ mixed' = Mixed
  /\ UNCHANGED <<rows, budget, enriching, faults>>

(* A translation is at one of its awaits, with the row it is about. *)
Doing(t, at, e) ==
  /\ Busy(translating[t]) /\ translating[t].at = at
  /\ IsFirst(e, translating[t].todo)
Now(t, at) == translating' = [translating EXCEPT ![t].at = at]
(* On to the next row of the cycle. *)
NextRow(t, e) ==
  LET rest == translating[t].todo \ {e} IN
  translating' = [translating EXCEPT ![t] =
    IF rest = {} THEN Idle ELSE [at |-> "ask", todo |-> rest, seen |-> Fresh]]

(* Title, summary and publication fields are asked for; an answer that is  *)
(* missing, of low quality or refused for want of credit is a failure.     *)
Translated(t, e) ==
  /\ Doing(t, "ask", e) /\ Now(t, "read")
  /\ UNCHANGED <<rows, budget, enriching, mixed, faults>>
NotTranslated(t, e) ==
  /\ Doing(t, "ask", e)
  /\ \E at \in {"failed", "quota"} : Now(t, at)
  /\ UNCHANGED <<rows, budget, enriching, mixed, faults>>

(* _record_retry; a provider without credit ends the cycle. *)
RecordRetry(t, e) ==
  /\ \/ Doing(t, "failed", e) /\ NextRow(t, e)
     \/ Doing(t, "quota", e) /\ translating' = [translating EXCEPT ![t] = Idle]
  /\ cooling' = cooling \cup {e}
  /\ UNCHANGED <<meta, old, budget, enriching, mixed, faults>>

(* update_event_metadata: its SELECT, and its UPDATE with what was merged, *)
(* after which record_ai_enrichment_event starts the delay anew.           *)
ReadTranslated(t, e) ==
  /\ Doing(t, "read", e)
  /\ translating' = [translating EXCEPT ![t].at = "write", ![t].seen = meta[e]]
  /\ UNCHANGED <<rows, budget, enriching, mixed, faults>>
WriteTranslated(t, e) ==
  /\ Doing(t, "write", e)
  /\ meta' = [meta EXCEPT ![e] = [translating[t].seen EXCEPT
                                    !.title = "good", !.publication = TRUE]]
  /\ cooling' = cooling \cup {e}
  /\ NextRow(t, e)
  /\ UNCHANGED <<old, budget, enriching, mixed, faults>>

-----------------------------------------------------------------------------
(* Mutant: a row without a review gets a title too, whether or not it has  *)
(* one.                                                                    *)
RetitledMeta(m, title) ==
  [title |-> title, publication |-> m.publication, reviewed |-> TRUE]
(* apply_result, to the copy of a row: a title where one was asked for, of *)
(* whatever quality, and a review.                                         *)
EnrichedMeta(m, title) ==
  [title |-> IF m.title = "none" THEN title ELSE m.title,
   publication |-> m.publication, reviewed |-> TRUE]

(* plan_batches: rows without a title, and rows without a review. *)
Planned == {e \in Events : meta[e].title = "none" \/ ~meta[e].reviewed}

(* Mutant: a cycle sends what it may send in a cycle. *)
CycleAllowance == RequestLimit
(* The smaller of what a cycle may send and what the day has left. *)
Allowance ==
  LET left == DailyLimit - usage IN
  IF RequestLimit <= left THEN RequestLimit ELSE left

BeginEnrichment(a) ==
  /\ ~Busy(enriching[a])
  /\ ~cooldown /\ usage < DailyLimit /\ Planned # {}
  /\ LET todo == FirstOf(Planned, Allowance) IN
     enriching' = [enriching EXCEPT ![a] =
       [at |-> "request", todo |-> todo, out |-> {}, requests |-> 0,
        copy |-> [e \in Events |-> IF e \in todo THEN meta[e] ELSE Fresh],
        seen |-> Fresh]]
  /\ mixed' = Mixed
  /\ UNCHANGED <<rows, budget, translating, faults>>

At(a, at) == Busy(enriching[a]) /\ enriching[a].at = at
(* The requests are over: what they brought is applied, then counted. *)
Applying(out) == IF out = {} THEN "count" ELSE "read"

Answered(a, e, title) ==
  LET x == enriching[a]
      rest == x.todo \ {e} IN
  /\ At(a, "request") /\ IsFirst(e, x.todo)
  /\ enriching' = [enriching EXCEPT ![a] =
       [x EXCEPT !.at = IF rest = {} THEN "read" ELSE "request",
                 !.todo = rest, !.out = x.out \cup {e},
                 !.requests = x.requests + 1,
                 !.copy = [x.copy EXCEPT
                             ![e] = EnrichedMeta(x.copy[e], title)]]]
  /\ sent' = sent + 1
  /\ UNCHANGED <<rows, usage, cooldown, uncounted, translating, mixed, faults>>

(* An error ends the requests; a rate limit also drops what they brought. *)
Refused(a) ==
  LET x == enriching[a] IN
  /\ At(a, "request")
  /\ \/ enriching' = [enriching EXCEPT ![a] =
          [x EXCEPT !.at = Applying(x.out), !.todo = {},
                    !.requests = x.requests + 1]]
     \/ enriching' = [enriching EXCEPT ![a] =
          [x EXCEPT !.at = "limited", !.todo = {}, !.out = {},
                    !.requests = x.requests + 1]]
  /\ sent' = sent + 1
  /\ UNCHANGED <<rows, usage, cooldown, uncounted, translating, mixed, faults>>

(* The whole copy of the metadata is merged into the row, in two steps.    *)
ReadEnriched(a, e) ==
  LET x == enriching[a] IN
  /\ At(a, "read") /\ IsFirst(e, x.out)
  /\ enriching' = [enriching EXCEPT ![a] =
       [x EXCEPT !.at = "write", !.seen = meta[e]]]
  /\ UNCHANGED <<rows, budget, translating, mixed, faults>>

Merged(seen, patch) ==
  [title |-> IF patch.title = "none" THEN seen.title ELSE patch.title,
   publication |-> seen.publication \/ patch.publication,
   reviewed |-> seen.reviewed \/ patch.reviewed]

WriteEnriched(a, e) ==
  LET x == enriching[a] IN
  /\ At(a, "write") /\ IsFirst(e, x.out)
  /\ meta' = [meta EXCEPT ![e] = Merged(x.seen, x.copy[e])]
  /\ cooling' = cooling \cup {e}
  /\ enriching' = [enriching EXCEPT ![a] =
       [x EXCEPT !.at = Applying(x.out \ {e}), !.out = x.out \ {e},
                 !.copy = [x.copy EXCEPT ![e] = Fresh], !.seen = Fresh]]
  /\ UNCHANGED <<old, budget, translating, mixed, faults>>

Count(a) ==
  /\ At(a, "count") \/ At(a, "limited")
  /\ usage' = usage + enriching[a].requests
  /\ cooldown' = (cooldown \/ At(a, "limited"))
  /\ enriching' = [enriching EXCEPT ![a] = Idle]
  /\ UNCHANGED <<rows, sent, uncounted, translating, mixed, faults>>

-----------------------------------------------------------------------------
CooldownEnds ==
  /\ cooldown
  /\ cooldown' = FALSE
  /\ UNCHANGED <<rows, usage, sent, uncounted, translating, enriching, mixed,
                 faults>>

DelayPasses(e) ==
  /\ e \in cooling
  /\ cooling' = cooling \ {e}
  /\ UNCHANGED <<meta, old, budget, translating, enriching, mixed, faults>>

GrowsOld(e) ==
  /\ e \notin old
  /\ old' = old \cup {e}
  /\ UNCHANGED <<meta, cooling, budget, translating, enriching, mixed, faults>>

(* The server goes down: its runs are gone, and so is what they would have *)
(* counted.                                                                *)
Restart ==
  /\ faults < MaxFaults
  /\ faults' = faults + 1
  /\ uncounted' = sent - usage
  /\ translating' = [t \in Translators |-> Idle]
  /\ enriching' = [a \in Enrichers |-> Idle]
  /\ UNCHANGED <<rows, usage, cooldown, sent, mixed>>

TranslationStep(t) ==
  \E e \in Events :
    \/ Translated(t, e) \/ NotTranslated(t, e) \/ RecordRetry(t, e)
    \/ ReadTranslated(t, e) \/ WriteTranslated(t, e)
EnrichmentStep(a) ==
  \/ \E e \in Events : \/ \E title \in {"good", "bad"} : Answered(a, e, title)
                       \/ ReadEnriched(a, e) \/ WriteEnriched(a, e)
  \/ Refused(a) \/ Count(a)

Next ==
  \/ \E t \in Translators : BeginTranslation(t) \/ TranslationStep(t)
  \/ \E a \in Enrichers : BeginEnrichment(a) \/ EnrichmentStep(a)
  \/ \E e \in Events : DelayPasses(e) \/ GrowsOld(e)
  \/ CooldownEnds \/ Restart

Spec == Init /\ [][Next]_vars

(* The loop of the translation goes round for ever, delays pass, and a row *)
(* that is tried again and again is translated one time.                   *)
Fairness ==
  /\ \A t \in Translators :
       /\ WF_vars(BeginTranslation(t))
       /\ WF_vars(TranslationStep(t))
       /\ \A e \in Events : SF_vars(Translated(t, e))
  /\ \A e \in Events : WF_vars(DelayPasses(e))

FairSpec == Spec /\ Fairness

-----------------------------------------------------------------------------
(* What one worker has written into a row no other takes back, while no    *)
(* two runs go on at once: a public event stays so, and so does a review.  *)
WorkStays ==
  [][~mixed => \A e \in Events :
       /\ ReadyMeta(meta[e]) => ReadyMeta(meta'[e])
       /\ meta[e].reviewed => meta'[e].reviewed]_vars

(* A day's usage is read when a run begins and added to when it ends, so   *)
(* runs that overlap go over the limit, by what the others of them send at *)
(* the most; a run that dies is not counted.                               *)
BudgetHolds ==
  sent <= DailyLimit + (Cardinality(Enrichers) - 1) * RequestLimit + uncounted

(* No provider is asked for a row before the delay of its last attempt has *)
(* passed, while no two runs go on at once.                                *)
RetryWaits ==
  [][~mixed => \A t \in Translators, e \in Events :
       Doing(t, "ask", e) /\ ~(Doing(t, "ask", e))' => e \notin cooling]_vars

(* Every event is public one day, or too old for it, unless as many that   *)
(* are too old as there are candidates come before it for ever.            *)
Starved(e) == Cardinality({f \in old \ Ready : f < e}) >= CandidateLimit
GetsPublished(e) == <>(e \in Ready \cup old \/ Starved(e))
=============================================================================
