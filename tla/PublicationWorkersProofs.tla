---------------------- MODULE PublicationWorkersProofs ----------------------
(***************************************************************************)
(* Proofs about the publication workers, for any number of events and of   *)
(* runs that overlap as they like: the types, that a failed translation    *)
(* waits before it is tried again (Waits), and that the calls paid for     *)
(* stay within the budget of the day (Ledger, a sum taken as the           *)
(* cardinality of a set of pairs).                                         *)
(***************************************************************************)
EXTENDS PublicationWorkers, FiniteSetTheorems, TLAPS

USE SizeAssumption

LEMMA FirstOfSubset ==
  ASSUME NEW S, NEW n
  PROVE  FirstOf(S, n) \subseteq S
  BY DEF FirstOf

LEMMA DueRowsType == DueRows \subseteq Events
  BY FirstOfSubset DEF DueRows, Candidates

LEMMA PlannedType == Planned \subseteq Events
  BY DEF Planned

(* A step that changes what one translator, or one enricher, is at. *)
LEMMA TranslatorStep ==
  ASSUME TypeOK, NEW t \in Translators, NEW x \in Translations \cup {Idle},
         translating' = [translating EXCEPT ![t] = x]
  PROVE  translating' \in [Translators -> Translations \cup {Idle}]
  BY DEF TypeOK

LEMMA EnricherStep ==
  ASSUME TypeOK, NEW a \in Enrichers, NEW x \in Enrichments \cup {Idle},
         enriching' = [enriching EXCEPT ![a] = x]
  PROVE  enriching' \in [Enrichers -> Enrichments \cup {Idle}]
  BY DEF TypeOK

LEMMA FreshType == Fresh \in Metadata
  BY DEF Fresh, Metadata, Titles

LEMMA MergedType ==
  ASSUME NEW m \in Metadata, NEW n \in Metadata, NEW title \in {"good", "bad"}
  PROVE  Merged(m, n) \in Metadata /\ EnrichedMeta(m, title) \in Metadata
  BY DEF Merged, EnrichedMeta, Metadata, Titles

(* What a step makes of the run of a translator. *)
LEMMA NextRowStep ==
  ASSUME TypeOK, NEW t \in Translators, Busy(translating[t]), NEW e,
         NextRow(t, e)
  PROVE  /\ translating' \in [Translators -> Translations \cup {Idle}]
         /\ Busy(translating'[t]) =>
              translating'[t].at = "ask"
         /\ \A u \in Translators \ {t} : translating'[u] = translating[u]
  <1> DEFINE rest == translating[t].todo \ {e}
             x == IF rest = {} THEN Idle
                  ELSE [at |-> "ask", todo |-> rest, seen |-> Fresh]
  <1>1. translating[t] \in Translations
    BY DEF TypeOK, Busy
  <1>2. rest \in SUBSET Events
    BY <1>1 DEF Translations
  <1>3. x \in Translations \cup {Idle}
    BY <1>2, FreshType DEF Translations
  <1>4. translating' = [translating EXCEPT ![t] = x]
    BY DEF NextRow
  <1>5. Busy(x) => x.at = "ask"
    BY DEF Busy
  <1> HIDE DEF x
  <1> QED BY <1>3, <1>4, <1>5, TranslatorStep DEF TypeOK

-----------------------------------------------------------------------------
(* Each step of a run keeps the types. *)
LEMMA TranslationType ==
  ASSUME TypeOK, NEW t \in Translators, TranslationStep(t)
  PROVE  TypeOK'
  <1> PICK e \in Events : \/ Translated(t, e) \/ NotTranslated(t, e)
                          \/ RecordRetry(t, e) \/ ReadTranslated(t, e)
                          \/ WriteTranslated(t, e)
    BY DEF TranslationStep
  <1>1. translating[t] \in Translations /\ Busy(translating[t])
    BY DEF TypeOK, Busy, Translated, NotTranslated, RecordRetry,
           ReadTranslated, WriteTranslated, Doing
  <1>2. CASE Translated(t, e)
    BY <1>1, <1>2 DEF Translated, Now, Translations, TypeOK, rows, budget
  <1>3. CASE NotTranslated(t, e)
    BY <1>1, <1>3 DEF NotTranslated, Now, Translations, TypeOK, rows, budget
  <1>4. CASE RecordRetry(t, e)
    <2>1. translating' \in [Translators -> Translations \cup {Idle}]
      BY <1>1, <1>4, NextRowStep DEF RecordRetry, TypeOK
    <2> QED BY <1>4, <2>1 DEF RecordRetry, TypeOK, budget
  <1>5. CASE ReadTranslated(t, e)
    BY <1>1, <1>5 DEF ReadTranslated, Translations, TypeOK, rows, budget
  <1>6. CASE WriteTranslated(t, e)
    <2>1. translating' \in [Translators -> Translations \cup {Idle}]
      BY <1>1, <1>6, NextRowStep DEF WriteTranslated
    <2>2. meta' \in [Events -> Metadata]
      BY <1>1, <1>6 DEF WriteTranslated, TypeOK, Translations, Metadata, Titles
    <2> QED BY <1>6, <2>1, <2>2 DEF WriteTranslated, TypeOK, budget
  <1> QED BY <1>2, <1>3, <1>4, <1>5, <1>6

LEMMA EnrichmentType ==
  ASSUME TypeOK, NEW a \in Enrichers, EnrichmentStep(a)
  PROVE  TypeOK'
  <1> DEFINE x == enriching[a]
  <1>1. x \in Enrichments /\ Busy(x)
    BY DEF TypeOK, Busy, EnrichmentStep, Answered, Refused, ReadEnriched,
           WriteEnriched, Count, At
  <1>2. ASSUME NEW e \in Events, NEW title \in {"good", "bad"},
               Answered(a, e, title)
        PROVE  TypeOK'
    <2> DEFINE y == [x EXCEPT !.at = IF x.todo \ {e} = {} THEN "read"
                                       ELSE "request",
                              !.todo = x.todo \ {e}, !.out = x.out \cup {e},
                              !.requests = x.requests + 1,
                              !.copy = [x.copy EXCEPT
                                          ![e] = EnrichedMeta(x.copy[e], title)]]
    <2>1. EnrichedMeta(x.copy[e], title) \in Metadata
      BY <1>1, MergedType DEF Enrichments
    <2>2. /\ x.requests + 1 \in Nat
          /\ x.todo \ {e} \in SUBSET Events /\ x.out \cup {e} \in SUBSET Events
          /\ [x.copy EXCEPT ![e] = EnrichedMeta(x.copy[e], title)]
               \in [Events -> Metadata]
      BY <1>1, <2>1 DEF Enrichments
    <2>3. y \in Enrichments
      BY <1>1, <2>2 DEF Enrichments
    <2>4. enriching' = [enriching EXCEPT ![a] = y]
      BY <1>2 DEF Answered
    <2> HIDE DEF y
    <2>5. enriching' \in [Enrichers -> Enrichments \cup {Idle}]
      BY <2>3, <2>4, EnricherStep
    <2>6. sent' \in Nat
      BY <1>2 DEF Answered, TypeOK
    <2> QED BY <1>2, <2>5, <2>6 DEF Answered, TypeOK, rows
  <1>3. ASSUME NEW e \in Events, ReadEnriched(a, e)
        PROVE  TypeOK'
    <2> DEFINE y == [x EXCEPT !.at = "write", !.seen = meta[e]]
    <2>1. y \in Enrichments
      BY <1>1 DEF Enrichments, TypeOK
    <2>2. enriching' = [enriching EXCEPT ![a] = y]
      BY <1>3 DEF ReadEnriched
    <2> HIDE DEF y
    <2> QED BY <1>3, <2>1, <2>2, EnricherStep
            DEF ReadEnriched, TypeOK, rows, budget
  <1>4. ASSUME NEW e \in Events, WriteEnriched(a, e)
        PROVE  TypeOK'
    <2> DEFINE y == [x EXCEPT !.at = Applying(x.out \ {e}),
                              !.out = x.out \ {e},
                              !.copy = [x.copy EXCEPT ![e] = Fresh],
                              !.seen = Fresh]
    <2>1. y \in Enrichments
      BY <1>1, FreshType DEF Enrichments, Applying
    <2>2. enriching' = [enriching EXCEPT ![a] = y]
      BY <1>4 DEF WriteEnriched
    <2>3. Merged(x.seen, x.copy[e]) \in Metadata
      BY <1>1, MergedType DEF Enrichments
    <2>4. meta' \in [Events -> Metadata]
      BY <1>4, <2>3 DEF WriteEnriched, TypeOK
    <2>5. cooling' \in SUBSET Events
      BY <1>4 DEF WriteEnriched, TypeOK
    <2> HIDE DEF y
    <2> QED BY <1>4, <2>1, <2>2, <2>4, <2>5, EnricherStep
            DEF WriteEnriched, TypeOK, budget
  <1>5. CASE Refused(a)
    <2> DEFINE y == [x EXCEPT !.at = Applying(x.out), !.todo = {},
                              !.requests = x.requests + 1]
               z == [x EXCEPT !.at = "limited", !.todo = {}, !.out = {},
                              !.requests = x.requests + 1]
    <2>. x.requests + 1 \in Nat /\ Applying(x.out) \in {"read", "count"}
      BY <1>1 DEF Enrichments, Applying
    <2>a. y \in Enrichments
      BY <1>1 DEF Enrichments
    <2>b. z \in Enrichments
      BY <1>1 DEF Enrichments
    <2>1. y \in Enrichments /\ z \in Enrichments
      BY <2>a, <2>b
    <2>2. \/ enriching' = [enriching EXCEPT ![a] = y]
          \/ enriching' = [enriching EXCEPT ![a] = z]
      BY <1>5 DEF Refused
    <2> HIDE DEF y, z
    <2>3. enriching' \in [Enrichers -> Enrichments \cup {Idle}]
      BY <2>1, <2>2, EnricherStep
    <2>4. sent' \in Nat
      BY <1>5 DEF Refused, TypeOK
    <2> QED BY <1>5, <2>3, <2>4 DEF Refused, TypeOK, rows
  <1>6. CASE Count(a)
    <2>1. usage' \in Nat
      BY <1>1, <1>6 DEF Count, TypeOK, Enrichments
    <2>2. cooldown' \in BOOLEAN
      BY <1>6 DEF Count
    <2>3. enriching' \in [Enrichers -> Enrichments \cup {Idle}]
      BY <1>6, EnricherStep DEF Count
    <2> QED BY <1>6, <2>1, <2>2, <2>3 DEF Count, TypeOK, rows
  <1> QED BY <1>2, <1>3, <1>4, <1>5, <1>6 DEF EnrichmentStep

(* Every run and every row has its shape, whatever goes on at once, and    *)
(* the counters are numbers.                                               *)
THEOREM WorkersTypeCorrect == Spec => []TypeOK
  <1>1. Init => TypeOK
    <2> SUFFICES ASSUME Init PROVE TypeOK
      OBVIOUS
    <2>1. /\ meta \in [Events -> Metadata] /\ 0 \in 0 .. MaxFaults
          /\ translating \in [Translators -> Translations \cup {Idle}]
          /\ enriching \in [Enrichers -> Enrichments \cup {Idle}]
      BY FreshType DEF Init
    <2>2. /\ cooling = {} /\ old = {} /\ usage = 0 /\ cooldown = FALSE
          /\ sent = 0 /\ uncounted = 0 /\ mixed = FALSE /\ faults = 0
      BY DEF Init
    <2>3. /\ usage \in Nat /\ sent \in Nat /\ uncounted \in Int
          /\ faults \in 0 .. MaxFaults
      BY <2>1, <2>2
    <2>5. cooldown \in BOOLEAN /\ mixed \in BOOLEAN
      BY <2>2
    <2>4. cooling \in SUBSET Events /\ old \in SUBSET Events
      BY <2>2
    <2> QED BY <2>1, <2>3, <2>4, <2>5 DEF TypeOK
  <1>2. TypeOK /\ [Next]_vars => TypeOK'
    <2> SUFFICES ASSUME TypeOK, [Next]_vars PROVE TypeOK'
      OBVIOUS
    <2>1. ASSUME NEW t \in Translators, BeginTranslation(t)
          PROVE  TypeOK'
      <3> DEFINE x == [at |-> "ask", todo |-> DueRows, seen |-> Fresh]
      <3>1. x \in Translations
        BY DueRowsType, FreshType DEF Translations
      <3>2. translating' = [translating EXCEPT ![t] = x]
        BY <2>1 DEF BeginTranslation
      <3> HIDE DEF x
      <3>3. translating' \in [Translators -> Translations \cup {Idle}]
        BY <3>1, <3>2, TranslatorStep
      <3>4. mixed' \in BOOLEAN
        BY <2>1 DEF BeginTranslation, Mixed
      <3> QED BY <2>1, <3>3, <3>4 DEF BeginTranslation, TypeOK, rows, budget
    <2>2. ASSUME NEW a \in Enrichers, BeginEnrichment(a)
          PROVE  TypeOK'
      <3> DEFINE todo == FirstOf(Planned, Allowance)
                 x == [at |-> "request", todo |-> todo, out |-> {},
                       requests |-> 0,
                       copy |-> [e \in Events |->
                                   IF e \in todo THEN meta[e] ELSE Fresh],
                       seen |-> Fresh]
      <3>1. todo \in SUBSET Events
        BY PlannedType, FirstOfSubset
      <3>2. enriching' = [enriching EXCEPT ![a] = x]
        BY <2>2 DEF BeginEnrichment
      <3> HIDE DEF todo
      <3>3. x \in Enrichments
        BY <3>1, FreshType DEF Enrichments, TypeOK
      <3> HIDE DEF x
      <3>4. enriching' \in [Enrichers -> Enrichments \cup {Idle}]
        BY <3>2, <3>3, EnricherStep
      <3>5. mixed' \in BOOLEAN
        BY <2>2 DEF BeginEnrichment, Mixed
      <3> QED BY <2>2, <3>4, <3>5 DEF BeginEnrichment, TypeOK, rows, budget
    <2>3. CASE \E e \in Events : DelayPasses(e) \/ GrowsOld(e)
      BY <2>3 DEF DelayPasses, GrowsOld, TypeOK, budget
    <2>4. CASE CooldownEnds
      BY <2>4 DEF CooldownEnds, TypeOK, rows
    <2>5. CASE Restart
      <3>1. faults' \in 0 .. MaxFaults
        BY <2>5 DEF Restart, TypeOK
      <3> QED BY <2>5, <3>1 DEF Restart, TypeOK, rows
    <2>6. CASE UNCHANGED vars
      BY <2>6 DEF vars, rows, budget, TypeOK
    <2> QED BY <2>1, <2>2, <2>3, <2>4, <2>5, <2>6, TranslationType,
               EnrichmentType DEF Next
  <1> QED BY <1>1, <1>2, PTL DEF Spec

-----------------------------------------------------------------------------
(* While no two runs go on at once, a run knows the rows it will write:    *)
(* what it has read of a row about to be written is what is there, and the *)
(* enrichment's copy of a row differs from it by what was asked for.       *)
Kept(c, m) ==
  /\ c.reviewed /\ c.publication = m.publication
  /\ m.title # "none" => c.title = m.title

TranslatorKnows(t) ==
  \A e \in Events : Doing(t, "write", e) => translating[t].seen = meta[e]
EnricherKnows(a) ==
  Busy(enriching[a]) =>
    /\ \A e \in enriching[a].todo : enriching[a].copy[e] = meta[e]
    /\ \A e \in enriching[a].out : Kept(enriching[a].copy[e], meta[e])
    /\ \A e \in Events : At(a, "write") /\ IsFirst(e, enriching[a].out)
                           => enriching[a].seen = meta[e]
    /\ enriching[a].at # "request" => enriching[a].todo = {}

OneRun ==
  /\ \A t, u \in Translators :
       Busy(translating[t]) /\ Busy(translating[u]) => t = u
  /\ \A a, b \in Enrichers : Busy(enriching[a]) /\ Busy(enriching[b]) => a = b
  /\ \A t \in Translators, a \in Enrichers :
       ~(Busy(translating[t]) /\ Busy(enriching[a]))

Alone == ~mixed => /\ OneRun
                   /\ \A t \in Translators : TranslatorKnows(t)
                   /\ \A a \in Enrichers : EnricherKnows(a)

LEMMA FirstUnique ==
  ASSUME NEW S \in SUBSET Events, NEW e, NEW f, IsFirst(e, S), IsFirst(f, S)
  PROVE  e = f
  BY DEF IsFirst, Events

(* A step of a translator that is alone. *)
LEMMA TranslationAlone ==
  ASSUME TypeOK, Alone, NEW t \in Translators, TranslationStep(t)
  PROVE  Alone'
  <1> PICK e \in Events : \/ Translated(t, e) \/ NotTranslated(t, e)
                          \/ RecordRetry(t, e) \/ ReadTranslated(t, e)
                          \/ WriteTranslated(t, e)
    BY DEF TranslationStep
  <1>1. /\ translating[t] \in Translations /\ Busy(translating[t])
        /\ mixed' = mixed /\ enriching' = enriching
    BY DEF TypeOK, Busy, Translated, NotTranslated, RecordRetry,
           ReadTranslated, WriteTranslated, Doing
  <1> SUFFICES ASSUME ~mixed
               PROVE  /\ OneRun'
                      /\ \A u \in Translators : TranslatorKnows(u)'
                      /\ \A a \in Enrichers : EnricherKnows(a)'
    BY <1>1 DEF Alone
  <1>2. /\ \A a \in Enrichers : ~Busy(enriching[a])
        /\ \A u \in Translators \ {t} : ~Busy(translating[u])
    BY <1>1 DEF Alone, OneRun
  <1>3. \A a \in Enrichers : ~Busy(enriching'[a])
    BY <1>1, <1>2
  <1>4. \A u \in Translators \ {t} : translating'[u] = translating[u]
    <2>1. CASE Translated(t, e) \/ NotTranslated(t, e)
      BY <2>1 DEF Translated, NotTranslated, Now, TypeOK
    <2>2. CASE RecordRetry(t, e) \/ WriteTranslated(t, e)
      BY <2>2 DEF RecordRetry, WriteTranslated, NextRow, TypeOK
    <2>3. CASE ReadTranslated(t, e)
      BY <2>3 DEF ReadTranslated, TypeOK
    <2> QED BY <2>1, <2>2, <2>3
  <1>5. \A u \in Translators \ {t} : ~Busy(translating'[u])
    BY <1>2, <1>4
  <1>6. TranslatorKnows(t)'
    <2>1. CASE Translated(t, e) \/ NotTranslated(t, e)
      <3>1. translating'[t].at # "write"
        BY <1>1, <2>1 DEF Translated, NotTranslated, Now, TypeOK, Translations
      <3> QED BY <3>1 DEF TranslatorKnows, Doing
    <2>2. CASE RecordRetry(t, e) \/ WriteTranslated(t, e)
      <3>1. Busy(translating'[t]) => translating'[t].at # "write"
        <4>1. CASE NextRow(t, e)
          BY <1>1, <4>1, NextRowStep
        <4>2. CASE translating' = [translating EXCEPT ![t] = Idle]
          BY <4>2 DEF TypeOK, Busy
        <4> QED BY <2>2, <4>1, <4>2 DEF RecordRetry, WriteTranslated
      <3> QED BY <3>1 DEF TranslatorKnows, Doing
    <2>3. CASE ReadTranslated(t, e)
      <3>1. /\ translating'[t].todo = translating[t].todo
            /\ translating'[t].seen = meta[e] /\ meta' = meta
            /\ IsFirst(e, translating[t].todo)
            /\ translating[t].todo \in SUBSET Events
        BY <1>1, <2>3 DEF ReadTranslated, Doing, TypeOK, Translations, rows
      <3>2. \A f \in Events : IsFirst(f, translating'[t].todo) => f = e
        BY <3>1, FirstUnique
      <3> QED BY <3>1, <3>2 DEF TranslatorKnows, Doing
    <2> QED BY <2>1, <2>2, <2>3
  <1>7. \A u \in Translators : TranslatorKnows(u)'
    BY <1>5, <1>6 DEF TranslatorKnows, Doing
  <1>8. \A a \in Enrichers : EnricherKnows(a)'
    BY <1>3 DEF EnricherKnows
  <1>9. OneRun'
    BY <1>3, <1>5 DEF OneRun
  <1> QED BY <1>7, <1>8, <1>9

(* What a step makes of the run of an enricher. *)
LEMMA OthersStay ==
  ASSUME TypeOK, NEW a \in Enrichers, EnrichmentStep(a)
  PROVE  \A b \in Enrichers \ {a} : enriching'[b] = enriching[b]
  BY DEF EnrichmentStep, Answered, Refused, ReadEnriched, WriteEnriched, Count,
         TypeOK

(* A step of an enricher that is alone. *)
LEMMA EnrichmentAlone ==
  ASSUME TypeOK, Alone, NEW a \in Enrichers, EnrichmentStep(a)
  PROVE  Alone'
  <1> DEFINE x == enriching[a]
             y == enriching'[a]
  <1>1. /\ x \in Enrichments /\ Busy(x)
        /\ mixed' = mixed /\ translating' = translating
    BY DEF TypeOK, Busy, EnrichmentStep, Answered, Refused, ReadEnriched,
           WriteEnriched, Count, At
  <1> SUFFICES ASSUME ~mixed
               PROVE  /\ OneRun'
                      /\ \A t \in Translators : TranslatorKnows(t)'
                      /\ \A b \in Enrichers : EnricherKnows(b)'
    BY <1>1 DEF Alone
  <1>2. /\ \A t \in Translators : ~Busy(translating[t])
        /\ \A b \in Enrichers \ {a} : ~Busy(enriching[b])
    BY <1>1 DEF Alone, OneRun
  <1>3. /\ \A t \in Translators : ~Busy(translating'[t])
        /\ \A b \in Enrichers \ {a} : ~Busy(enriching'[b])
    BY <1>1, <1>2, OthersStay
  <1>4. /\ \A e \in x.todo : x.copy[e] = meta[e]
        /\ \A e \in x.out : Kept(x.copy[e], meta[e])
        /\ x.at # "request" => x.todo = {}
        /\ x.todo \in SUBSET Events /\ x.out \in SUBSET Events
        /\ x.copy \in [Events -> Metadata] /\ meta \in [Events -> Metadata]
    BY <1>1 DEF Alone, EnricherKnows, Enrichments, TypeOK
  <1>5. EnricherKnows(a)'
    <2>1. ASSUME NEW e \in Events, NEW title \in {"good", "bad"},
                 Answered(a, e, title)
          PROVE  EnricherKnows(a)'
      <3>1. /\ y.todo = x.todo \ {e} /\ y.out = x.out \cup {e}
            /\ y.copy = [x.copy EXCEPT ![e] = EnrichedMeta(x.copy[e], title)]
            /\ y.at = IF x.todo \ {e} = {} THEN "read" ELSE "request"
            /\ meta' = meta /\ e \in x.todo
        BY <1>1, <2>1 DEF Answered, TypeOK, Enrichments, rows, IsFirst
      <3>2. Kept(EnrichedMeta(x.copy[e], title), meta[e])
        BY <1>4, <3>1 DEF Kept, EnrichedMeta, Metadata
      <3>3. \A f \in y.todo : y.copy[f] = meta[f]
        BY <1>4, <3>1
      <3>4. \A f \in y.out : Kept(y.copy[f], meta[f])
        <4> TAKE f \in y.out
        <4>1. CASE f = e
          BY <1>4, <3>1, <3>2, <4>1
        <4>2. CASE f # e
          BY <1>4, <3>1, <4>2
        <4> QED BY <4>1, <4>2
      <3>5. y.at # "write" /\ (y.at # "request" => y.todo = {})
        BY <3>1
      <3> QED BY <3>1, <3>3, <3>4, <3>5 DEF EnricherKnows, At
    <2>2. ASSUME NEW e \in Events, ReadEnriched(a, e)
          PROVE  EnricherKnows(a)'
      <3>1. /\ y.todo = x.todo /\ y.out = x.out /\ y.copy = x.copy
            /\ y.seen = meta[e] /\ meta' = meta /\ x.at = "read"
            /\ IsFirst(e, x.out)
        BY <1>1, <2>2 DEF ReadEnriched, TypeOK, Enrichments, rows, At
      <3>2. \A f \in Events : IsFirst(f, y.out) => f = e
        BY <1>4, <3>1, FirstUnique
      <3> QED BY <1>4, <3>1, <3>2 DEF EnricherKnows
    <2>3. ASSUME NEW e \in Events, WriteEnriched(a, e)
          PROVE  EnricherKnows(a)'
      <3>1. /\ y.todo = x.todo /\ y.out = x.out \ {e} /\ x.at = "write"
            /\ y.copy = [x.copy EXCEPT ![e] = Fresh]
            /\ y.at = Applying(x.out \ {e})
            /\ meta' = [meta EXCEPT ![e] = Merged(x.seen, x.copy[e])]
        BY <1>1, <2>3 DEF WriteEnriched, TypeOK, Enrichments, At
      <3>2. y.at # "write"
        BY <3>1 DEF Applying
      <3>3. \A f \in y.out : Kept(y.copy[f], meta'[f])
        BY <1>4, <3>1
      <3>4. y.todo = {}
        BY <1>4, <3>1
      <3> QED BY <3>2, <3>3, <3>4 DEF EnricherKnows, At
    <2>4. CASE Refused(a)
      <3>a. \/ y = [x EXCEPT !.at = Applying(x.out), !.todo = {},
                             !.requests = x.requests + 1]
            \/ y = [x EXCEPT !.at = "limited", !.todo = {}, !.out = {},
                             !.requests = x.requests + 1]
        BY <2>4 DEF Refused, TypeOK
      <3>b. y.todo = {} /\ y.copy = x.copy /\ y.out \subseteq x.out
        BY <1>1, <3>a DEF Enrichments
      <3>c. y.at # "write"
        BY <1>1, <3>a DEF Enrichments, Applying
      <3>1. /\ y.todo = {} /\ y.copy = x.copy /\ meta' = meta
            /\ y.out \subseteq x.out /\ y.at # "write"
        BY <2>4, <3>b, <3>c DEF Refused, rows
      <3>2. \A f \in y.out : Kept(y.copy[f], meta'[f])
        BY <1>4, <3>1
      <3>3. \A f \in y.todo : y.copy[f] = meta'[f]
        BY <3>1
      <3> QED BY <3>1, <3>2, <3>3 DEF EnricherKnows, At
    <2>5. CASE Count(a)
      BY <2>5 DEF Count, TypeOK, EnricherKnows, Busy
    <2> QED BY <2>1, <2>2, <2>3, <2>4, <2>5 DEF EnrichmentStep
  <1>6. \A b \in Enrichers : EnricherKnows(b)'
    BY <1>3, <1>5 DEF EnricherKnows
  <1>7. \A t \in Translators : TranslatorKnows(t)'
    BY <1>3 DEF TranslatorKnows, Doing
  <1>8. OneRun'
    BY <1>3 DEF OneRun
  <1> QED BY <1>6, <1>7, <1>8

(* Each step from a state in which runs are alone keeps it so. *)
LEMMA AloneStep == TypeOK /\ Alone /\ [Next]_vars => Alone'
  <1> SUFFICES ASSUME TypeOK, Alone, [Next]_vars PROVE Alone'
    OBVIOUS
  <1>1. ASSUME NEW t \in Translators, BeginTranslation(t)
        PROVE  Alone'
    <2> SUFFICES ASSUME ~Mixed
                 PROVE  /\ OneRun'
                        /\ \A u \in Translators : TranslatorKnows(u)'
                        /\ \A a \in Enrichers : EnricherKnows(a)'
      BY <1>1 DEF Alone, BeginTranslation
    <2>1. /\ \A a \in Enrichers : ~Busy(enriching'[a])
          /\ \A u \in Translators \ {t} : ~Busy(translating'[u])
      BY <1>1 DEF BeginTranslation, Mixed, TypeOK
    <2>2. translating'[t].at = "ask"
      BY <1>1 DEF BeginTranslation, TypeOK
    <2>3. \A u \in Translators : TranslatorKnows(u)'
      BY <2>1, <2>2 DEF TranslatorKnows, Doing
    <2> QED BY <2>1, <2>3 DEF OneRun, EnricherKnows
  <1>2. ASSUME NEW a \in Enrichers, BeginEnrichment(a)
        PROVE  Alone'
    <2> SUFFICES ASSUME ~Mixed
                 PROVE  /\ OneRun'
                        /\ \A t \in Translators : TranslatorKnows(t)'
                        /\ \A b \in Enrichers : EnricherKnows(b)'
      BY <1>2 DEF Alone, BeginEnrichment
    <2>1. /\ \A t \in Translators : ~Busy(translating'[t])
          /\ \A b \in Enrichers \ {a} : ~Busy(enriching'[b])
      BY <1>2 DEF BeginEnrichment, Mixed, TypeOK
    <2> DEFINE y == enriching'[a]
    <2>2. /\ y.todo \subseteq Events
          /\ \A e \in y.todo : y.copy[e] = meta[e]
          /\ y.out = {} /\ y.at = "request" /\ meta' = meta
      BY <1>2, PlannedType, FirstOfSubset DEF BeginEnrichment, TypeOK, rows
    <2>3. EnricherKnows(a)'
      BY <2>2 DEF EnricherKnows, At
    <2>4. \A b \in Enrichers : EnricherKnows(b)'
      BY <2>1, <2>3 DEF EnricherKnows
    <2> QED BY <2>1, <2>4 DEF OneRun, TranslatorKnows, Doing
  <1>3. CASE Restart
    <2>1. /\ \A t \in Translators : ~Busy(translating'[t])
          /\ \A a \in Enrichers : ~Busy(enriching'[a])
      BY <1>3 DEF Restart, Busy
    <2> QED BY <2>1 DEF Alone, OneRun, TranslatorKnows, EnricherKnows, Doing
  <1>4. CASE \/ \E e \in Events : DelayPasses(e) \/ GrowsOld(e)
             \/ CooldownEnds \/ UNCHANGED vars
    BY <1>4 DEF DelayPasses, GrowsOld, CooldownEnds, vars, rows, Alone, OneRun,
                TranslatorKnows, EnricherKnows, Doing, At
  <1> QED BY <1>1, <1>2, <1>3, <1>4, TranslationAlone, EnrichmentAlone DEF Next

LEMMA AloneAlways == Spec => []Alone
  <1>1. Init => Alone
    <2> SUFFICES ASSUME Init PROVE Alone
      OBVIOUS
    <2>1. /\ \A t \in Translators : ~Busy(translating[t])
          /\ \A a \in Enrichers : ~Busy(enriching[a])
      BY DEF Init, Busy
    <2> QED BY <2>1 DEF Alone, OneRun, TranslatorKnows, EnricherKnows, Doing
  <1> QED BY <1>1, AloneStep, WorkersTypeCorrect, PTL DEF Spec

(* What one worker has written into a row no other takes back while no two *)
(* runs go on at once.                                                     *)
THEOREM PublishedWorkStays == Spec => WorkStays
  <1> DEFINE Stay == ~mixed => \A e \in Events :
                       /\ ReadyMeta(meta[e]) => ReadyMeta(meta'[e])
                       /\ meta[e].reviewed => meta'[e].reviewed
  <1>1. TypeOK /\ Alone /\ [Next]_vars => Stay
    <2> SUFFICES ASSUME TypeOK, Alone, [Next]_vars, ~mixed, NEW f \in Events
                 PROVE  /\ ReadyMeta(meta[f]) => ReadyMeta(meta'[f])
                        /\ meta[f].reviewed => meta'[f].reviewed
      OBVIOUS
    <2>1. ASSUME NEW t \in Translators, NEW e \in Events, WriteTranslated(t, e)
          PROVE  /\ ReadyMeta(meta[f]) => ReadyMeta(meta'[f])
                 /\ meta[f].reviewed => meta'[f].reviewed
      <3>1. translating[t].seen = meta[e]
        BY <2>1 DEF WriteTranslated, Alone, TranslatorKnows
      <3> QED BY <2>1, <3>1
              DEF WriteTranslated, TypeOK, Metadata, ReadyMeta
    <2>2. ASSUME NEW a \in Enrichers, NEW e \in Events, WriteEnriched(a, e)
          PROVE  /\ ReadyMeta(meta[f]) => ReadyMeta(meta'[f])
                 /\ meta[f].reviewed => meta'[f].reviewed
      <3>1. /\ enriching[a].seen = meta[e]
            /\ Kept(enriching[a].copy[e], meta[e])
        BY <2>2 DEF WriteEnriched, Alone, EnricherKnows, At, IsFirst
      <3> QED BY <2>2, <3>1
              DEF WriteEnriched, TypeOK, Metadata, ReadyMeta, Merged, Kept
    <2>3. CASE meta' = meta
      BY <2>3
    <2>4. \/ \E t \in Translators, e \in Events : WriteTranslated(t, e)
          \/ \E a \in Enrichers, e \in Events : WriteEnriched(a, e)
          \/ meta' = meta
      BY DEF Next, vars, rows, TranslationStep, EnrichmentStep,
             BeginTranslation, Translated, NotTranslated, RecordRetry,
             ReadTranslated, BeginEnrichment, Answered, Refused, ReadEnriched,
             Count, CooldownEnds, DelayPasses, GrowsOld, Restart
    <2> QED BY <2>1, <2>2, <2>3, <2>4
  <1> QED BY <1>1, AloneAlways, WorkersTypeCorrect, PTL DEF Spec, WorkStays

-----------------------------------------------------------------------------
(* No provider is asked for a row that waits: the rows a translator has    *)
(* before it are not cooling, and only the row it is at has just been      *)
(* tried.                                                                  *)
WaitsFor(t) ==
  Busy(translating[t]) =>
    \A e \in translating[t].todo :
      translating[t].at = "ask" \/ ~IsFirst(e, translating[t].todo)
        => e \notin cooling
Waits == ~mixed => \A t \in Translators : WaitsFor(t)

LEMMA DueRowsWait == \A e \in DueRows : e \notin cooling
  BY FirstOfSubset DEF DueRows

(* A step of a translator that is alone. *)
LEMMA TranslationWaits ==
  ASSUME TypeOK, Alone, Waits, NEW t \in Translators, TranslationStep(t),
         ~mixed
  PROVE  \A u \in Translators : WaitsFor(u)'
  <1> PICK e \in Events : \/ Translated(t, e) \/ NotTranslated(t, e)
                          \/ RecordRetry(t, e) \/ ReadTranslated(t, e)
                          \/ WriteTranslated(t, e)
    BY DEF TranslationStep
  <1>1. /\ translating[t] \in Translations /\ Busy(translating[t])
        /\ IsFirst(e, translating[t].todo)
    BY DEF TypeOK, Busy, Translated, NotTranslated, RecordRetry,
           ReadTranslated, WriteTranslated, Doing
  <1>2. OneRun /\ OneRun'
    <2>1. Alone' /\ mixed' = mixed
      BY TranslationAlone DEF Translated, NotTranslated, RecordRetry,
         ReadTranslated, WriteTranslated
    <2> QED BY <2>1 DEF Alone
  <1>3. \A f \in translating[t].todo : f # e => f \notin cooling
    <2>1. \A f \in translating[t].todo : IsFirst(f, translating[t].todo) => f = e
      BY <1>1, FirstUnique DEF Translations
    <2> QED BY <1>1, <2>1 DEF Waits, WaitsFor
  <1>4. WaitsFor(t)'
    <2>1. CASE Translated(t, e) \/ NotTranslated(t, e) \/ ReadTranslated(t, e)
      <3>1. translating'[t].todo = translating[t].todo /\ cooling' = cooling
        BY <1>1, <2>1 DEF Translated, NotTranslated, ReadTranslated, Now,
           TypeOK, Translations, rows
      <3>2. translating'[t].at # "ask"
        BY <1>1, <2>1 DEF Translated, NotTranslated, ReadTranslated, Now,
           TypeOK, Translations
      <3> QED BY <1>1, <1>3, <3>1, <3>2 DEF WaitsFor
    <2>2. CASE RecordRetry(t, e) \/ WriteTranslated(t, e)
      <3>1. cooling' = cooling \cup {e}
        BY <2>2 DEF RecordRetry, WriteTranslated
      <3>2. Busy(translating'[t]) =>
              translating'[t].todo = translating[t].todo \ {e}
        <4>1. CASE NextRow(t, e)
          BY <4>1 DEF NextRow, TypeOK, Busy
        <4>2. CASE translating' = [translating EXCEPT ![t] = Idle]
          BY <4>2 DEF TypeOK, Busy
        <4> QED BY <2>2, <4>1, <4>2 DEF RecordRetry, WriteTranslated
      <3> QED BY <1>3, <3>1, <3>2 DEF WaitsFor
    <2> QED BY <2>1, <2>2
  <1>5. \A u \in Translators \ {t} : translating'[u] = translating[u]
    BY DEF Translated, NotTranslated, RecordRetry, ReadTranslated,
           WriteTranslated, Now, NextRow, TypeOK
  <1>6. \A u \in Translators \ {t} : WaitsFor(u)'
    BY <1>1, <1>2, <1>5 DEF OneRun, WaitsFor
  <1> QED BY <1>4, <1>6

LEMMA WaitsStep ==
  ASSUME TypeOK, Alone, Waits, [Next]_vars
  PROVE  Waits'
  <1>1. ASSUME NEW t \in Translators, BeginTranslation(t)
        PROVE  Waits'
    <2> SUFFICES ASSUME ~Mixed, NEW u \in Translators PROVE WaitsFor(u)'
      BY <1>1 DEF Waits, BeginTranslation
    <2>1. CASE u = t
      <3>1. translating'[t].todo = DueRows /\ cooling' = cooling
        BY <1>1 DEF BeginTranslation, TypeOK, rows
      <3> QED BY <2>1, <3>1, DueRowsWait DEF WaitsFor
    <2>2. CASE u # t
      <3>1. ~Busy(translating'[u])
        BY <1>1, <2>2 DEF BeginTranslation, Mixed, TypeOK
      <3> QED BY <3>1 DEF WaitsFor
    <2> QED BY <2>1, <2>2
  <1>2. ASSUME NEW t \in Translators, TranslationStep(t)
        PROVE  Waits'
    <2>1. mixed' = mixed
      BY <1>2 DEF TranslationStep, Translated, NotTranslated, RecordRetry,
         ReadTranslated, WriteTranslated
    <2> QED BY <1>2, <2>1, TranslationWaits DEF Waits
  <1>3. ASSUME NEW a \in Enrichers, BeginEnrichment(a)
        PROVE  Waits'
    <2>1. ~Mixed => \A u \in Translators : ~Busy(translating'[u])
      BY <1>3 DEF BeginEnrichment, Mixed
    <2> QED BY <1>3, <2>1 DEF BeginEnrichment, Waits, WaitsFor
  <1>4. ASSUME NEW a \in Enrichers, EnrichmentStep(a)
        PROVE  Waits'
    <2>1. /\ Busy(enriching[a]) /\ mixed' = mixed
          /\ translating' = translating
      BY <1>4 DEF EnrichmentStep, Answered, Refused, ReadEnriched,
         WriteEnriched, Count, At
    <2>2. ~mixed => \A u \in Translators : ~Busy(translating'[u])
      BY <2>1 DEF Alone, OneRun
    <2> QED BY <2>1, <2>2 DEF Waits, WaitsFor
  <1>5. CASE Restart
    <2>1. \A u \in Translators : ~Busy(translating'[u])
      BY <1>5 DEF Restart, Busy
    <2> QED BY <2>1 DEF Waits, WaitsFor
  <1>6. CASE \/ \E e \in Events : DelayPasses(e) \/ GrowsOld(e)
             \/ CooldownEnds \/ UNCHANGED vars
    <2>1. /\ cooling' \subseteq cooling /\ mixed' = mixed
          /\ translating' = translating
      BY <1>6 DEF DelayPasses, GrowsOld, CooldownEnds, vars, rows
    <2> QED BY <2>1 DEF Waits, WaitsFor
  <1> QED BY <1>1, <1>2, <1>3, <1>4, <1>5, <1>6 DEF Next

(* A row is asked for again only when the delay of its last attempt has    *)
(* passed, while no two runs go on at once (row_is_due, _record_retry).    *)
THEOREM RetriesWait == Spec => RetryWaits
  <1> DEFINE Wait == ~mixed => \A t \in Translators, e \in Events :
               Doing(t, "ask", e) /\ ~(Doing(t, "ask", e))' => e \notin cooling
  <1>1. Init => Waits
    BY DEF Init, Waits, WaitsFor, Busy
  <1>2. TypeOK /\ Alone /\ Waits /\ [Next]_vars => Waits'
    BY WaitsStep
  <1>3. Spec => []Waits
    BY <1>1, <1>2, AloneAlways, WorkersTypeCorrect, PTL DEF Spec
  <1>4. Waits => Wait
    BY DEF Waits, WaitsFor, Doing, IsFirst
  <1>5. Waits /\ [Next]_vars => [Wait]_vars
    BY <1>4
  <1> QED BY <1>3, <1>5, PTL DEF Spec, RetryWaits

-----------------------------------------------------------------------------
(* The requests of the day.  A number for each enricher is counted as the  *)
(* pairs of the enricher and a unit, so that their sum is a cardinality.   *)
Counts == [Enrichers -> 0 .. RequestLimit]
Units(c) == {p \in Enrichers \X (1 .. RequestLimit) : p[2] <= c[p[1]]}
Total(c) == Cardinality(Units(c))

(* What all but one enricher can ask for at the most. *)
Others == (Cardinality(Enrichers) - 1) * RequestLimit

LEMMA NumbersAreNumbers ==
  /\ RequestLimit \in Nat /\ DailyLimit \in Nat
  /\ Cardinality(Enrichers) \in Nat \ {0} /\ Others \in Nat
  <1>1. Cardinality(Enrichers) \in Nat \ {0}
    BY EnrichersAssumption, FS_CardinalityType, FS_EmptySet
  <1>2. \A m, n \in Nat : m * n \in Nat
    OBVIOUS
  <1>3. Cardinality(Enrichers) - 1 \in Nat
    BY <1>1
  <1> QED BY <1>1, <1>2, <1>3 DEF Others

LEMMA UnitsAreFinite ==
  ASSUME NEW c \in Counts
  PROVE  IsFiniteSet(Units(c)) /\ Total(c) \in Nat
  <1>0. IsFiniteSet(1 .. RequestLimit)
    BY NumbersAreNumbers, FS_Interval
  <1>1. IsFiniteSet(Enrichers \X (1 .. RequestLimit))
    BY <1>0, EnrichersAssumption, FS_Product
  <1>2. IsFiniteSet(Units(c))
    BY <1>1, FS_Subset DEF Units
  <1> QED BY <1>2, FS_CardinalityType DEF Total

LEMMA NothingIsNone ==
  ASSUME NEW c \in Counts, \A a \in Enrichers : c[a] = 0
  PROVE  Total(c) = 0
  <1>1. \A p \in Enrichers \X (1 .. RequestLimit) : ~(p[2] <= c[p[1]])
    BY NumbersAreNumbers
  <1>2. Units(c) = {}
    BY <1>1 DEF Units
  <1> QED BY <1>2, FS_EmptySet DEF Total

LEMMA LessIsLess ==
  ASSUME NEW c \in Counts, NEW d \in Counts, \A a \in Enrichers : c[a] <= d[a]
  PROVE  Total(c) <= Total(d)
  <1>1. Units(c) \subseteq Units(d)
    BY DEF Units, Counts
  <1> QED BY <1>1, UnitsAreFinite, FS_Subset DEF Total

(* The others of an enricher that has nothing. *)
LEMMA OthersBound ==
  ASSUME NEW c \in Counts, NEW a \in Enrichers, c[a] = 0
  PROVE  Total(c) <= Others
  <1> DEFINE rest == (Enrichers \ {a}) \X (1 .. RequestLimit)
  <1>1. /\ IsFiniteSet(Enrichers \ {a})
        /\ Cardinality(Enrichers \ {a}) = Cardinality(Enrichers) - 1
    BY EnrichersAssumption, FS_RemoveElement
  <1>2. /\ IsFiniteSet(1 .. RequestLimit)
        /\ Cardinality(1 .. RequestLimit) = RequestLimit
    BY NumbersAreNumbers, FS_Interval
  <1>3. IsFiniteSet(rest) /\ Cardinality(rest) = Others
    BY <1>1, <1>2, FS_Product DEF Others
  <1>4. Units(c) \subseteq rest
    BY DEF Units
  <1> HIDE DEF rest
  <1> QED BY <1>3, <1>4, FS_Subset DEF Total

(* One number changes, and the sum by the difference. *)
LEMMA OneChanges ==
  ASSUME NEW c \in Counts, NEW a \in Enrichers, NEW n \in 0 .. RequestLimit,
         NEW d, d = [c EXCEPT ![a] = n]
  PROVE  /\ d \in Counts
         /\ Total(d) = Total(c) - c[a] + n
  <1> DEFINE Row(k) == {a} \X (1 .. k)
             rest == {p \in Units(c) : p[1] # a}
  <1>1. d \in Counts /\ c[a] \in 0 .. RequestLimit /\ d[a] = n
    BY DEF Counts
  <1>2. ASSUME NEW k \in 0 .. RequestLimit
        PROVE  IsFiniteSet(Row(k)) /\ Cardinality(Row(k)) = k
    <2>1. k \in Nat /\ IsFiniteSet(1 .. k) /\ Cardinality(1 .. k) = k
      BY NumbersAreNumbers, FS_Interval
    <2>2. IsFiniteSet({a}) /\ Cardinality({a}) = 1
      BY FS_Singleton
    <2>3. IsFiniteSet(Row(k)) /\ Cardinality(Row(k)) = 1 * k
      BY <2>1, <2>2, FS_Product
    <2>4. 1 * k = k
      BY <2>1
    <2> QED BY <2>3, <2>4
  <1>a. \A e \in Counts : \A p :
          p \in {q \in Units(e) : q[1] = a} <=> p \in Row(e[a])
    <2> SUFFICES ASSUME NEW e \in Counts, NEW p
                 PROVE  p \in {q \in Units(e) : q[1] = a} <=> p \in Row(e[a])
      OBVIOUS
    <2>1. e[a] \in 0 .. RequestLimit
      BY DEF Counts
    <2> QED BY <2>1, NumbersAreNumbers DEF Units
  <1>b. rest = {p \in Units(d) : p[1] # a}
    <2>1. \A b \in Enrichers : b # a => d[b] = c[b]
      BY DEF Counts
    <2> QED BY <2>1 DEF Units
  <1>c. \A k : rest \cap Row(k) = {}
    OBVIOUS
  <1>3. Units(c) = rest \cup Row(c[a])
    BY <1>a
  <1>4. Units(d) = rest \cup Row(n)
    BY <1>1, <1>a, <1>b
  <1>5. IsFiniteSet(rest) /\ Cardinality(rest) \in Nat
    BY UnitsAreFinite, FS_Subset, FS_CardinalityType
  <1> HIDE DEF Row, rest
  <1>6. Total(c) = Cardinality(rest) + c[a]
    <2>1. IsFiniteSet(Row(c[a])) /\ Cardinality(Row(c[a])) = c[a]
      BY <1>1, <1>2
    <2>2. Cardinality(rest \cap Row(c[a])) = 0
      BY <1>c, FS_EmptySet
    <2>3. Cardinality(rest \cup Row(c[a])) =
            Cardinality(rest) + Cardinality(Row(c[a]))
              - Cardinality(rest \cap Row(c[a]))
      BY <1>5, <2>1, FS_Union
    <2> QED BY <1>1, <1>5, <1>3, <2>1, <2>2, <2>3 DEF Total
  <1>7. Total(d) = Cardinality(rest) + n
    <2>1. IsFiniteSet(Row(n)) /\ Cardinality(Row(n)) = n
      BY <1>1, <1>2
    <2>2. Cardinality(rest \cap Row(n)) = 0
      BY <1>c, FS_EmptySet
    <2>3. Cardinality(rest \cup Row(n)) =
            Cardinality(rest) + Cardinality(Row(n))
              - Cardinality(rest \cap Row(n))
      BY <1>5, <2>1, FS_Union
    <2>4. Total(d) = Cardinality(rest \cup Row(n))
      BY <1>4 DEF Total
    <2>5. n \in Int
      BY NumbersAreNumbers
    <2> QED BY <1>5, <2>1, <2>2, <2>3, <2>4, <2>5
  <1> QED BY <1>1, <1>5, <1>6, <1>7

LEMMA Smallest ==
  ASSUME NEW S \in SUBSET Nat, S # {}
  PROVE  \E i \in S : \A j \in S : i <= j
  <1>1. \E x \in S : \A y \in S : <<y, x>> \notin OpToRel(<, Nat)
    BY NatLessThanWellFounded, WFMin
  <1>2. \A x, y \in Nat : <<y, x>> \in OpToRel(<, Nat) <=> y < x
    BY DEF OpToRel
  <1>3. \A x \in S : x \in Nat
    OBVIOUS
  <1>4. PICK i \in S : \A j \in S : ~(j < i)
    BY <1>1, <1>2, <1>3
  <1>5. \A j \in S : i <= j
    BY <1>3, <1>4
  <1> QED BY <1>5

(* The first n events are at most n, and at least one where there is one.  *)
LEMMA FirstOfBound ==
  ASSUME NEW S \in SUBSET Events, NEW n \in Nat \ {0}
  PROVE  /\ IsFiniteSet(FirstOf(S, n))
         /\ Cardinality(FirstOf(S, n)) <= n
         /\ S # {} => FirstOf(S, n) # {}
  <1> DEFINE Below(e) == {f \in S : f < e}
             rank == [e \in FirstOf(S, n) |-> Cardinality(Below(e))]
  <1>0. IsFiniteSet(S) /\ \A e \in S : e \in Nat
    <2>1. IsFiniteSet(1 .. N)
      BY FS_Interval
    <2>2. \A e \in S : e \in Nat
      BY DEF Events
    <2> QED BY <2>1, <2>2, FS_Subset DEF Events
  <1>1. \A e \in S : /\ IsFiniteSet(Below(e))
                     /\ Cardinality(Below(e)) \in Nat
    <2> TAKE e \in S
    <2>1. Below(e) \in SUBSET S
      OBVIOUS
    <2> HIDE DEF Below
    <2> QED BY <1>0, <2>1, FS_Subset, FS_CardinalityType
  <1>2. \A e \in S : e \notin Below(e)
    BY <1>0
  <1>3. ASSUME NEW e \in S, NEW f \in S, e < f
        PROVE  Cardinality(Below(e)) < Cardinality(Below(f))
    <2>1. Below(e) \cup {e} \in SUBSET Below(f)
      BY <1>0, <1>3
    <2>2. Cardinality(Below(e) \cup {e}) = Cardinality(Below(e)) + 1
      BY <1>1, <1>2, FS_AddElement
    <2>3. Cardinality(Below(e) \cup {e}) <= Cardinality(Below(f))
      BY <1>1, <2>1, FS_Subset
    <2> HIDE DEF Below
    <2> QED BY <1>1, <2>2, <2>3
  <1>4. FirstOf(S, n) = {e \in S : Cardinality(Below(e)) < n}
    BY DEF FirstOf
  <1>5. S # {} => FirstOf(S, n) # {}
    <2> SUFFICES ASSUME S # {} PROVE FirstOf(S, n) # {}
      OBVIOUS
    <2>1. PICK e \in S : \A f \in S : e <= f
      BY <1>0, Smallest
    <2>2. Below(e) = {}
      BY <1>0, <2>1
    <2>3. Cardinality(Below(e)) = 0
      BY <2>2, FS_EmptySet
    <2> QED BY <1>4, <2>3
  <1> HIDE DEF Below
  <1>6. rank \in Injection(FirstOf(S, n), 0 .. (n - 1))
    <2>1. rank \in [FirstOf(S, n) -> 0 .. (n - 1)]
      BY <1>1, <1>4
    <2>2. ASSUME NEW e \in FirstOf(S, n), NEW f \in FirstOf(S, n),
                 rank[e] = rank[f]
          PROVE  e = f
      <3>1. e \in S /\ f \in S
        BY <1>4
      <3>2. Cardinality(Below(e)) = Cardinality(Below(f))
        BY <2>2
      <3>3. ~(e < f) /\ ~(f < e)
        BY <1>1, <1>3, <3>1, <3>2
      <3> QED BY <1>0, <3>1, <3>3
    <2> QED BY <2>1, <2>2 DEF Injection, IsInjective
  <1>7. IsFiniteSet(0 .. (n - 1)) /\ Cardinality(0 .. (n - 1)) = n
    BY FS_Interval
  <1> HIDE DEF rank
  <1> QED BY <1>5, <1>6, <1>7, FS_Injection

(* What each run has sent and not counted yet, and what it may send.       *)
Asked(x) == IF Busy(x) THEN x.requests ELSE 0
Claim(x) == IF Busy(x) THEN x.requests + Cardinality(x.todo) ELSE 0
Pending == [a \in Enrichers |-> Asked(enriching[a])]
Reserved == [a \in Enrichers |-> Claim(enriching[a])]

(* A run at its requests has rows left to ask for.                         *)
HasRows(x) == Busy(x) /\ x.at = "request" => x.todo # {}

(* Every request is counted, or pending in a run, or was lost with one;    *)
(* and what the runs may still send fits into the day and the overrun.     *)
Ledger ==
  /\ Reserved \in Counts
  /\ \A a \in Enrichers : HasRows(enriching[a])
  /\ sent = usage + uncounted + Total(Pending)
  /\ usage + Total(Reserved) <= DailyLimit + Others

LEMMA TodoIsFinite ==
  ASSUME TypeOK, NEW a \in Enrichers, Busy(enriching[a])
  PROVE  /\ IsFiniteSet(enriching[a].todo)
         /\ Cardinality(enriching[a].todo) \in Nat
         /\ enriching[a].requests \in Nat
  <1>1. enriching[a] \in Enrichments
    BY DEF TypeOK, Busy
  <1>2. enriching[a].todo \in SUBSET Events /\ enriching[a].requests \in Nat
    BY <1>1 DEF Enrichments
  <1>3. IsFiniteSet(Events)
    BY FS_Interval DEF Events
  <1> QED BY <1>2, <1>3, FS_Subset, FS_CardinalityType

LEMMA PendingIsReserved ==
  ASSUME TypeOK, Reserved \in Counts
  PROVE  Pending \in Counts /\ Total(Pending) <= Total(Reserved)
  <1>1. \A a \in Enrichers : /\ Pending[a] \in 0 .. RequestLimit
                             /\ Pending[a] <= Reserved[a]
    <2> TAKE a \in Enrichers
    <2>1. Reserved[a] \in 0 .. RequestLimit
      BY DEF Counts
    <2>2. CASE Busy(enriching[a])
      BY <2>1, <2>2, TodoIsFinite, NumbersAreNumbers
      DEF Pending, Reserved, Asked, Claim
    <2>3. CASE ~Busy(enriching[a])
      BY <2>3, NumbersAreNumbers DEF Pending, Reserved, Asked, Claim
    <2> QED BY <2>2, <2>3
  <1>2. Pending \in Counts
    BY <1>1 DEF Pending, Counts
  <1> QED BY <1>1, <1>2, LessIsLess

(* A step of one run changes the sums by what it changes in that run.      *)
LEMMA SumsChange ==
  ASSUME TypeOK, Ledger, NEW a \in Enrichers, NEW x,
         enriching' = [enriching EXCEPT ![a] = x], HasRows(x),
         Claim(x) \in 0 .. RequestLimit, Asked(x) \in 0 .. RequestLimit
  PROVE  /\ Reserved' \in Counts
         /\ \A b \in Enrichers : HasRows(enriching'[b])
         /\ Total(Pending)' = Total(Pending) - Asked(enriching[a]) + Asked(x)
         /\ Total(Reserved)' = Total(Reserved) - Claim(enriching[a]) + Claim(x)
         /\ Total(Pending) \in Nat /\ Total(Reserved) \in Nat
         /\ Asked(enriching[a]) \in Nat /\ Claim(enriching[a]) \in Nat
  <1>1. /\ Pending' = [Pending EXCEPT ![a] = Asked(x)]
        /\ Reserved' = [Reserved EXCEPT ![a] = Claim(x)]
    BY DEF Pending, Reserved, TypeOK
  <1>2. Pending \in Counts /\ Reserved \in Counts
    BY PendingIsReserved DEF Ledger
  <1>3. Pending[a] = Asked(enriching[a]) /\ Reserved[a] = Claim(enriching[a])
    BY DEF Pending, Reserved
  <1>4. Total(Pending)' = Total(Pending') /\ Total(Reserved)' = Total(Reserved')
    BY DEF Total, Units
  <1>5. \A b \in Enrichers : HasRows(enriching'[b])
    BY DEF Ledger, TypeOK
  <1>6. Asked(enriching[a]) \in Nat /\ Claim(enriching[a]) \in Nat
    BY <1>2, <1>3, NumbersAreNumbers DEF Counts
  <1>7. Total(Pending') = Total(Pending) - Asked(enriching[a]) + Asked(x)
    <2>1. Total(Pending') = Total(Pending) - Pending[a] + Asked(x)
      BY <1>1, <1>2, OneChanges
    <2> QED BY <1>3, <2>1
  <1>8. /\ Reserved' \in Counts
        /\ Total(Reserved') = Total(Reserved) - Claim(enriching[a]) + Claim(x)
    <2>1. /\ Reserved' \in Counts
          /\ Total(Reserved') = Total(Reserved) - Reserved[a] + Claim(x)
      BY <1>1, <1>2, OneChanges
    <2> QED BY <1>3, <2>1
  <1> QED BY <1>2, <1>4, <1>5, <1>6, <1>7, <1>8, UnitsAreFinite

LEMMA LedgerOfStep ==
  ASSUME TypeOK, Ledger, NEW a \in Enrichers, EnrichmentStep(a)
  PROVE  Ledger'
  <1> DEFINE x == enriching[a]
  <1>1. x \in Enrichments /\ Busy(x)
    BY DEF TypeOK, Busy, EnrichmentStep, Answered, Refused, ReadEnriched,
           WriteEnriched, Count, At
  <1>2. /\ IsFiniteSet(x.todo) /\ Cardinality(x.todo) \in Nat
        /\ x.requests \in Nat
    BY <1>1, TodoIsFinite
  <1>3. /\ Claim(x) = x.requests + Cardinality(x.todo) /\ Asked(x) = x.requests
        /\ Claim(x) \in 0 .. RequestLimit
    <2>1. Reserved[a] \in 0 .. RequestLimit
      BY DEF Ledger, Counts
    <2> QED BY <1>1, <2>1 DEF Claim, Asked, Reserved
  <1>4. usage \in Nat /\ sent \in Nat /\ uncounted \in Int
    BY DEF TypeOK
  <1>5. HasRows(x)
    BY DEF Ledger
  (* One request more, and nothing else is counted. *)
  <1>6. ASSUME NEW y, enriching' = [enriching EXCEPT ![a] = y], HasRows(y),
               Asked(y) = x.requests + 1, Claim(y) <= Claim(x),
               Claim(y) \in Nat, Asked(y) <= Claim(y),
               sent' = sent + 1, usage' = usage, uncounted' = uncounted
        PROVE  Ledger'
    <2>1. Claim(y) \in 0 .. RequestLimit /\ Asked(y) \in 0 .. RequestLimit
      BY <1>2, <1>3, <1>6, NumbersAreNumbers
    <2>2. /\ Reserved' \in Counts
          /\ \A b \in Enrichers : HasRows(enriching'[b])
          /\ Total(Pending)' = Total(Pending) - Asked(x) + Asked(y)
          /\ Total(Reserved)' = Total(Reserved) - Claim(x) + Claim(y)
          /\ Total(Pending) \in Nat /\ Total(Reserved) \in Nat
      BY <1>6, <2>1, SumsChange
    <2> QED BY <1>2, <1>3, <1>4, <1>6, <2>2, NumbersAreNumbers
            DEF Ledger, Others
  <1>7. ASSUME NEW y, enriching' = [enriching EXCEPT ![a] = y], HasRows(y),
               Asked(y) = Asked(x), Claim(y) = Claim(x), sent' = sent,
               usage' = usage, uncounted' = uncounted
        PROVE  Ledger'
    <2>1. Claim(y) \in 0 .. RequestLimit /\ Asked(y) \in 0 .. RequestLimit
      BY <1>2, <1>3, <1>7, NumbersAreNumbers
    <2>2. /\ Reserved' \in Counts
          /\ \A b \in Enrichers : HasRows(enriching'[b])
          /\ Total(Pending)' = Total(Pending) - Asked(x) + Asked(y)
          /\ Total(Reserved)' = Total(Reserved) - Claim(x) + Claim(y)
          /\ Total(Pending) \in Nat /\ Total(Reserved) \in Nat
      BY <1>7, <2>1, SumsChange
    <2> QED BY <1>2, <1>3, <1>4, <1>7, <2>2, NumbersAreNumbers
            DEF Ledger, Others
  <1>8. ASSUME NEW e \in Events, NEW title \in {"good", "bad"},
               Answered(a, e, title)
        PROVE  Ledger'
    <2> DEFINE rest == x.todo \ {e}
               y == [x EXCEPT !.at = IF rest = {} THEN "read" ELSE "request",
                              !.todo = rest, !.out = x.out \cup {e},
                              !.requests = x.requests + 1,
                              !.copy = [x.copy EXCEPT
                                          ![e] = EnrichedMeta(x.copy[e], title)]]
    <2>1. enriching' = [enriching EXCEPT ![a] = y]
      BY <1>8 DEF Answered
    <2>2. /\ Busy(y) /\ y.requests = x.requests + 1 /\ y.todo = rest
          /\ HasRows(y)
      BY <1>1 DEF Enrichments, HasRows, Busy, Idle
    <2>3. Cardinality(rest) = Cardinality(x.todo) - 1
      BY <1>2, <1>8, FS_RemoveElement DEF Answered, IsFirst
    <2>4. Cardinality(rest) \in Nat
      BY <1>2, FS_RemoveElement, FS_CardinalityType
    <2> HIDE DEF y, rest
    <2>5. Asked(y) = x.requests + 1 /\ Claim(y) = Claim(x)
      BY <1>2, <1>3, <2>2, <2>3 DEF Asked, Claim
    <2>6. Asked(y) <= Claim(y)
      BY <1>2, <2>2, <2>4, <2>5 DEF Claim
    <2>7. sent' = sent + 1 /\ usage' = usage /\ uncounted' = uncounted
      BY <1>8 DEF Answered
    <2>8. Claim(y) <= Claim(x) /\ Claim(y) \in Nat
      BY <1>3, <2>5, NumbersAreNumbers
    <2> HIDE DEF x
    <2> QED BY ONLY <1>6, <2>1, <2>2, <2>5, <2>6, <2>7, <2>8
  <1>9. CASE Refused(a)
    <2>1. PICK y : /\ enriching' = [enriching EXCEPT ![a] = y]
                   /\ \/ y = [x EXCEPT !.at = Applying(x.out), !.todo = {},
                                       !.requests = x.requests + 1]
                      \/ y = [x EXCEPT !.at = "limited", !.todo = {},
                                       !.out = {}, !.requests = x.requests + 1]
      BY <1>9 DEF Refused
    <2>2. /\ Busy(y) /\ y.requests = x.requests + 1 /\ y.todo = {}
          /\ HasRows(y)
      BY <1>1, <2>1 DEF Enrichments, HasRows, Busy, Idle, Applying
    <2>3. Cardinality(x.todo) >= 1
      <3>1. x.todo # {}
        BY <1>5, <1>9 DEF Refused, At, HasRows
      <3>2. Cardinality(x.todo) # 0
        BY <1>2, <3>1, FS_EmptySet
      <3> QED BY <1>2, <3>2
    <2>4. Cardinality(y.todo) = 0
      BY <2>2, FS_EmptySet
    <2>5. Asked(y) = x.requests + 1 /\ Claim(y) = x.requests + 1
      BY <1>2, <2>2, <2>4 DEF Asked, Claim
    <2>6. Claim(y) <= Claim(x)
      BY <1>2, <1>3, <2>3, <2>5
    <2>7. sent' = sent + 1 /\ usage' = usage /\ uncounted' = uncounted
      BY <1>9 DEF Refused
    <2>8. Claim(y) \in Nat /\ Asked(y) <= Claim(y)
      BY <1>2, <2>5
    <2> HIDE DEF x
    <2> QED BY ONLY <1>6, <2>1, <2>2, <2>5, <2>6, <2>7, <2>8
  <1>10. ASSUME NEW e \in Events, ReadEnriched(a, e) \/ WriteEnriched(a, e)
         PROVE  Ledger'
    <2>1. PICK y : /\ enriching' = [enriching EXCEPT ![a] = y]
                   /\ \/ y = [x EXCEPT !.at = "write", !.seen = meta[e]]
                      \/ y = [x EXCEPT !.at = Applying(x.out \ {e}),
                                !.out = x.out \ {e},
                                !.copy = [x.copy EXCEPT ![e] = Fresh],
                                !.seen = Fresh]
      BY <1>10 DEF ReadEnriched, WriteEnriched
    <2>2. /\ Busy(y) /\ y.requests = x.requests /\ y.todo = x.todo
          /\ HasRows(y)
      BY <1>1, <2>1 DEF Enrichments, HasRows, Busy, Idle, Applying
    <2>3. Asked(y) = Asked(x) /\ Claim(y) = Claim(x)
      BY <1>1, <2>2 DEF Asked, Claim
    <2>4. sent' = sent /\ usage' = usage /\ uncounted' = uncounted
      BY <1>10 DEF ReadEnriched, WriteEnriched, budget
    <2> QED BY <1>7, <2>1, <2>2, <2>3, <2>4
  <1>11. CASE Count(a)
    <2>1. /\ enriching' = [enriching EXCEPT ![a] = Idle]
          /\ usage' = usage + x.requests
          /\ sent' = sent /\ uncounted' = uncounted
      BY <1>11 DEF Count
    <2>2. Asked(Idle) = 0 /\ Claim(Idle) = 0 /\ HasRows(Idle)
      BY DEF Asked, Claim, HasRows, Busy
    <2>3. Claim(Idle) \in 0 .. RequestLimit /\ Asked(Idle) \in 0 .. RequestLimit
      BY <2>2, NumbersAreNumbers
    <2>4. /\ Reserved' \in Counts
          /\ \A b \in Enrichers : HasRows(enriching'[b])
          /\ Total(Pending)' = Total(Pending) - Asked(x) + Asked(Idle)
          /\ Total(Reserved)' = Total(Reserved) - Claim(x) + Claim(Idle)
          /\ Total(Pending) \in Nat /\ Total(Reserved) \in Nat
      BY <2>1, <2>2, <2>3, SumsChange
    <2>5. sent' = usage' + uncounted' + Total(Pending)'
      BY <1>2, <1>3, <1>4, <2>1, <2>2, <2>4 DEF Ledger
    <2>6. usage' + Total(Reserved)' <= DailyLimit + Others
      BY <1>2, <1>3, <1>4, <2>1, <2>2, <2>4, NumbersAreNumbers DEF Ledger
    <2> QED BY <2>4, <2>5, <2>6 DEF Ledger, Others
  <1> QED BY <1>8, <1>9, <1>10, <1>11 DEF EnrichmentStep

LEMMA LedgerOfBegin ==
  ASSUME TypeOK, Ledger, NEW a \in Enrichers, BeginEnrichment(a)
  PROVE  Ledger'
  <1> DEFINE todo == FirstOf(Planned, Allowance)
             x == enriching[a]
             y == [at |-> "request", todo |-> todo, out |-> {}, requests |-> 0,
                   copy |-> [e \in Events |->
                               IF e \in todo THEN meta[e] ELSE Fresh],
                   seen |-> Fresh]
  <1>1. /\ enriching' = [enriching EXCEPT ![a] = y] /\ ~Busy(x)
        /\ usage < DailyLimit /\ Planned # {}
        /\ sent' = sent /\ usage' = usage /\ uncounted' = uncounted
    BY DEF BeginEnrichment, budget
  <1>2. usage \in Nat /\ sent \in Nat /\ uncounted \in Int
    BY DEF TypeOK
  <1>3. /\ Allowance \in Nat \ {0}
        /\ Allowance <= RequestLimit /\ usage + Allowance <= DailyLimit
    BY <1>1, <1>2, SizeAssumption DEF Allowance
  <1>4. /\ IsFiniteSet(todo) /\ Cardinality(todo) <= Allowance
        /\ todo # {}
    BY <1>1, <1>3, FirstOfBound DEF Planned
  <1>5. Cardinality(todo) \in Nat
    BY <1>4, FS_CardinalityType
  <1>6. Busy(y) /\ y.todo = todo /\ y.requests = 0
    BY DEF Busy, Idle
  <1>7. HasRows(y)
    BY <1>4, <1>6 DEF HasRows
  <1> HIDE DEF y, todo
  <1>8. Claim(y) = Cardinality(todo) /\ Asked(y) = 0
    BY <1>5, <1>6 DEF Claim, Asked
  <1>9. Claim(x) = 0 /\ Asked(x) = 0
    BY <1>1 DEF Claim, Asked
  <1>10. Claim(y) \in 0 .. RequestLimit /\ Asked(y) \in 0 .. RequestLimit
    BY <1>3, <1>4, <1>5, <1>8, NumbersAreNumbers
  <1>11. /\ Reserved' \in Counts
         /\ \A b \in Enrichers : HasRows(enriching'[b])
         /\ Total(Pending)' = Total(Pending) - Asked(x) + Asked(y)
         /\ Total(Reserved)' = Total(Reserved) - Claim(x) + Claim(y)
         /\ Total(Pending) \in Nat /\ Total(Reserved) \in Nat
    BY <1>1, <1>7, <1>10, SumsChange
  (* A run that begins has nothing reserved, so the others have the rest.  *)
  <1>12. Total(Reserved) <= Others
    <2>1. Reserved[a] = 0
      BY <1>9 DEF Reserved
    <2> QED BY <2>1, OthersBound DEF Ledger
  <1>13. sent' = usage' + uncounted' + Total(Pending)'
    BY <1>1, <1>2, <1>8, <1>9, <1>11 DEF Ledger
  <1>14. usage' + Total(Reserved)' <= DailyLimit + Others
    BY <1>1, <1>2, <1>3, <1>4, <1>5, <1>8, <1>9, <1>11, <1>12,
       NumbersAreNumbers
  <1> QED BY <1>11, <1>13, <1>14 DEF Ledger, Others

(* No run goes on: nothing is pending, and nothing reserved.               *)
LEMMA NothingGoesOn ==
  ASSUME \A a \in Enrichers : enriching[a] = Idle
  PROVE  /\ Reserved \in Counts /\ Pending \in Counts
         /\ Total(Reserved) = 0 /\ Total(Pending) = 0
         /\ \A a \in Enrichers : HasRows(enriching[a])
  <1>1. \A a \in Enrichers : Reserved[a] = 0 /\ Pending[a] = 0
    BY DEF Reserved, Pending, Claim, Asked, Busy
  <1>2. Reserved \in Counts /\ Pending \in Counts
    BY <1>1, NumbersAreNumbers DEF Reserved, Pending, Counts
  <1>3. \A a \in Enrichers : HasRows(enriching[a])
    BY DEF HasRows, Busy
  <1> QED BY <1>1, <1>2, <1>3, NothingIsNone

LEMMA InitLedger == ASSUME Init PROVE Ledger
  <1>1. \A a \in Enrichers : enriching[a] = Idle
    BY DEF Init
  <1>2. usage = 0 /\ uncounted = 0 /\ sent = 0
    BY DEF Init
  <1> QED BY <1>1, <1>2, NothingGoesOn, NumbersAreNumbers DEF Ledger

LEMMA LedgerStep ==
  ASSUME TypeOK, Ledger, [Next]_vars
  PROVE  Ledger'
  <1>1. ASSUME NEW a \in Enrichers, BeginEnrichment(a)
        PROVE  Ledger'
    BY <1>1, LedgerOfBegin
  <1>2. ASSUME NEW a \in Enrichers, EnrichmentStep(a)
        PROVE  Ledger'
    BY <1>2, LedgerOfStep
  <1>3. CASE Restart
    <2>1. \A a \in Enrichers : enriching'[a] = Idle
      BY <1>3 DEF Restart
    <2>2. /\ Reserved' \in Counts
          /\ Total(Reserved)' = 0 /\ Total(Pending)' = 0
          /\ \A a \in Enrichers : HasRows(enriching'[a])
      <3>1. ASSUME \A a \in Enrichers : enriching'[a] = Idle
            PROVE  /\ Reserved' \in Counts /\ Pending' \in Counts
                   /\ Total(Reserved') = 0 /\ Total(Pending') = 0
                   /\ \A a \in Enrichers : HasRows(enriching'[a])
        <4>1. \A a \in Enrichers : Reserved'[a] = 0 /\ Pending'[a] = 0
          BY <3>1 DEF Reserved, Pending, Claim, Asked, Busy
        <4>2. Reserved' \in Counts /\ Pending' \in Counts
          BY <4>1, NumbersAreNumbers DEF Reserved, Pending, Counts
        <4>3. \A a \in Enrichers : HasRows(enriching'[a])
          BY <3>1 DEF HasRows, Busy
        <4> QED BY <4>1, <4>2, <4>3, NothingIsNone
      <3> QED BY <2>1, <3>1 DEF Total, Units
    <2>3. /\ uncounted' = sent - usage /\ sent' = sent /\ usage' = usage
          /\ usage \in Nat /\ sent \in Nat
      BY <1>3 DEF Restart, TypeOK
    <2>4. usage <= DailyLimit + Others
      <3>1. Total(Reserved) \in Nat
        BY UnitsAreFinite DEF Ledger
      <3> QED BY <2>3, <3>1, NumbersAreNumbers DEF Ledger
    <2> QED BY <2>2, <2>3, <2>4, NumbersAreNumbers DEF Ledger, Others
  <1>4. CASE \/ \E t \in Translators : BeginTranslation(t) \/ TranslationStep(t)
             \/ \E e \in Events : DelayPasses(e) \/ GrowsOld(e)
             \/ CooldownEnds \/ UNCHANGED vars
    <2>1. enriching' = enriching /\ sent' = sent /\ usage' = usage
          /\ uncounted' = uncounted
      BY <1>4 DEF BeginTranslation, TranslationStep, Translated, NotTranslated,
         RecordRetry, ReadTranslated, WriteTranslated, DelayPasses, GrowsOld,
         CooldownEnds, vars, budget
    <2>2. Reserved' = Reserved /\ Pending' = Pending
      BY <2>1 DEF Reserved, Pending
    <2> QED BY <2>1, <2>2 DEF Ledger, Others, Total, Units
  <1> QED BY <1>1, <1>2, <1>3, <1>4 DEF Next

(* The requests of the day stay within its limit, what the other runs may  *)
(* send in a cycle, and what runs that died did not count (_usage of       *)
(* core/ai_enrichment.py, read when a run begins and written when it ends).*)
THEOREM BudgetKept == Spec => []BudgetHolds
  <1>1. TypeOK /\ Ledger /\ [Next]_vars => Ledger'
    BY LedgerStep
  <1>2. TypeOK /\ Ledger => BudgetHolds
    <2> SUFFICES ASSUME TypeOK, Ledger PROVE BudgetHolds
      OBVIOUS
    <2>1. /\ Total(Pending) \in Nat /\ Total(Reserved) \in Nat
          /\ Total(Pending) <= Total(Reserved)
      BY PendingIsReserved, UnitsAreFinite DEF Ledger
    <2>2. usage \in Nat /\ sent \in Nat /\ uncounted \in Int
      BY DEF TypeOK
    <2>3. sent <= DailyLimit + Others + uncounted
      BY <2>1, <2>2, NumbersAreNumbers DEF Ledger
    <2> QED BY <2>3 DEF BudgetHolds, Others
  <1> QED BY <1>1, <1>2, InitLedger, WorkersTypeCorrect, PTL DEF Spec
=============================================================================
