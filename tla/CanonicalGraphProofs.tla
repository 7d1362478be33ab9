------------------------ MODULE CanonicalGraphProofs -----------------------
(* Theorems about CanonicalGraph, for every set of events, mentions,        *)
(* decisions, requests and callers.                                         *)
EXTENDS CanonicalGraph, TLAPS

(* What DecisionsAreTraced, MergedIsRecorded and MergedKeepsNothing say, of *)
(* any value of the tables                                                  *)
Traced(t) ==
    /\ \A d \in Decisions : t.art[d].applied # NoOp =>
          t.art[d].status = "resolved" /\ t.art[d].applied \in t.ops
          /\ t.art[d].applied.decision = d
    /\ \A o \in t.ops : o.decision # NoDecision => t.art[o.decision].applied = o
MergesRecorded(t) ==
    \A e \in Events : t.event[e].status = "merged" =>
        \E o \in t.ops : o.kind = "merge" /\ e \in o.members
                         /\ t.event[e].into = o.primary /\ <<o, e>> \in t.links
NothingHidden(t) ==
    \A m \in Mentions : t.home[m] # NoEvent =>
        /\ Present(t, t.home[m])
        /\ t.event[t.home[m]].status = "merged" =>
              \E o \in t.ops : o.kind = "merge" /\ o.primary = t.home[m]

----------------------------------------------------------------------------
(* The tables after a whole merge or split, table by table *)

LEMMA PayloadFields ==
    ASSUME NEW r \in Requests
    PROVE  /\ r.kind \in {"merge", "split"} /\ r.primary \in Events
           /\ r.members \in Candidates /\ r.decision \in Decisions \cup {NoDecision}
           /\ r.result \in Events
           /\ r.kind = "merge" => /\ r.members \subseteq Events
                                  /\ r.primary \notin r.members /\ r.result = r.primary
           /\ r.kind = "split" => r.members \subseteq Mentions /\ r.result # r.primary
  BY PayloadsAreChecked DEF Payloads

LEMMA CreatedTyped ==
    ASSUME NEW t \in TablesType, NEW r \in Requests
    PROVE  Created(t, r) \in TablesType
  BY PayloadFields DEF Created, TablesType, EventRow, EventStatus

LEMMA MovedTyped ==
    ASSUME NEW t \in TablesType, NEW r \in Requests
    PROVE  Moved(t, r) \in TablesType
  BY PayloadFields DEF Moved, TablesType

LEMMA MarkedTyped ==
    ASSUME NEW t \in TablesType, NEW r \in Requests
    PROVE  Marked(t, r) \in TablesType
  <1>1. {r} \X Linked(r) \subseteq Requests \X Events
    BY PayloadFields DEF Linked
  <1>2. \A e \in Events : (IF r.kind = "merge" /\ e \in r.members /\ Present(t, e)
              THEN [status |-> "merged", into |-> r.primary] ELSE t.event[e]) \in EventRow
    BY PayloadFields DEF TablesType, EventRow, EventStatus
  <1> QED
    BY <1>1, <1>2 DEF Marked, TablesType

LEMMA RestatedTyped ==
    ASSUME NEW t \in TablesType, NEW r \in Requests, NEW plan \in PlanType
    PROVE  Restated(t, r, plan) \in TablesType
  <1>1. r.primary \in Events /\ plan.event[r.primary] \in EventRow
    BY PayloadFields DEF PlanType
  <1> QED
    BY <1>1 DEF Restated, TablesType, EventRow, PlanType

LEMMA DecidedTyped ==
    ASSUME NEW t \in TablesType, NEW r \in Requests, NEW plan \in PlanType
    PROVE  Decided(t, r, plan) \in TablesType
  <1>1. CASE r.decision = NoDecision
    BY <1>1 DEF Decided
  <1>2. CASE r.decision # NoDecision
    <2>1. r.decision \in Decisions /\ plan.art[r.decision] \in ArtifactRow
      BY <1>2, PayloadFields DEF PlanType
    <2>2. [status |-> "resolved", cands |-> plan.art[r.decision].cands, applied |-> r]
              \in ArtifactRow
      BY <2>1 DEF ArtifactRow, ArtifactStatus
    <2> QED
      BY <2>1, <2>2 DEF Decided, TablesType
  <1> QED
    BY <1>1, <1>2

LEMMA RecordedTyped ==
    ASSUME NEW t \in TablesType, NEW r \in Requests
    PROVE  Recorded(t, r) \in TablesType
  BY DEF Recorded, TablesType

LEMMA UpsertedTyped ==
    ASSUME NEW t \in TablesType, NEW d \in Decisions, NEW row \in ArtifactRow
    PROVE  Upserted(t, d, row) \in TablesType
  BY DEF Upserted, TablesType

LEMMA ProjectedTyped ==
    ASSUME NEW t \in TablesType, NEW rows \in SUBSET Mentions
    PROVE  Projected(t, rows) \in TablesType
  BY IdentifiersAreTyped DEF Projected, TablesType, EventRow, EventStatus

LEMMA EmptyTyped == EmptyTables \in TablesType
  BY DEF EmptyTables, TablesType, Absent, NoArtifact, EventRow, ArtifactRow, Candidates

PlanOf(t) == [event |-> t.event, art |-> t.art]
Begun(t, r) == IF r.kind = "split" THEN Created(t, r) ELSE t

LEMMA PlanTyped == ASSUME NEW t \in TablesType PROVE PlanOf(t) \in PlanType
  BY DEF PlanOf, PlanType, TablesType

(* The statements an apply runs one by one come to Applied. *)
LEMMA StatementsAreApplied ==
    ASSUME NEW t \in TablesType, NEW r \in Requests
    PROVE  Recorded(Decided(Restated(Marked(Moved(Begun(t, r), r), r), r, PlanOf(t)),
                            r, PlanOf(t)), r) = Applied(t, r)
  BY DEF Applied, Begun, PlanOf, Restated, Decided

LEMMA AppliedTyped ==
    ASSUME NEW t \in TablesType, NEW r \in Requests PROVE Applied(t, r) \in TablesType
  <1>1. PlanOf(t) \in PlanType
    BY PlanTyped
  <1>2. Begun(t, r) \in TablesType
    BY CreatedTyped DEF Begun
  <1>3. Marked(Moved(Begun(t, r), r), r) \in TablesType
    BY <1>2, MovedTyped, MarkedTyped
  <1>4. Decided(Restated(Marked(Moved(Begun(t, r), r), r), r, PlanOf(t)), r, PlanOf(t))
            \in TablesType
    BY <1>1, <1>3, RestatedTyped, DecidedTyped
  <1> QED
    BY <1>4, RecordedTyped, StatementsAreApplied

(* What a whole merge leaves in each table *)
LEMMA AppliedMerge ==
    ASSUME NEW t \in TablesType, NEW r \in Requests, r.kind = "merge", MayApply(t, r)
    PROVE  /\ Applied(t, r).ops = t.ops \cup {r}
           /\ Applied(t, r).links = t.links \cup ({r} \X r.members)
           /\ \A m \in Mentions : Applied(t, r).home[m] =
                  IF t.home[m] \in r.members THEN r.primary ELSE t.home[m]
           /\ \A e \in Events : Applied(t, r).event[e] =
                  IF e \in r.members THEN [status |-> "merged", into |-> r.primary]
                  ELSE t.event[e]
  <1> DEFINE moved == Moved(t, r)
             marked == Marked(moved, r)
             restated == Restated(marked, r, t)
             decided == Decided(restated, r, t)
  <1>1. Applied(t, r) = Recorded(decided, r)
    BY DEF Applied
  <1>2. r.members \subseteq Events /\ r.primary \in Events \ r.members /\ r.result = r.primary
    BY PayloadFields
  <1>3. \A e \in r.members : Present(t, e)
    BY DEF MayApply, Fits, MergeFits
  <1>4. /\ moved.event = t.event /\ moved.ops = t.ops /\ moved.links = t.links
        /\ moved.art = t.art
        /\ moved.home = [m \in Mentions |-> IF t.home[m] \in r.members THEN r.primary
                                            ELSE t.home[m]]
        /\ moved \in TablesType
    BY <1>2, MovedTyped DEF Moved, Leaves, TablesType
  <1>5. /\ marked.ops = t.ops /\ marked.home = moved.home /\ marked.art = t.art
        /\ marked.links = t.links \cup ({r} \X r.members)
        /\ marked.event = [e \in Events |-> IF e \in r.members
               THEN [status |-> "merged", into |-> r.primary] ELSE t.event[e]]
        /\ marked \in TablesType
    <2>1. \A e \in Events : Present(moved, e) <=> Present(t, e)
      BY <1>4 DEF Present
    <2>2. marked = [moved EXCEPT !.links = t.links \cup ({r} \X r.members),
                 !.event = [e \in Events |-> IF e \in r.members
                     THEN [status |-> "merged", into |-> r.primary] ELSE t.event[e]]]
      BY <1>3, <1>4, <2>1 DEF Marked, Linked
    <2>3. marked \in TablesType
      BY <1>4, MarkedTyped
    <2> QED
      BY <1>4, <2>2, <2>3 DEF TablesType
  <1>6. /\ restated.ops = t.ops /\ restated.home = moved.home /\ restated.art = t.art
        /\ restated.links = marked.links /\ restated.event = marked.event
    <2>1. marked.event[r.primary] = t.event[r.primary]
      BY <1>2, <1>5
    <2>2. [marked.event[r.primary] EXCEPT !.into = t.event[r.primary].into]
             = marked.event[r.primary]
      BY <1>2, <2>1 DEF TablesType, EventRow
    <2>3. marked.event = [marked.event EXCEPT ![r.primary] = marked.event[r.primary]]
      BY <1>5
    <2>4. restated = [marked EXCEPT !.event = [marked.event EXCEPT ![r.primary] =
                         IF Present(marked, r.primary)
                         THEN [marked.event[r.primary] EXCEPT
                                  !.into = t.event[r.primary].into]
                         ELSE marked.event[r.primary]]]
      BY DEF Restated
    <2>5. restated = [marked EXCEPT !.event = marked.event]
      BY <2>2, <2>3, <2>4
    <2> QED
      BY <1>5, <2>5 DEF TablesType
  <1>7. /\ decided.ops = t.ops /\ decided.home = moved.home
        /\ decided.links = marked.links /\ decided.event = marked.event
    BY <1>6, <1>5, PayloadFields DEF Decided, TablesType, Restated
  <1> QED
    BY <1>1, <1>4, <1>5, <1>7 DEF Recorded

(* What a whole split leaves in each table *)
LEMMA AppliedSplit ==
    ASSUME NEW t \in TablesType, NEW r \in Requests, r.kind = "split", MayApply(t, r)
    PROVE  /\ Applied(t, r).ops = t.ops \cup {r}
           /\ Applied(t, r).links = t.links \cup {<<r, r.result>>}
           /\ \A m \in Mentions : Applied(t, r).home[m] =
                  IF m \in r.members THEN r.result ELSE t.home[m]
           /\ \A e \in Events : Applied(t, r).event[e] =
                  IF e = r.result THEN [status |-> "needs_review", into |-> NoEvent]
                  ELSE t.event[e]
  <1> DEFINE fresh == [status |-> "needs_review", into |-> NoEvent]
             created == Created(t, r)
             moved == Moved(created, r)
             marked == Marked(moved, r)
             restated == Restated(marked, r, t)
             decided == Decided(restated, r, t)
  <1>1. Applied(t, r) = Recorded(decided, r)
    BY DEF Applied
  <1>2. r.members \subseteq Mentions /\ r.primary \in Events /\ r.result \in Events
        /\ r.primary # r.result /\ r.kind # "merge"
    BY PayloadFields
  <1>3. \A m \in r.members : t.home[m] = r.primary
    BY <1>2 DEF MayApply, Fits, SplitFits, MentionsOf
  <1>4. /\ created.event = [t.event EXCEPT ![r.result] = fresh] /\ created.home = t.home
        /\ created.ops = t.ops /\ created.links = t.links /\ created.art = t.art
        /\ created \in TablesType
    BY CreatedTyped DEF Created, TablesType
  <1>5. /\ moved.event = created.event /\ moved.ops = t.ops /\ moved.links = t.links
        /\ moved.art = t.art /\ moved \in TablesType
        /\ moved.home = [m \in Mentions |-> IF m \in r.members THEN r.result ELSE t.home[m]]
    BY <1>2, <1>3, <1>4, MovedTyped DEF Moved, Leaves, TablesType
  <1>6. /\ marked.ops = t.ops /\ marked.home = moved.home /\ marked.art = t.art
        /\ marked.links = t.links \cup {<<r, r.result>>}
        /\ marked.event = created.event /\ marked \in TablesType
    <2>1. [e \in Events |-> moved.event[e]] = moved.event
      BY <1>5 DEF TablesType
    <2>2. {r} \X {r.result} = {<<r, r.result>>}
      OBVIOUS
    <2>3. marked = [moved EXCEPT !.links = t.links \cup {<<r, r.result>>},
                                 !.event = moved.event]
      BY <1>2, <1>5, <2>1, <2>2 DEF Marked, Linked
    <2>4. marked \in TablesType
      BY <1>5, MarkedTyped
    <2> QED
      BY <1>5, <2>3, <2>4 DEF TablesType
  <1>7. /\ restated.ops = t.ops /\ restated.home = moved.home /\ restated.art = t.art
        /\ restated.links = marked.links /\ restated.event = marked.event
    <2>1. marked.event[r.primary] = t.event[r.primary]
      BY <1>2, <1>4, <1>6 DEF TablesType
    <2>2. [marked.event[r.primary] EXCEPT !.into = t.event[r.primary].into]
             = marked.event[r.primary]
      BY <1>2, <2>1 DEF TablesType, EventRow
    <2>3. marked.event = [marked.event EXCEPT ![r.primary] = marked.event[r.primary]]
      BY <1>6 DEF TablesType
    <2>4. restated = [marked EXCEPT !.event = [marked.event EXCEPT ![r.primary] =
                         IF Present(marked, r.primary)
                         THEN [marked.event[r.primary] EXCEPT
                                  !.into = t.event[r.primary].into]
                         ELSE marked.event[r.primary]]]
      BY DEF Restated
    <2>5. restated = [marked EXCEPT !.event = marked.event]
      BY <2>2, <2>3, <2>4
    <2> QED
      BY <1>6, <2>5 DEF TablesType
  <1>8. /\ decided.ops = t.ops /\ decided.home = moved.home
        /\ decided.links = marked.links /\ decided.event = marked.event
    BY <1>6, <1>7, PayloadFields DEF Decided, TablesType, Restated
  <1> QED
    BY <1>1, <1>2, <1>4, <1>5, <1>6, <1>8 DEF Recorded, TablesType

(* What a whole apply leaves of the artifacts *)
LEMMA AppliedArtifacts ==
    ASSUME NEW t \in TablesType, NEW r \in Requests, MayApply(t, r), NEW d \in Decisions
    PROVE  Applied(t, r).art[d] =
              IF d = r.decision
              THEN [status |-> "resolved", cands |-> t.art[d].cands, applied |-> r]
              ELSE t.art[d]
  <1> DEFINE restated == Restated(Marked(Moved(Begun(t, r), r), r), r, t)
  <1>1. restated.art = t.art
    BY DEF Restated, Marked, Moved, Begun, Created, TablesType
  <1>2. Applied(t, r).art = Decided(restated, r, t).art
    BY DEF Applied, Recorded, Begun, Decided, Restated, Marked, Moved, Created
  <1>3. r.decision # NoDecision => t.art[r.decision].status # "none"
    BY DEF MayApply, DecisionFits
  <1>4. d # NoDecision
    BY IdentifiersAreTyped
  <1> QED
    BY <1>1, <1>2, <1>3, <1>4 DEF Decided, TablesType

----------------------------------------------------------------------------
(* Each step of the ledger keeps the three facts about the tables *)

Sound(t) == Traced(t) /\ MergesRecorded(t) /\ NothingHidden(t)

(* What an apply does, field by field *)
LEMMA AppliedDecision ==
    ASSUME NEW t \in TablesType, NEW r \in Requests, MayApply(t, r), NEW d \in Decisions
    PROVE  /\ d = r.decision => /\ Applied(t, r).art[d].status = "resolved"
                                /\ Applied(t, r).art[d].applied = r
           /\ d # r.decision => Applied(t, r).art[d] = t.art[d]
  <1>1. CASE d = r.decision
    <2>1. Applied(t, r).art[d] =
              [status |-> "resolved", cands |-> t.art[d].cands, applied |-> r]
      BY <1>1, AppliedArtifacts
    <2> QED
      BY <1>1, <2>1
  <1>2. CASE d # r.decision
    BY <1>2, AppliedArtifacts
  <1> QED
    BY <1>1, <1>2

LEMMA AppliedLog ==
    ASSUME NEW t \in TablesType, NEW r \in Requests, MayApply(t, r)
    PROVE  /\ Applied(t, r).ops = t.ops \cup {r}
           /\ t.links \subseteq Applied(t, r).links
           /\ r.kind = "merge" => \A e \in r.members : <<r, e>> \in Applied(t, r).links
  <1>1. CASE r.kind = "merge"
    <2>1. /\ Applied(t, r).ops = t.ops \cup {r}
          /\ Applied(t, r).links = t.links \cup ({r} \X r.members)
      BY <1>1, AppliedMerge
    <2> QED
      BY <2>1
  <1>2. CASE r.kind = "split"
    BY <1>2, AppliedSplit
  <1> QED
    BY <1>1, <1>2, PayloadFields

LEMMA AppliedEvent ==
    ASSUME NEW t \in TablesType, NEW r \in Requests, MayApply(t, r), NEW e \in Events
    PROVE  \/ r.kind = "merge" /\ e \in r.members /\ Applied(t, r).event[e].status = "merged"
              /\ Applied(t, r).event[e].into = r.primary
           \/ r.kind = "split" /\ e = r.result
              /\ Applied(t, r).event[e].status = "needs_review"
           \/ Applied(t, r).event[e] = t.event[e]
              /\ ~(r.kind = "merge" /\ e \in r.members) /\ ~(r.kind = "split" /\ e = r.result)
  <1>1. CASE r.kind = "merge" /\ e \in r.members
    <2>1. Applied(t, r).event[e] = [status |-> "merged", into |-> r.primary]
      BY <1>1, AppliedMerge
    <2> QED
      BY <1>1, <2>1
  <1>2. CASE r.kind = "merge" /\ e \notin r.members
    <2> USE <1>2
    <2>1. \A x \in Events : Applied(t, r).event[x] = IF x \in r.members
             THEN [status |-> "merged", into |-> r.primary] ELSE t.event[x]
      BY ONLY t \in TablesType, r \in Requests, r.kind = "merge", MayApply(t, r), AppliedMerge
    <2>2. Applied(t, r).event[e] = t.event[e]
      BY <2>1
    <2> QED
      BY <1>2, <2>2
  <1>3. CASE r.kind = "split" /\ e = r.result
    <2>1. Applied(t, r).event[e] = [status |-> "needs_review", into |-> NoEvent]
      BY <1>3, AppliedSplit
    <2> QED
      BY <1>3, <2>1
  <1>4. CASE r.kind = "split" /\ e # r.result
    BY <1>4, AppliedSplit
  <1> QED
    BY <1>1, <1>2, <1>3, <1>4, PayloadFields

(* A decision that may still be taken has no operation in the log. *)
LEMMA NewDecision ==
    ASSUME NEW t \in TablesType, NEW r \in Requests, MayApply(t, r),
           r.decision # NoDecision
    PROVE  \A o \in t.ops : o.decision # r.decision
  BY DEF MayApply, Existing

LEMMA ApplyTraced ==
    ASSUME NEW t \in TablesType, NEW r \in Requests, MayApply(t, r), Traced(t)
    PROVE  Traced(Applied(t, r))
  <1>1. Applied(t, r).ops = t.ops \cup {r}
    BY AppliedLog
  <1>2. ASSUME NEW d \in Decisions, Applied(t, r).art[d].applied # NoOp
        PROVE  /\ Applied(t, r).art[d].status = "resolved"
               /\ Applied(t, r).art[d].applied \in Applied(t, r).ops
               /\ Applied(t, r).art[d].applied.decision = d
    <2>1. CASE d = r.decision
      BY <1>1, <2>1, AppliedDecision
    <2>2. CASE d # r.decision
      <3>1. Applied(t, r).art[d] = t.art[d]
        BY <2>2, AppliedDecision
      <3> QED
        BY <1>1, <1>2, <3>1 DEF Traced
    <2> QED
      BY <2>1, <2>2
  <1>3. ASSUME NEW o \in Applied(t, r).ops, o.decision # NoDecision
        PROVE  Applied(t, r).art[o.decision].applied = o
    <2>1. o \in Requests
      BY <1>1 DEF TablesType
    <2>2. o.decision \in Decisions
      BY <1>3, <2>1, PayloadFields
    <2>3. CASE o = r
      BY <2>2, <2>3, AppliedDecision
    <2>4. CASE o # r
      <3>1. o \in t.ops
        BY <1>1, <2>4
      <3>2. o.decision # r.decision
        BY <1>3, <3>1, NewDecision
      <3>3. Applied(t, r).art[o.decision] = t.art[o.decision]
        BY <2>2, <3>2, AppliedDecision
      <3> QED
        BY <1>3, <3>1, <3>3 DEF Traced
    <2> QED
      BY <2>3, <2>4
  <1> QED
    BY <1>2, <1>3 DEF Traced

LEMMA ApplyMergesRecorded ==
    ASSUME NEW t \in TablesType, NEW r \in Requests, MayApply(t, r), MergesRecorded(t)
    PROVE  MergesRecorded(Applied(t, r))
  <1> SUFFICES ASSUME NEW e \in Events, Applied(t, r).event[e].status = "merged"
               PROVE  \E o \in Applied(t, r).ops :
                         /\ o.kind = "merge" /\ e \in o.members
                         /\ Applied(t, r).event[e].into = o.primary
                         /\ <<o, e>> \in Applied(t, r).links
    BY DEF MergesRecorded
  <1>1. Applied(t, r).ops = t.ops \cup {r} /\ t.links \subseteq Applied(t, r).links
    BY AppliedLog
  <1>2. CASE r.kind = "merge" /\ e \in r.members
    <2>1. Applied(t, r).event[e].into = r.primary
      BY <1>2, AppliedEvent, PayloadFields
    <2>2. <<r, e>> \in Applied(t, r).links
      BY <1>2, AppliedLog
    <2> QED
      BY <1>1, <1>2, <2>1, <2>2
  <1>3. CASE ~(r.kind = "merge" /\ e \in r.members)
    <2>1. Applied(t, r).event[e] = t.event[e]
      BY <1>3, AppliedEvent
    <2>2. PICK o \in t.ops : /\ o.kind = "merge" /\ e \in o.members
                             /\ t.event[e].into = o.primary /\ <<o, e>> \in t.links
      BY <2>1 DEF MergesRecorded
    <2> QED
      BY <1>1, <2>1, <2>2
  <1> QED
    BY <1>2, <1>3

LEMMA ApplyNothingHidden ==
    ASSUME NEW t \in TablesType, NEW r \in Requests, MayApply(t, r), NothingHidden(t)
    PROVE  NothingHidden(Applied(t, r))
  <1> DEFINE u == Applied(t, r)
  <1> SUFFICES ASSUME NEW m \in Mentions, u.home[m] # NoEvent
               PROVE  /\ Present(u, u.home[m])
                      /\ u.event[u.home[m]].status = "merged" =>
                            \E o \in u.ops : o.kind = "merge" /\ o.primary = u.home[m]
    BY DEF NothingHidden
  <1>1. CASE r.kind = "merge"
    <2>1. /\ u.ops = t.ops \cup {r}
          /\ u.home[m] = IF t.home[m] \in r.members THEN r.primary ELSE t.home[m]
          /\ \A e \in Events : u.event[e] =
                IF e \in r.members THEN [status |-> "merged", into |-> r.primary] ELSE t.event[e]
      BY <1>1, AppliedMerge
    <2>2. r.primary \in Events \ r.members /\ Present(t, r.primary)
      BY <1>1, PayloadFields DEF MayApply, Fits, MergeFits
    <2>3. CASE t.home[m] \in r.members
      BY <1>1, <2>1, <2>2, <2>3 DEF Present
    <2>4. CASE t.home[m] \notin r.members
      <3>1. t.home[m] \in Events /\ u.home[m] = t.home[m] /\ u.event[t.home[m]] = t.event[t.home[m]]
        BY <2>1, <2>4 DEF TablesType
      <3> QED
        BY <2>1, <3>1 DEF NothingHidden, Present
    <2> QED
      BY <2>3, <2>4
  <1>2. CASE r.kind = "split"
    <2>1. /\ u.ops = t.ops \cup {r}
          /\ u.home[m] = IF m \in r.members THEN r.result ELSE t.home[m]
          /\ \A e \in Events : u.event[e] =
                IF e = r.result THEN [status |-> "needs_review", into |-> NoEvent] ELSE t.event[e]
      BY <1>2, AppliedSplit
    <2>2. r.result \in Events
      BY PayloadFields
    <2>3. CASE u.home[m] = r.result
      BY <2>1, <2>2, <2>3 DEF Present
    <2>4. CASE u.home[m] # r.result
      <3>1. t.home[m] \in Events /\ u.home[m] = t.home[m] /\ u.event[t.home[m]] = t.event[t.home[m]]
        BY <2>1, <2>4 DEF TablesType
      <3> QED
        BY <2>1, <3>1 DEF NothingHidden, Present
    <2> QED
      BY <2>3, <2>4
  <1> QED
    BY <1>1, <1>2, PayloadFields

(* An upsert is kept from detaching an operation, and names none but the one *)
(* the artifact has.                                                         *)
LEMMA UpsertSound ==
    ASSUME NEW t \in TablesType, NEW d \in Decisions, NEW row \in ArtifactRow,
           row.applied \in {NoOp, t.art[d].applied}, MayUpsert(t, d, row), Sound(t)
    PROVE  Sound(Upserted(t, d, row))
  <1> DEFINE u == Upserted(t, d, row)
  <1>1. /\ u.event = t.event /\ u.home = t.home /\ u.ops = t.ops /\ u.links = t.links
        /\ \A b \in Decisions : u.art[b] = IF b = d THEN row ELSE t.art[b]
    BY DEF Upserted, TablesType
  <1>2. MergesRecorded(u) /\ NothingHidden(u)
    BY <1>1 DEF Sound, MergesRecorded, NothingHidden, Present
  <1>3. t.art[d].applied # NoOp => row.status = "resolved" /\ row.applied = t.art[d].applied
    BY DEF MayUpsert, DetachesOperation, Sound, Traced
  <1>4. t.art[d].applied = NoOp => row.applied = NoOp
    OBVIOUS
  <1>5. \A b \in Decisions : u.art[b].applied = t.art[b].applied
                            /\ (t.art[b].applied # NoOp => u.art[b].status = "resolved")
    BY <1>1, <1>3, <1>4 DEF Sound, Traced
  <1>6. \A o \in t.ops : o.decision # NoDecision => o.decision \in Decisions
    BY PayloadFields DEF TablesType
  <1>7. Traced(u)
    BY <1>1, <1>5, <1>6 DEF Sound, Traced
  <1> QED
    BY <1>2, <1>7 DEF Sound

(* A projection puts a mention under an event it makes active. *)
LEMMA ProjectSound ==
    ASSUME NEW t \in TablesType, NEW rows \in SUBSET Mentions, Sound(t)
    PROVE  Sound(Projected(t, rows))
  <1> DEFINE u == Projected(t, rows)
  <1>1. /\ u.art = t.art /\ u.ops = t.ops /\ u.links = t.links
        /\ \A e \in Events : u.event[e] = IF \E m \in rows : Group[m] = e
               THEN [status |-> "active", into |-> NoEvent] ELSE t.event[e]
        /\ \A m \in Mentions : u.home[m] = IF m \in rows THEN Group[m] ELSE t.home[m]
    BY DEF Projected, TablesType
  <1>2. Traced(u)
    BY <1>1 DEF Sound, Traced
  <1>3. MergesRecorded(u)
    <2> SUFFICES ASSUME NEW e \in Events, u.event[e].status = "merged"
                 PROVE  \E o \in u.ops : /\ o.kind = "merge" /\ e \in o.members
                                         /\ u.event[e].into = o.primary
                                         /\ <<o, e>> \in u.links
      BY DEF MergesRecorded
    <2>1. CASE \E m \in rows : Group[m] = e
      <3>1. u.event[e] = [status |-> "active", into |-> NoEvent]
        BY <1>1, <2>1
      <3> QED
        BY <3>1
    <2>2. CASE ~\E m \in rows : Group[m] = e
      <3>1. u.event[e] = t.event[e]
        BY <1>1, <2>2
      <3> QED
        BY <1>1, <3>1 DEF Sound, MergesRecorded
    <2> QED
      BY <2>1, <2>2
  <1>4. ASSUME NEW m \in Mentions, u.home[m] # NoEvent
        PROVE  /\ Present(u, u.home[m])
               /\ u.event[u.home[m]].status = "merged" =>
                     \E o \in u.ops : o.kind = "merge" /\ o.primary = u.home[m]
    <2>1. u.home[m] \in Events
      BY <1>4, ProjectedTyped DEF TablesType
    <2>2. CASE \E n \in rows : Group[n] = u.home[m]
      BY <1>1, <2>1, <2>2 DEF Present
    <2>3. CASE ~\E n \in rows : Group[n] = u.home[m]
      <3>1. u.home[m] = t.home[m] /\ u.event[u.home[m]] = t.event[t.home[m]]
        BY <1>1, <2>1, <2>3
      <3> QED
        BY <1>1, <1>4, <3>1 DEF Sound, NothingHidden, Present
    <2> QED
      BY <2>2, <2>3
  <1>5. NothingHidden(u)
    BY <1>4 DEF NothingHidden
  <1> QED
    BY <1>2, <1>3, <1>5 DEF Sound

----------------------------------------------------------------------------
(* Types, whether calls overlap or not *)

Applying == {"begin", "plan", "create", "move", "mark", "restate", "decide", "record", "commit"}
Curating == {"check", "upsert", "save"}
(* A call at work has what it works on. *)
Fitting == {v \in CallType : /\ v.stage \in Applying => v.req \in Requests
                             /\ v.stage \in Curating => v.decision \in Decisions}
TypeInv == /\ live \in TablesType /\ disk \in TablesType
           /\ txn \in BOOLEAN /\ call \in [Callers -> Fitting]

LEMMA IdleTyped == Idle \in Fitting
  BY EmptyTyped DEF Idle, CallType, NoPlan, PlanType, NoArtifact, TablesType, ArtifactRow,
                    Candidates, Stages, Fitting, Applying, Curating

LEMMA CallKept ==
    ASSUME NEW f \in [Callers -> Fitting], NEW c \in Callers, NEW v \in Fitting
    PROVE  [f EXCEPT ![c] = v] \in [Callers -> Fitting]
  OBVIOUS

LEMMA GotoTyped ==
    ASSUME call \in [Callers -> Fitting], NEW c \in Callers, NEW s \in Stages, Goto(c, s),
           s \in Applying => call[c].req \in Requests,
           s \in Curating => call[c].decision \in Decisions
    PROVE  call' \in [Callers -> Fitting]
  <1>1. [call[c] EXCEPT !.stage = s] \in Fitting
    BY DEF Fitting, CallType
  <1> QED
    BY <1>1 DEF Goto

LEMMA AnswerTyped ==
    ASSUME call \in [Callers -> Fitting], NEW c \in Callers,
           NEW told \in {"nothing", "applied", "refused", "failed", "saved"}, Answer(c, told)
    PROVE  call' \in [Callers -> Fitting]
  <1>1. [Idle EXCEPT !.req = call[c].req, !.told = told] \in Fitting
    BY IdleTyped DEF CallType, Idle, Fitting, Applying, Curating
  <1> QED
    BY <1>1 DEF Answer

LEMMA PatchedTyped ==
    ASSUME NEW row \in ArtifactRow, NEW status \in ArtifactStatus, NEW cands \in Candidates,
           NEW keepsMetadata \in BOOLEAN
    PROVE  PatchedRow(row, status, cands, keepsMetadata) \in ArtifactRow
  BY DEF PatchedRow, ArtifactRow

LEMMA CallFields ==
    ASSUME TypeInv, NEW c \in Callers
    PROVE  /\ call[c].plan \in PlanType /\ call[c].row \in ArtifactRow
           /\ call[c].stage \in Stages
           /\ call[c].stage \in Applying => call[c].req \in Requests
           /\ call[c].stage \in Curating => call[c].decision \in Decisions
  <1>1. call[c] \in Fitting
    BY DEF TypeInv
  <1>2. ASSUME NEW v \in Fitting
        PROVE  /\ v \in CallType
               /\ v.stage \in Applying => v.req \in Requests
               /\ v.stage \in Curating => v.decision \in Decisions
    BY DEF Fitting
  <1> QED
    BY <1>1, <1>2 DEF CallType

(* A statement that writes keeps the types if what it writes is typed. *)
LEMMA WriteTyped ==
    ASSUME TypeInv, NEW c \in Callers, NEW t \in TablesType, NEW s \in Stages, Write(c, t, s),
           s \in Applying => call[c].req \in Requests,
           s \in Curating => call[c].decision \in Decisions
    PROVE  TypeInv'
  BY GotoTyped DEF Write, TypeInv

LEMMA FailTyped ==
    ASSUME TypeInv, NEW c \in Callers, Fail(c) PROVE TypeInv'
  <1>1. "rollback" \in Stages /\ "rollback" \notin Applying /\ "rollback" \notin Curating
    BY DEF Stages, Applying, Curating
  <1> QED
    BY <1>1, GotoTyped DEF Fail, TypeInv

LEMMA TypeInvStep == TypeInv /\ [Next]_vars => TypeInv'
  <1> SUFFICES ASSUME TypeInv, [Next]_vars PROVE TypeInv'
    OBVIOUS
  <1>1. ASSUME NEW c \in Callers, NEW r \in Requests, SubmitApply(c, r) PROVE TypeInv'
    <2>1. [Idle EXCEPT !.stage = "begin", !.req = r] \in Fitting
      BY IdleTyped DEF CallType, Stages, Idle, Fitting, Applying, Curating
    <2> QED
      BY <1>1, <2>1, CallKept DEF SubmitApply, TypeInv
  <1>2. ASSUME NEW c \in Callers, NEW d \in Decisions, NEW status \in ArtifactStatus,
               SubmitArtifact(c, d, status) PROVE TypeInv'
    <2>1. [status |-> status, cands |-> d.cands, applied |-> NoOp] \in ArtifactRow
      BY IdentifiersAreTyped DEF ArtifactRow
    <2>2. [Idle EXCEPT !.stage = "check", !.decision = d,
            !.row = [status |-> status, cands |-> d.cands, applied |-> NoOp]] \in Fitting
      BY IdleTyped, <2>1 DEF CallType, Stages, Idle, Fitting, Applying, Curating
    <2> QED
      BY <1>2, <2>2, CallKept DEF SubmitArtifact, TypeInv
  <1>3. ASSUME NEW c \in Callers, NEW d \in Decisions, NEW status \in ArtifactStatus,
               NEW cands \in PatchCandidates, NEW keepsMetadata \in BOOLEAN,
               SubmitPatch(c, d, status, cands, keepsMetadata) PROVE TypeInv'
    <2>1. cands \in Candidates
      BY PayloadFields DEF PatchCandidates
    <2>2. live.art[d] \in ArtifactRow
      BY DEF TablesType, TypeInv
    <2>3. PatchedRow(live.art[d], status, cands, keepsMetadata) \in ArtifactRow
      BY <2>1, <2>2, PatchedTyped
    <2>4. [Idle EXCEPT !.stage = "check", !.decision = d,
            !.row = PatchedRow(live.art[d], status, cands, keepsMetadata)] \in Fitting
      BY IdleTyped, <2>3 DEF CallType, Stages, Idle, Fitting, Applying, Curating
    <2> QED
      BY <1>3, <2>4, CallKept DEF SubmitPatch, TypeInv
  <1>4. ASSUME NEW c \in Callers, Statement(c) PROVE TypeInv'
    <2> DEFINE r == call[c].req
    <2> USE CallFields DEF Applying, Curating, Stages
    <2>1. CASE Begin(c)
      BY <2>1, GotoTyped, AnswerTyped DEF Begin, TypeInv
    <2>2. CASE Plan(c)
      <3>1. ASSUME NEW s \in {"commit", "rollback"}, Goto(c, s), call[c].stage = "plan"
            PROVE call' \in [Callers -> Fitting]
        BY <3>1, GotoTyped DEF TypeInv
      <3>2. ASSUME NEW s \in {"create", "move"}, call[c].stage = "plan",
                   call' = [call EXCEPT ![c].stage = s,
                      ![c].plan = [event |-> live.event, art |-> live.art]]
            PROVE  call' \in [Callers -> Fitting]
        <4>1. [event |-> live.event, art |-> live.art] \in PlanType
          BY DEF TablesType, PlanType, TypeInv
        <4>2. [call[c] EXCEPT !.stage = s, !.plan = [event |-> live.event, art |-> live.art]]
                 \in Fitting
          BY <3>2, <4>1 DEF CallType, Fitting, TypeInv
        <4> QED
          BY <3>2, <4>2 DEF TypeInv
      <3> QED
        BY <2>2, <3>1, <3>2 DEF Plan, TypeInv
    <2>3. CASE Create(c)
      BY <2>3, CreatedTyped, WriteTyped DEF Create, TypeInv
    <2>4. CASE Move(c)
      BY <2>4, MovedTyped, WriteTyped, FailTyped DEF Move, TypeInv
    <2>5. CASE Mark(c)
      BY <2>5, MarkedTyped, WriteTyped, FailTyped DEF Mark, TypeInv
    <2>6. CASE Restate(c)
      BY <2>6, RestatedTyped, WriteTyped DEF Restate, TypeInv
    <2>7. CASE Decide(c)
      BY <2>7, DecidedTyped, WriteTyped DEF Decide, TypeInv
    <2>8. CASE Record(c)
      BY <2>8, RecordedTyped, WriteTyped, FailTyped DEF Record, TypeInv
    <2>9. CASE Commit(c)
      BY <2>9, AnswerTyped DEF Commit, TypeInv
    <2>10. CASE Rollback(c)
      BY <2>10, AnswerTyped DEF Rollback, TypeInv
    <2>11. CASE CheckArtifact(c)
      BY <2>11, GotoTyped, AnswerTyped DEF CheckArtifact, TypeInv
    <2>12. CASE UpsertArtifact(c)
      BY <2>12, UpsertedTyped, WriteTyped DEF UpsertArtifact, TypeInv
    <2>13. CASE SaveArtifact(c)
      BY <2>13, AnswerTyped DEF SaveArtifact, TypeInv
    <2> QED
      BY <1>4, <2>1, <2>2, <2>3, <2>4, <2>5, <2>6, <2>7, <2>8, <2>9, <2>10, <2>11, <2>12, <2>13
         DEF Statement
  <1>5. ASSUME NEW rows \in SUBSET Mentions, Project(rows) PROVE TypeInv'
    BY <1>5, ProjectedTyped DEF Project, TypeInv
  <1>6. CASE Crash
    BY <1>6, IdleTyped DEF Crash, TypeInv
  <1>7. CASE UNCHANGED vars
    BY <1>7 DEF vars, TypeInv
  <1> QED
    BY <1>1, <1>2, <1>3, <1>4, <1>5, <1>6, <1>7 DEF Next, Submit

LEMMA TypeInvInit == Init => TypeInv
  BY EmptyTyped, IdleTyped DEF Init, TypeInv

(* The variables keep their types, however the calls overlap. *)
THEOREM CanonicalTypeCorrect == Spec => []TypeOK
  <1>1. TypeInv => TypeOK
    BY DEF TypeInv, TypeOK, Fitting
  <1> QED
    BY <1>1, TypeInvInit, TypeInvStep, PTL DEF Spec
----------------------------------------------------------------------------
(* When clients wait for their answers, one handler works at a time: what   *)
(* it has written so far is a prefix of Applied on what is on disk, which   *)
(* nobody else changes while its transaction is open.                       *)

InTxn == {"plan", "create", "move", "mark", "restate", "decide", "record", "commit",
          "rollback", "save"}
Planned == {"create", "move", "mark", "restate", "decide", "record"}

MovedNow(r) == Moved(Begun(disk, r), r)
MarkedNow(r) == Marked(MovedNow(r), r)
RestatedNow(r) == Restated(MarkedNow(r), r, PlanOf(disk))
DecidedNow(r) == Decided(RestatedNow(r), r, PlanOf(disk))

RowFits(c) == /\ call[c].row.status # "none"
              /\ call[c].row.applied \in {NoOp, disk.art[call[c].decision].applied}

Progress(c) ==
    LET s == call[c].stage
        r == call[c].req
    IN  /\ s \in InTxn => txn
        /\ s \in {"check", "upsert"} => ~txn
        /\ s = "plan" => live = disk
        /\ s \in Planned => MayApply(disk, r) /\ call[c].plan = PlanOf(disk)
        /\ s = "create" => live = disk /\ r.kind = "split"
        /\ s = "move" => live = Begun(disk, r)
        /\ s = "mark" => live = MovedNow(r)
        /\ s = "restate" => live = MarkedNow(r)
        /\ s = "decide" => live = RestatedNow(r)
        /\ s = "record" => live = DecidedNow(r)
        /\ s = "commit" => \/ live = disk /\ r \in disk.ops
                           \/ live = Applied(disk, r) /\ MayApply(disk, r)
        /\ s \in Curating => RowFits(c)
        /\ s \in {"upsert", "save"} => MayUpsert(disk, call[c].decision, call[c].row)
        /\ s = "save" => live = Upserted(disk, call[c].decision, call[c].row)
        /\ call[c].told = "applied" => r \in disk.ops

SerialInv ==
    /\ TypeInv
    /\ Sound(disk)
    /\ \A b, c \in Callers : ~Resting(b) /\ ~Resting(c) => b = c
    /\ txn => \E c \in Callers : call[c].stage \in InTxn
    /\ ~txn => live = disk
    /\ \A c \in Callers : Progress(c)

LEMMA GotoCall ==
    ASSUME TypeInv, NEW c \in Callers, NEW s, Goto(c, s)
    PROVE  /\ call'[c].stage = s /\ call'[c].req = call[c].req
           /\ call'[c].plan = call[c].plan /\ call'[c].row = call[c].row
           /\ call'[c].decision = call[c].decision /\ call'[c].told = call[c].told
           /\ \A b \in Callers : b # c => call'[b] = call[b]
  BY DEF Goto, TypeInv, Fitting, CallType

LEMMA AnswerCall ==
    ASSUME TypeInv, NEW c \in Callers, NEW told, Answer(c, told)
    PROVE  /\ call'[c].stage = "idle" /\ call'[c].req = call[c].req /\ call'[c].told = told
           /\ \A b \in Callers : b # c => call'[b] = call[b]
  BY DEF Answer, TypeInv, Idle

(* What one handler must show of its own step *)
LEMMA OneHandler ==
    ASSUME SerialInv, TypeInv', Sound(disk)', NEW c \in Callers, ~Resting(c),
           \A b \in Callers : b # c => call'[b] = call[b],
           disk.ops \subseteq disk'.ops,
           txn' => call'[c].stage \in InTxn, ~txn' => live' = disk', Progress(c)'
    PROVE  SerialInv'
  <1>1. ASSUME NEW b \in Callers, b # c PROVE call'[b].stage = "idle" /\ call'[b] = call[b]
    BY <1>1 DEF SerialInv, Resting
  <1>2. \A a, b \in Callers : ~Resting(a)' /\ ~Resting(b)' => a = b
    BY <1>1 DEF Resting
  <1>3. ASSUME NEW b \in Callers, b # c PROVE Progress(b)'
    <2>1. call[b].told = "applied" => call[b].req \in disk'.ops
      BY <1>3 DEF SerialInv, Progress
    <2> QED
      BY <1>1, <1>3, <2>1 DEF Progress, InTxn, Planned, Curating
  <1>4. txn' => \E b \in Callers : call'[b].stage \in InTxn
    OBVIOUS
  <1> QED
    BY <1>2, <1>3, <1>4 DEF SerialInv

(* A write inside the transaction *)
LEMMA WriteProgress ==
    ASSUME SerialInv, TypeInv', NEW c \in Callers, ~Resting(c), NEW t, NEW s \in InTxn, Write(c, t, s),
           Progress(c)'
    PROVE  SerialInv'
  <1>1. call'[c].stage = s /\ \A b \in Callers : b # c => call'[b] = call[b]
    BY GotoCall DEF Write, SerialInv
  <1> QED
    BY <1>1, OneHandler DEF Write, SerialInv
(* The statements of an apply: each writes the next prefix of Applied. *)
LEMMA StepCreate ==
    ASSUME SerialInv, TypeInv', NEW c \in Callers, Create(c) PROVE SerialInv'
  <1>1. Progress(c) /\ live = disk /\ call[c].req.kind = "split"
    BY DEF SerialInv, Create, Progress
  <1>2. Write(c, Created(live, call[c].req), "move") /\ Goto(c, "move")
    BY DEF Create, Write
  <1>3. live' = Begun(disk, call[c].req) /\ txn' /\ disk' = disk
    BY <1>1, <1>2 DEF Write, Begun
  <1>4. Progress(c)'
    BY <1>1, <1>2, <1>3, GotoCall DEF Create, Progress, SerialInv, InTxn, Planned, Curating
  <1> QED
    BY <1>2, <1>4, WriteProgress DEF InTxn, Create, Resting

LEMMA StepFail ==
    ASSUME SerialInv, TypeInv', NEW c \in Callers, Fail(c), call[c].stage \in Planned
    PROVE  SerialInv'
  <1>1. Progress(c) /\ Goto(c, "rollback") /\ UNCHANGED <<live, disk, txn>>
    BY DEF SerialInv, Fail
  <1>2. /\ call'[c].stage = "rollback" /\ call'[c].told = call[c].told
        /\ call'[c].req = call[c].req /\ \A b \in Callers : b # c => call'[b] = call[b]
    BY <1>1, GotoCall DEF SerialInv
  <1>3. txn
    BY <1>1 DEF Progress, Planned, InTxn
  <1>4. Progress(c)'
    BY <1>1, <1>2, <1>3 DEF Progress, InTxn, Planned, Curating
  <1> QED
    BY <1>1, <1>2, <1>3, <1>4, OneHandler DEF InTxn, Planned, Resting, SerialInv

LEMMA StepMove ==
    ASSUME SerialInv, TypeInv', NEW c \in Callers, Move(c) PROVE SerialInv'
  <1>1. Progress(c) /\ live = Begun(disk, call[c].req)
    BY DEF SerialInv, Move, Progress
  <1>2. CASE Fail(c)
    BY <1>2, StepFail DEF Move, Planned
  <1>3. CASE Write(c, Moved(live, call[c].req), "mark")
    <2>1. live' = MovedNow(call[c].req) /\ txn' /\ disk' = disk /\ Goto(c, "mark")
      BY <1>1, <1>3 DEF Write, MovedNow
    <2>2. Progress(c)'
      BY <1>1, <2>1, GotoCall DEF Move, Progress, SerialInv, InTxn, Planned, Curating, MovedNow
    <2> QED
      BY <1>3, <2>2, WriteProgress DEF InTxn, Move, Resting
  <1> QED
    BY <1>2, <1>3 DEF Move

LEMMA StepMark ==
    ASSUME SerialInv, TypeInv', NEW c \in Callers, Mark(c) PROVE SerialInv'
  <1>1. Progress(c) /\ live = MovedNow(call[c].req)
    BY DEF SerialInv, Mark, Progress
  <1>2. CASE Fail(c)
    BY <1>2, StepFail DEF Mark, Planned
  <1>3. CASE Write(c, Marked(live, call[c].req), "restate")
    <2>1. live' = MarkedNow(call[c].req) /\ txn' /\ disk' = disk /\ Goto(c, "restate")
      BY <1>1, <1>3 DEF Write, MarkedNow
    <2>2. Progress(c)'
      BY <1>1, <2>1, GotoCall
         DEF Mark, Progress, SerialInv, InTxn, Planned, Curating, MarkedNow, MovedNow
    <2> QED
      BY <1>3, <2>2, WriteProgress DEF InTxn, Mark, Resting
  <1> QED
    BY <1>2, <1>3 DEF Mark

LEMMA StepRestate ==
    ASSUME SerialInv, TypeInv', NEW c \in Callers, Restate(c) PROVE SerialInv'
  <1>1. Progress(c) /\ live = MarkedNow(call[c].req) /\ call[c].plan = PlanOf(disk)
    BY DEF SerialInv, Restate, Progress, Planned
  <1>2. Write(c, Restated(live, call[c].req, call[c].plan), "decide")
    BY DEF Restate
  <1>3. live' = RestatedNow(call[c].req) /\ txn' /\ disk' = disk /\ Goto(c, "decide")
    BY <1>1, <1>2 DEF Write, RestatedNow
  <1>4. Progress(c)'
    BY <1>1, <1>3, GotoCall DEF Restate, Progress, SerialInv, InTxn, Planned, Curating,
                              RestatedNow, MarkedNow, MovedNow
  <1> QED
    BY <1>2, <1>4, WriteProgress DEF InTxn, Restate, Resting

LEMMA StepDecide ==
    ASSUME SerialInv, TypeInv', NEW c \in Callers, Decide(c) PROVE SerialInv'
  <1>1. Progress(c) /\ live = RestatedNow(call[c].req) /\ call[c].plan = PlanOf(disk)
    BY DEF SerialInv, Decide, Progress, Planned
  <1>2. Write(c, Decided(live, call[c].req, call[c].plan), "record")
    BY DEF Decide
  <1>3. live' = DecidedNow(call[c].req) /\ txn' /\ disk' = disk /\ Goto(c, "record")
    BY <1>1, <1>2 DEF Write, DecidedNow
  <1>4. Progress(c)'
    BY <1>1, <1>3, GotoCall DEF Decide, Progress, SerialInv, InTxn, Planned, Curating,
                              DecidedNow, RestatedNow, MarkedNow, MovedNow
  <1> QED
    BY <1>2, <1>4, WriteProgress DEF InTxn, Decide, Resting

LEMMA StepRecord ==
    ASSUME SerialInv, TypeInv', NEW c \in Callers, Record(c) PROVE SerialInv'
  <1>1. Progress(c) /\ live = DecidedNow(call[c].req) /\ MayApply(disk, call[c].req)
        /\ call[c].req \in Requests /\ disk \in TablesType
    BY CallFields DEF SerialInv, Record, Progress, Planned, Applying, TypeInv
  <1>2. CASE Fail(c)
    BY <1>2, StepFail DEF Record, Planned
  <1>3. CASE Write(c, Recorded(live, call[c].req), "commit")
    <2>1. Recorded(DecidedNow(call[c].req), call[c].req) = Applied(disk, call[c].req)
      BY <1>1, StatementsAreApplied DEF DecidedNow, RestatedNow, MarkedNow, MovedNow
    <2>2. live' = Applied(disk, call[c].req) /\ txn' /\ disk' = disk /\ Goto(c, "commit")
      BY <1>1, <1>3, <2>1 DEF Write
    <2>3. Progress(c)'
      BY <1>1, <2>2, GotoCall DEF Record, Progress, SerialInv, InTxn, Planned, Curating
    <2> QED
      BY <1>3, <2>3, WriteProgress DEF InTxn, Record, Resting
  <1> QED
    BY <1>2, <1>3 DEF Record

LEMMA StepBegin ==
    ASSUME SerialInv, TypeInv', NEW c \in Callers, Begin(c) PROVE SerialInv'
  <1> USE DEF Begin, SerialInv
  <1>1. Sound(disk)' /\ ~Resting(c) /\ disk.ops \subseteq disk'.ops
    BY DEF Resting
  <1>2. CASE txn
    <2>1. PICK b \in Callers : call[b].stage \in InTxn
      BY <1>2
    <2>2. FALSE
      BY <1>1, <2>1 DEF InTxn, Resting
    <2> QED
      BY <2>2
  <1>3. CASE ~txn
    <2>1. Goto(c, "plan") /\ txn' /\ live' = disk' /\ disk' = disk
      BY <1>3
    <2>2. Progress(c)'
      BY <2>1, GotoCall DEF Progress, InTxn, Planned, Curating
    <2> QED
      BY <1>1, <2>1, <2>2, GotoCall, OneHandler DEF InTxn
  <1> QED
    BY <1>2, <1>3

LEMMA StepPlan ==
    ASSUME SerialInv, TypeInv', NEW c \in Callers, Plan(c) PROVE SerialInv'
  <1> DEFINE r == call[c].req
  <1>1. Progress(c) /\ live = disk /\ txn /\ ~Resting(c) /\ UNCHANGED <<live, disk, txn>>
        /\ Sound(disk)' /\ disk.ops \subseteq disk'.ops
    BY DEF SerialInv, Plan, Progress, InTxn, Resting
  <1>2. CASE RepeatsExisting(live, r) /\ Goto(c, "commit")
    <2>1. r \in disk.ops
      BY <1>1, <1>2 DEF RepeatsExisting, Existing
    <2>2. Progress(c)'
      BY <1>1, <1>2, <2>1, GotoCall DEF Progress, SerialInv, InTxn, Planned, Curating
    <2> QED
      BY <1>1, <1>2, <2>2, GotoCall, OneHandler DEF InTxn, SerialInv
  <1>3. CASE /\ MayApply(live, r)
             /\ call' = [call EXCEPT ![c].stage = IF r.kind = "split" THEN "create" ELSE "move",
                                     ![c].plan = [event |-> live.event, art |-> live.art]]
    <2> DEFINE s == IF r.kind = "split" THEN "create" ELSE "move"
    <2>1. /\ call'[c].stage = s /\ call'[c].req = r /\ call'[c].plan = PlanOf(disk)
          /\ call'[c].told = call[c].told
          /\ \A b \in Callers : b # c => call'[b] = call[b]
      BY <1>1, <1>3 DEF SerialInv, TypeInv, Fitting, CallType, PlanOf
    <2>2. s = "move" => disk = Begun(disk, r)
      BY DEF Begun
    <2>3. Progress(c)'
      BY <1>1, <1>3, <2>1, <2>2 DEF Progress, InTxn, Planned, Curating
    <2> QED
      BY <1>1, <2>1, <2>3, OneHandler DEF InTxn
  <1>4. CASE Goto(c, "rollback")
    <2>1. Progress(c)'
      BY <1>1, <1>4, GotoCall DEF Progress, SerialInv, InTxn, Planned, Curating
    <2> QED
      BY <1>1, <1>4, <2>1, GotoCall, OneHandler DEF InTxn, SerialInv
  <1> QED
    BY <1>2, <1>3, <1>4 DEF Plan
LEMMA StepCommit ==
    ASSUME SerialInv, TypeInv', NEW c \in Callers, Commit(c) PROVE SerialInv'
  <1> DEFINE r == call[c].req
  <1>1. Progress(c) /\ ~Resting(c) /\ r \in Requests /\ disk \in TablesType /\ Sound(disk)
    BY CallFields DEF SerialInv, Commit, Resting, Applying, TypeInv
  <1>2. disk' = live /\ live' = live /\ ~txn' /\ Answer(c, "applied")
    BY DEF Commit
  <1>3. \/ disk' = disk /\ r \in disk.ops
        \/ disk' = Applied(disk, r) /\ MayApply(disk, r)
    BY <1>1, <1>2 DEF Progress, Commit
  <1>4. Sound(disk)' /\ disk.ops \subseteq disk'.ops /\ r \in disk'.ops
    <2>1. CASE disk' = disk /\ r \in disk.ops
      BY <1>1, <2>1
    <2>2. CASE disk' = Applied(disk, r) /\ MayApply(disk, r)
      <3>1. Applied(disk, r).ops = disk.ops \cup {r}
        BY <1>1, <2>2, AppliedLog
      <3>2. Sound(Applied(disk, r))
        BY <1>1, <2>2, ApplyTraced, ApplyMergesRecorded, ApplyNothingHidden DEF Sound
      <3> QED
        BY <2>2, <3>1, <3>2
    <2> QED
      BY <1>3, <2>1, <2>2
  <1>5. Progress(c)'
    BY <1>2, <1>4, AnswerCall DEF Progress, SerialInv, InTxn, Planned, Curating
  <1> QED
    BY <1>1, <1>2, <1>4, <1>5, AnswerCall, OneHandler DEF SerialInv

LEMMA StepAnswer ==
    ASSUME SerialInv, TypeInv', NEW c \in Callers, ~Resting(c),
           NEW told \in {"refused", "saved"}, Answer(c, told),
           disk.ops \subseteq disk'.ops, live' = disk', ~txn', Sound(disk)'
    PROVE  SerialInv'
  <1>1. Progress(c)'
    BY AnswerCall DEF Progress, SerialInv, InTxn, Planned, Curating
  <1> QED
    BY <1>1, AnswerCall, OneHandler DEF SerialInv

LEMMA StepRollback ==
    ASSUME SerialInv, TypeInv', NEW c \in Callers, Rollback(c) PROVE SerialInv'
  BY StepAnswer DEF Rollback, Resting, SerialInv

LEMMA StepCheck ==
    ASSUME SerialInv, TypeInv', NEW c \in Callers, CheckArtifact(c) PROVE SerialInv'
  <1>1. Progress(c) /\ ~txn /\ live = disk /\ ~Resting(c) /\ UNCHANGED <<live, disk, txn>>
        /\ Sound(disk)'
    BY DEF SerialInv, CheckArtifact, Progress, Resting
  <1>2. CASE MayUpsert(live, call[c].decision, call[c].row) /\ Goto(c, "upsert")
    <2>1. Progress(c)'
      BY <1>1, <1>2, GotoCall
         DEF CheckArtifact, Progress, SerialInv, InTxn, Planned, Curating, RowFits
    <2> QED
      BY <1>1, <1>2, <2>1, GotoCall, OneHandler DEF SerialInv
  <1>3. CASE Answer(c, "refused")
    BY <1>1, <1>3, StepAnswer
  <1> QED
    BY <1>2, <1>3 DEF CheckArtifact

LEMMA StepUpsert ==
    ASSUME SerialInv, TypeInv', NEW c \in Callers, UpsertArtifact(c) PROVE SerialInv'
  <1>1. Progress(c) /\ ~txn /\ live = disk
    BY DEF SerialInv, UpsertArtifact, Progress
  <1>2. Write(c, Upserted(live, call[c].decision, call[c].row), "save")
    BY DEF UpsertArtifact
  <1>3. /\ live' = Upserted(disk, call[c].decision, call[c].row) /\ txn' /\ disk' = disk
        /\ Goto(c, "save")
    BY <1>1, <1>2 DEF Write
  <1>4. Progress(c)'
    BY <1>1, <1>3, GotoCall
       DEF UpsertArtifact, Progress, SerialInv, InTxn, Planned, Curating, RowFits
  <1> QED
    BY <1>2, <1>4, WriteProgress DEF InTxn, UpsertArtifact, Resting

LEMMA SavedRow ==
    ASSUME SerialInv, NEW c \in Callers, SaveArtifact(c)
    PROVE  /\ call[c].decision \in Decisions /\ call[c].row \in ArtifactRow
           /\ disk' = Upserted(disk, call[c].decision, call[c].row)
           /\ MayUpsert(disk, call[c].decision, call[c].row) /\ RowFits(c)
  BY CallFields DEF SerialInv, SaveArtifact, Progress, Curating

LEMMA StepSave ==
    ASSUME SerialInv, TypeInv', NEW c \in Callers, SaveArtifact(c) PROVE SerialInv'
  <1>1. Sound(disk) /\ disk \in TablesType
    BY DEF SerialInv, TypeInv
  <1>2. Sound(disk)'
    BY <1>1, SavedRow, UpsertSound DEF RowFits
  <1>3. disk'.ops = disk.ops
    BY <1>1, SavedRow DEF Upserted, TablesType
  <1> QED
    BY <1>2, <1>3, StepAnswer DEF SaveArtifact, Resting

(* A handler starts when all rest, outside any transaction. *)
LEMMA StepSubmit ==
    ASSUME SerialInv, TypeInv', ~Overlap, NEW c \in Callers, MayStart(c),
           UNCHANGED <<live, disk, txn>>,
           \A b \in Callers : b # c => call'[b] = call[b],
           call'[c].told = "nothing",
           \/ call'[c].stage = "begin"
           \/ call'[c].stage = "check" /\ RowFits(c)'
    PROVE  SerialInv'
  <1>1. \A b \in Callers : call[b].stage = "idle"
    BY DEF MayStart, Resting
  <1>2. ~txn
    BY <1>1 DEF SerialInv, InTxn
  <1>3. Progress(c)'
    BY <1>2 DEF Progress, InTxn, Planned, Curating
  <1>4. ASSUME NEW b \in Callers, b # c PROVE Progress(b)'
    BY <1>1, <1>4 DEF SerialInv, Progress, InTxn, Planned, Curating
  <1>5. \A a, b \in Callers : ~Resting(a)' /\ ~Resting(b)' => a = b
    BY <1>1 DEF Resting
  <1> QED
    BY <1>2, <1>3, <1>4, <1>5 DEF SerialInv

LEMMA StepsSubmit ==
    ASSUME SerialInv, TypeInv', ~Overlap, NEW c \in Callers, Submit(c) PROVE SerialInv'
  <1>1. ASSUME NEW r \in Requests, SubmitApply(c, r) PROVE SerialInv'
    <2>1. /\ call'[c].stage = "begin" /\ call'[c].told = "nothing"
          /\ \A b \in Callers : b # c => call'[b] = call[b]
      BY <1>1 DEF SubmitApply, Idle, SerialInv, TypeInv
    <2> QED
      BY <1>1, <2>1, StepSubmit DEF SubmitApply
  <1>2. ASSUME NEW d \in Decisions, NEW status \in ArtifactStatus, SubmitArtifact(c, d, status)
        PROVE  SerialInv'
    <2>1. /\ call'[c].stage = "check" /\ call'[c].told = "nothing"
          /\ call'[c].row = [status |-> status, cands |-> d.cands, applied |-> NoOp]
          /\ \A b \in Callers : b # c => call'[b] = call[b]
      BY <1>2 DEF SubmitArtifact, Idle, SerialInv, TypeInv
    <2>2. RowFits(c)'
      BY <2>1 DEF RowFits, ArtifactStatus
    <2> QED
      BY <1>2, <2>1, <2>2, StepSubmit DEF SubmitArtifact
  <1>3. ASSUME NEW d \in Decisions, NEW status \in ArtifactStatus, NEW cands \in PatchCandidates,
               NEW keepsMetadata \in BOOLEAN, SubmitPatch(c, d, status, cands, keepsMetadata)
        PROVE  SerialInv'
    <2>1. /\ call'[c].stage = "check" /\ call'[c].told = "nothing" /\ call'[c].decision = d
          /\ call'[c].row = PatchedRow(live.art[d], status, cands, keepsMetadata)
          /\ \A b \in Callers : b # c => call'[b] = call[b]
      BY <1>3 DEF SubmitPatch, Idle, SerialInv, TypeInv
    <2>2. live = disk /\ disk' = disk
      <3>1. \A b \in Callers : call[b].stage = "idle"
        BY <1>3 DEF SubmitPatch, MayStart, Resting
      <3> QED
        BY <1>3, <3>1 DEF SubmitPatch, SerialInv, InTxn
    <2>3. live.art[d] \in ArtifactRow
      BY DEF SerialInv, TypeInv, TablesType
    <2>4. RowFits(c)'
      <3>1. CASE keepsMetadata
        <4>1. call'[c].row = [live.art[d] EXCEPT !.status = status]
          BY <2>1, <3>1 DEF PatchedRow
        <4> QED
          BY <2>1, <2>2, <2>3, <4>1 DEF RowFits, ArtifactStatus, ArtifactRow
      <3>2. CASE ~keepsMetadata
        <4>1. call'[c].row = [status |-> status, cands |-> cands, applied |-> NoOp]
          BY <2>1, <3>2 DEF PatchedRow
        <4> QED
          BY <4>1 DEF RowFits, ArtifactStatus
      <3> QED
        BY <3>1, <3>2
    <2> QED
      BY <1>3, <2>1, <2>4, StepSubmit DEF SubmitPatch
  <1> QED
    BY <1>1, <1>2, <1>3 DEF Submit

LEMMA StepProject ==
    ASSUME SerialInv, TypeInv', NEW rows \in SUBSET Mentions, Project(rows) PROVE SerialInv'
  <1>1. disk \in TablesType /\ Sound(disk) /\ ~txn /\ call' = call /\ txn' = txn
        /\ live' = disk' /\ disk' = Projected(disk, rows)
    BY DEF SerialInv, Project, TypeInv
  <1>2. Sound(disk)'
    BY <1>1, ProjectSound
  <1>3. disk'.ops = disk.ops /\ disk'.art = disk.art
        /\ \A e \in Events : Present(disk, e) => Present(disk', e)
    <2>1. /\ disk'.ops = disk.ops /\ disk'.art = disk.art
          /\ \A e \in Events : disk'.event[e] = IF \E m \in rows : Group[m] = e
                THEN [status |-> "active", into |-> NoEvent] ELSE disk.event[e]
      BY <1>1 DEF Projected, TablesType
    <2>2. ASSUME NEW e \in Events, Present(disk, e) PROVE Present(disk', e)
      BY <2>1, <2>2 DEF Present
    <2> QED
      BY <2>1, <2>2
  <1>4. ASSUME NEW c \in Callers PROVE Progress(c)'
    <2>1. Progress(c) /\ call'[c] = call[c] /\ call[c].stage \notin InTxn
      BY <1>1 DEF SerialInv, Progress
    <2>2. call[c].stage \in Curating => call[c].decision \in Decisions
      BY CallFields DEF SerialInv
    <2>3. call[c].stage \in Curating /\ MayUpsert(disk, call[c].decision, call[c].row)
             => MayUpsert(disk', call[c].decision, call[c].row)
      BY <1>3, <2>2, IdentifiersAreTyped DEF MayUpsert, DetachesOperation
    <2> QED
      BY <1>1, <1>3, <2>1, <2>3 DEF Progress, InTxn, Planned, Curating, RowFits
  <1> QED
    BY <1>1, <1>2, <1>4 DEF SerialInv, Resting

LEMMA StepCrash ==
    ASSUME SerialInv, TypeInv', Crash PROVE SerialInv'
  <1>1. \A c \in Callers : call'[c] = Idle
    BY DEF Crash
  <1>2. \A c \in Callers : Resting(c)' /\ Progress(c)'
    BY <1>1 DEF Idle, Resting, Progress, InTxn, Planned, Curating
  <1> QED
    BY <1>2 DEF Crash, SerialInv
LEMMA SerialInit == Init => SerialInv
  <1> SUFFICES ASSUME Init PROVE SerialInv
    OBVIOUS
  <1>1. TypeInv
    BY TypeInvInit
  <1>2. Sound(disk)
    BY DEF Init, EmptyTables, Sound, Traced, MergesRecorded, NothingHidden, Absent, NoArtifact
  <1>3. \A c \in Callers : Resting(c) /\ Progress(c)
    BY DEF Init, Idle, Resting, Progress, InTxn, Planned, Curating
  <1> QED
    BY <1>1, <1>2, <1>3 DEF Init, SerialInv

LEMMA SerialStep == ~Overlap /\ SerialInv /\ [Next]_vars => SerialInv'
  <1> SUFFICES ASSUME ~Overlap, SerialInv, [Next]_vars PROVE SerialInv'
    OBVIOUS
  <1>1. TypeInv'
    BY TypeInvStep DEF SerialInv
  <1>2. ASSUME NEW c \in Callers, Submit(c) PROVE SerialInv'
    BY <1>1, <1>2, StepsSubmit
  <1>3. ASSUME NEW c \in Callers, Statement(c) PROVE SerialInv'
    BY <1>1, <1>3, StepBegin, StepPlan, StepCreate, StepMove, StepMark, StepRestate, StepDecide,
       StepRecord, StepCommit, StepRollback, StepCheck, StepUpsert, StepSave DEF Statement
  <1>4. ASSUME NEW rows \in SUBSET Mentions, Project(rows) PROVE SerialInv'
    BY <1>1, <1>4, StepProject
  <1>5. CASE Crash
    BY <1>1, <1>5, StepCrash
  <1>6. CASE UNCHANGED vars
    BY <1>1, <1>6 DEF vars, SerialInv, Resting, Progress, RowFits, DecidedNow, RestatedNow,
                      MarkedNow, MovedNow
  <1> QED
    BY <1>2, <1>3, <1>4, <1>5, <1>6 DEF Next

(* With clients that wait for their answers, on disk every applied decision *)
(* can be traced to its operation and back (DecisionsAreTraced).            *)
THEOREM DecisionsStayTraced == ~Overlap => (Spec => []DecisionsAreTraced)
  <1> SUFFICES ASSUME ~Overlap PROVE Spec => []DecisionsAreTraced
    OBVIOUS
  <1>1. SerialInv => DecisionsAreTraced
    BY DEF SerialInv, Sound, Traced, DecisionsAreTraced
  <1>2. SerialInv /\ [Next]_vars => SerialInv'
    BY SerialStep
  <1> QED
    BY <1>1, <1>2, SerialInit, PTL DEF Spec

(* The same for the mark, the log and the relation of a merge               *)
(* (MergedIsRecorded).                                                      *)
THEOREM MergesStayRecorded == ~Overlap => (Spec => []MergedIsRecorded)
  <1> SUFFICES ASSUME ~Overlap PROVE Spec => []MergedIsRecorded
    OBVIOUS
  <1>1. SerialInv => MergedIsRecorded
    BY DEF SerialInv, Sound, MergesRecorded, MergedIsRecorded
  <1>2. SerialInv /\ [Next]_vars => SerialInv'
    BY SerialStep
  <1> QED
    BY <1>1, <1>2, SerialInit, PTL DEF Spec

(* No mention is under an event that is missing, or that is merged and was  *)
(* never a survivor (MergedKeepsNothing).                                   *)
THEOREM MergedStayEmpty == ~Overlap => (Spec => []MergedKeepsNothing)
  <1> SUFFICES ASSUME ~Overlap PROVE Spec => []MergedKeepsNothing
    OBVIOUS
  <1>1. SerialInv => MergedKeepsNothing
    BY DEF SerialInv, Sound, NothingHidden, MergedKeepsNothing
  <1>2. SerialInv /\ [Next]_vars => SerialInv'
    BY SerialStep
  <1> QED
    BY <1>1, <1>2, SerialInit, PTL DEF Spec

(* An answer "applied" is backed by the log (AppliedIsRecorded). *)
THEOREM AppliedStaysRecorded == ~Overlap => (Spec => []AppliedIsRecorded)
  <1> SUFFICES ASSUME ~Overlap PROVE Spec => []AppliedIsRecorded
    OBVIOUS
  <1>1. SerialInv => AppliedIsRecorded
    BY DEF SerialInv, Progress, AppliedIsRecorded
  <1>2. SerialInv /\ [Next]_vars => SerialInv'
    BY SerialStep
  <1> QED
    BY <1>1, <1>2, SerialInit, PTL DEF Spec

----------------------------------------------------------------------------
(* The refinement *)

LEMMA LedgerStatements ==
    ASSUME NEW t, NEW r, NEW p
    PROVE  /\ Ledger!Created(t, r) = Created(t, r)
           /\ Ledger!Moved(t, r) = Moved(t, r)
           /\ Ledger!Marked(t, r) = Marked(t, r)
           /\ Ledger!Restated(t, r, p) = Restated(t, r, p)
           /\ Ledger!Decided(t, r, p) = Decided(t, r, p)
           /\ Ledger!Recorded(t, r) = Recorded(t, r)
  <1>1. \A e : Ledger!Present(t, e) <=> Present(t, e)
    BY DEF Ledger!Present, Present
  <1>2. \A m : Ledger!Leaves(t, r, m) <=> Leaves(t, r, m)
    BY DEF Ledger!Leaves, Leaves
  <1>3. Ledger!Linked(r) = Linked(r)
    BY DEF Ledger!Linked, Linked
  <1>4. Ledger!Created(t, r) = Created(t, r)
    BY DEF Ledger!Created, Created
  <1>5. Ledger!Moved(t, r) = Moved(t, r)
    BY <1>2, Zenon DEF Ledger!Moved, Moved, Ledger!Leaves, Leaves
  <1>6. Ledger!Marked(t, r) = Marked(t, r)
    BY <1>3, Zenon DEF Ledger!Marked, Marked, Ledger!Present, Present
  <1>7. Ledger!Restated(t, r, p) = Restated(t, r, p)
    BY Zenon DEF Ledger!Restated, Restated, Ledger!Present, Present
  <1>8. Ledger!Decided(t, r, p) = Decided(t, r, p)
    BY DEF Ledger!Decided, Decided
  <1>9. Ledger!Recorded(t, r) = Recorded(t, r)
    BY DEF Ledger!Recorded, Recorded
  <1> QED
    BY <1>4, <1>5, <1>6, <1>7, <1>8, <1>9

LEMMA LedgerApplies ==
    ASSUME NEW t, NEW r
    PROVE  /\ Ledger!Applied(t, r) = Applied(t, r)
           /\ Ledger!MayApply(t, r) <=> MayApply(t, r)
  <1>1. Ledger!Applied(t, r) = Applied(t, r)
    <2> DEFINE begun == IF r.kind = "split" THEN Created(t, r) ELSE t
               moved == Moved(begun, r)
               marked == Marked(moved, r)
               restated == Restated(marked, r, t)
    <2>1. Applied(t, r) = Recorded(Decided(restated, r, t), r)
      BY DEF Applied
    <2>2. Ledger!Applied(t, r) =
            LET b == IF r.kind = "split" THEN Ledger!Created(t, r) ELSE t
            IN  Ledger!Recorded(Ledger!Decided(Ledger!Restated(
                    Ledger!Marked(Ledger!Moved(b, r), r), r, t), r, t), r)
      BY DEF Ledger!Applied
    <2>3. (IF r.kind = "split" THEN Ledger!Created(t, r) ELSE t) = begun
      BY LedgerStatements
    <2>4. Ledger!Moved(begun, r) = moved
      BY LedgerStatements
    <2>5. Ledger!Marked(moved, r) = marked
      BY LedgerStatements
    <2>6. Ledger!Restated(marked, r, t) = restated
      BY LedgerStatements
    <2>7. Ledger!Decided(restated, r, t) = Decided(restated, r, t)
      BY LedgerStatements
    <2>8. Ledger!Recorded(Decided(restated, r, t), r) = Recorded(Decided(restated, r, t), r)
      BY LedgerStatements
    <2> HIDE DEF begun, moved, marked, restated
    <2> QED
      BY <2>1, <2>2, <2>3, <2>4, <2>5, <2>6, <2>7, <2>8
  <1>2. Ledger!DecisionFits(t, r) <=> DecisionFits(t, r)
    BY DEF Ledger!DecisionFits, DecisionFits
  <1>3. Ledger!Existing(t, r) = Existing(t, r)
    BY DEF Ledger!Existing, Existing
  <1>4. Ledger!MergeFits(t, r) <=> MergeFits(t, r)
    BY DEF Ledger!MergeFits, MergeFits, Ledger!Present, Present
  <1>5. Ledger!SplitFits(t, r) <=> SplitFits(t, r)
    BY DEF Ledger!SplitFits, SplitFits, Ledger!Present, Present, Ledger!MentionsOf, MentionsOf
  <1>6. Ledger!Fits(t, r) <=> Fits(t, r)
    BY <1>4, <1>5 DEF Ledger!Fits, Fits
  <1> QED
    BY <1>1, <1>2, <1>3, <1>6 DEF Ledger!MayApply, MayApply

(* A step of the handlers is a step of the ledger on disk, or none. *)
LEMMA LedgerStep == ~Overlap /\ SerialInv /\ [Next]_vars => [Ledger!Next]_disk
  <1> SUFFICES ASSUME ~Overlap, SerialInv, [Next]_vars, disk' # disk PROVE Ledger!Next
    OBVIOUS
  <1>1. ASSUME NEW c \in Callers, Commit(c) PROVE Ledger!Next
    <2>1. call[c].req \in Requests /\ Progress(c)
      BY <1>1, CallFields DEF SerialInv, Commit, Applying
    <2>2. disk' = Applied(disk, call[c].req) /\ MayApply(disk, call[c].req)
      BY <1>1, <2>1 DEF Commit, Progress
    <2>3. Ledger!Apply(call[c].req)
      BY <2>2, LedgerApplies DEF Ledger!Apply
    <2> QED
      BY <2>1, <2>3 DEF Ledger!Next
  <1>2. ASSUME NEW c \in Callers, SaveArtifact(c) PROVE Ledger!Next
    <2> DEFINE d == call[c].decision
               row == call[c].row
    <2>1. d \in Decisions /\ row \in ArtifactRow /\ disk' = Upserted(disk, d, row)
          /\ MayUpsert(disk, d, row) /\ RowFits(c)
      BY <1>2, SavedRow
    <2>2. disk'.art[d] = row
      BY <2>1 DEF Upserted, SerialInv, TypeInv, TablesType
    <2>3. Ledger!Curate(d, disk'.art[d])
      BY <2>1, <2>2 DEF Ledger!Curate, Ledger!MayUpsert, Ledger!DetachesOperation, Ledger!Present,
                        Ledger!Upserted, MayUpsert, DetachesOperation, Present, Upserted, RowFits
    <2> QED
      BY <2>1, <2>3 DEF Ledger!Next
  <1>3. ASSUME NEW rows \in SUBSET Mentions, Project(rows) PROVE Ledger!Next
    <2>1. Ledger!Project(rows)
      BY <1>3 DEF Project, Ledger!Project, Ledger!Projected, Projected
    <2> QED
      BY <2>1 DEF Ledger!Next
  <1>4. ASSUME NEW c \in Callers, Submit(c) PROVE FALSE
    BY <1>4 DEF Submit, SubmitApply, SubmitArtifact, SubmitPatch
  <1>5. ASSUME NEW c \in Callers, Statement(c), ~Commit(c), ~SaveArtifact(c) PROVE FALSE
    BY <1>5 DEF Statement, Begin, Plan, Create, Move, Mark, Restate, Decide, Record, Rollback,
                CheckArtifact, UpsertArtifact, Write, Fail
  <1> QED
    BY <1>1, <1>2, <1>3, <1>4, <1>5 DEF Next, Crash, vars

(* With clients that wait for their answers the handlers implement the      *)
(* ledger: what is on disk changes by whole merges, splits, artifact rows   *)
(* and projections, wherever the process dies.                              *)
THEOREM GraphImplementsLedger == ~Overlap => (Spec => ImplementsCanonicalLedger)
  <1> SUFFICES ASSUME ~Overlap PROVE Spec => ImplementsCanonicalLedger
    OBVIOUS
  <1>1. Init => Ledger!Init
    BY DEF Init, Ledger!Init, EmptyTables, Ledger!EmptyTables, Absent, Ledger!Absent, NoArtifact,
           Ledger!NoArtifact
  <1>2. SerialInv /\ [Next]_vars => SerialInv'
    BY SerialStep
  <1>3. SerialInv /\ [Next]_vars => [Ledger!Next]_disk
    BY LedgerStep
  <1> QED
    BY <1>1, <1>2, <1>3, SerialInit, PTL DEF Spec, ImplementsCanonicalLedger, Ledger!Spec
============================================================================
