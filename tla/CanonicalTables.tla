-------------------------- MODULE CanonicalTables --------------------------
(* The tables of the canonical event graph of one target, and what the      *)
(* statements of a human merge or split, of a research artifact's upsert    *)
(* and of the canonical projection do to them                               *)
(* (core/store/_canonical.py, core/canonical_projection.py).                *)
(*                                                                          *)
(* A request is the payload of an apply call. The identifier of a graph     *)
(* operation, and that of the event a split creates, are digests of the     *)
(* payload: a request stands for its operation, and carries as "result" the *)
(* survivor of a merge or the event a split creates. A decision is an       *)
(* artifact identifier, itself a digest of kind, subject and candidates.    *)
EXTENDS Naturals, FiniteSets

CONSTANTS Events,       \* canonical event identifiers
          Mentions,     \* rows of event_index, hence of event_mentions
          Decisions,    \* merge_decision and split_decision artifacts
          Requests,     \* the apply payloads that may be submitted
          Group,        \* Group[m]: the event the projection puts m under
          NoEvent, NoDecision, NoOp

ArtifactStatus == {"open", "resolved", "archived"}
EventStatus == {"active", "needs_review", "merged"}

Absent == [status |-> "none", into |-> NoEvent]
EventRow == [status : EventStatus \cup {"none"}, into : Events \cup {NoEvent}]
Candidates == SUBSET Events \cup SUBSET Mentions
NoArtifact == [status |-> "none", cands |-> {}, applied |-> NoOp]
ArtifactRow == [status : ArtifactStatus \cup {"none"}, cands : Candidates,
                applied : Requests \cup {NoOp}]

Payloads == [kind : {"merge", "split"}, primary : Events, members : Candidates,
             decision : Decisions \cup {NoDecision}, result : Events]

(* What is checked of a payload before the database is opened: something to *)
(* merge or move, and a survivor that is not among the merged. A split      *)
(* creates an event no projection and no merge refers to as its own.        *)
ASSUME PayloadsAreChecked ==
    /\ Requests \subseteq Payloads
    /\ \A r \in Requests :
          /\ r.members # {}
          /\ r.kind = "merge" => /\ r.members \subseteq Events
                                 /\ r.primary \notin r.members
                                 /\ r.result = r.primary
          /\ r.kind = "split" => /\ r.members \subseteq Mentions
                                 /\ r.result # r.primary
ASSUME IdentifiersAreTyped ==
    /\ Group \in [Mentions -> Events]
    /\ \A d \in Decisions : d.kind \in {"merge", "split"} /\ d.subject \in Events
                            /\ d.cands \in Candidates
    /\ NoEvent \notin Events /\ NoDecision \notin Decisions /\ NoOp \notin Requests

TablesType ==
    [event : [Events -> EventRow], home : [Mentions -> Events \cup {NoEvent}],
     art : [Decisions -> ArtifactRow], ops : SUBSET Requests,
     links : SUBSET (Requests \X Events)]

EmptyTables ==
    [event |-> [e \in Events |-> Absent], home |-> [m \in Mentions |-> NoEvent],
     art |-> [d \in Decisions |-> NoArtifact], ops |-> {}, links |-> {}]

Present(t, e) == t.event[e].status # "none"
MentionsOf(t, e) == {m \in Mentions : t.home[m] = e}

----------------------------------------------------------------------------
(* The checks of an apply call *)

(* get_research_artifact and _validate_merge_decision_artifact,             *)
(* _validate_split_decision_artifact                                        *)
DecisionFits(t, r) ==
    r.decision # NoDecision =>
        /\ t.art[r.decision].status # "none"
        /\ r.decision.kind = r.kind
        /\ r.decision.subject = r.primary
        /\ t.art[r.decision].cands = r.members

MergeFits(t, r) ==
    /\ Present(t, r.primary)
    /\ \A e \in r.members : /\ Present(t, e)
                            /\ t.event[e].status = "merged" => t.event[e].into = r.primary

SplitFits(t, r) ==
    /\ Present(t, r.primary)
    /\ r.members \subseteq MentionsOf(t, r.primary)
    /\ MentionsOf(t, r.primary) # r.members

Fits(t, r) == IF r.kind = "merge" THEN MergeFits(t, r) ELSE SplitFits(t, r)

(* The operations the lookup for an existing one comes to, in its order: the *)
(* one the artifact names, the one of this payload, one of this artifact.    *)
Existing(t, r) ==
    LET named == IF r.decision = NoDecision THEN {} ELSE {t.art[r.decision].applied} \cap t.ops
    IN  IF named # {} THEN named
        ELSE IF r \in t.ops THEN {r}
        ELSE {o \in t.ops : r.decision # NoDecision /\ o.decision = r.decision}

(* A merge builds its plan, and so runs its checks, before it looks for the *)
(* existing operation; a split looks first.                                 *)
RepeatsExisting(t, r) == DecisionFits(t, r) /\ r \in Existing(t, r)
                         /\ (r.kind = "merge" => MergeFits(t, r))
MayApply(t, r) == DecisionFits(t, r) /\ Existing(t, r) = {} /\ Fits(t, r)

----------------------------------------------------------------------------
(* The statements of an apply, in order. "plan" is what the checks read:    *)
(* rows whose metadata is written back are written from that copy.          *)

Leaves(t, r, m) == IF r.kind = "merge" THEN t.home[m] \in r.members
                   ELSE m \in r.members /\ t.home[m] = r.primary
Linked(r) == IF r.kind = "merge" THEN r.members ELSE {r.result}

(* Mutant: a merge leaves the mentions where they are. *)
MovedForSplit(t, r) ==
    IF r.kind = "merge" THEN t
    ELSE [t EXCEPT !.home = [m \in Mentions |-> IF Leaves(t, r, m) THEN r.result ELSE t.home[m]]]

Created(t, r) ==
    [t EXCEPT !.event[r.result] = [status |-> "needs_review", into |-> NoEvent]]
Moved(t, r) ==
    [t EXCEPT !.home = [m \in Mentions |-> IF Leaves(t, r, m) THEN r.result ELSE t.home[m]]]
Marked(t, r) ==
    [t EXCEPT !.links = t.links \cup ({r} \X Linked(r)),
              !.event = [e \in Events |->
                  IF r.kind = "merge" /\ e \in r.members /\ Present(t, e)
                  THEN [status |-> "merged", into |-> r.primary] ELSE t.event[e]]]
Restated(t, r, plan) ==
    [t EXCEPT !.event[r.primary] =
        IF Present(t, r.primary) THEN [@ EXCEPT !.into = plan.event[r.primary].into] ELSE @]
Decided(t, r, plan) ==
    IF r.decision = NoDecision \/ t.art[r.decision].status = "none" THEN t
    ELSE [t EXCEPT !.art[r.decision] =
             [status |-> "resolved", cands |-> plan.art[r.decision].cands, applied |-> r]]
Recorded(t, r) == [t EXCEPT !.ops = t.ops \cup {r}]

(* foreign_keys is on: a mention or a relation needs its event. The unique  *)
(* index allows a decision one operation.                                   *)
MoveBreaksKey(t, r) == ~Present(t, r.result) /\ \E m \in Mentions : Leaves(t, r, m)
LinkBreaksKey(t, r) == ~Present(t, r.primary) \/ \E e \in Linked(r) : ~Present(t, e)
RecordBreaksIndex(t, r) ==
    \E o \in t.ops : o # r /\ r.decision # NoDecision /\ o.decision = r.decision

(* All the statements of an apply, on the tables they were planned on *)
Applied(t, r) ==
    LET begun == IF r.kind = "split" THEN Created(t, r) ELSE t
    IN  Recorded(Decided(Restated(Marked(Moved(begun, r), r), r, t), r, t), r)

----------------------------------------------------------------------------
(* Artifacts and the projection *)

(* Mutant: the upsert has no guard. *)
DetachesNothing(t, d, row) == FALSE

(* upsert_research_artifact: the guard on an applied decision, the subject, *)
(* and the row it writes                                                    *)
DetachesOperation(t, d, row) ==
    /\ t.art[d].status = "resolved"
    /\ t.art[d].applied # NoOp
    /\ row.status # "resolved" \/ row.applied # t.art[d].applied
MayUpsert(t, d, row) == ~DetachesOperation(t, d, row) /\ Present(t, d.subject)
Upserted(t, d, row) == [t EXCEPT !.art[d] = row]

(* The rows of one patch: the fields it names replace those of the artifact; *)
(* a patch of the metadata names new candidates and leaves out the operation *)
(* that was applied.                                                         *)
PatchedRow(row, status, cands, keepsMetadata) ==
    IF keepsMetadata THEN [row EXCEPT !.status = status]
    ELSE [status |-> status, cands |-> cands, applied |-> NoOp]

(* apply_canonical_projection of the mentions it read: every event they     *)
(* group into is active with metadata of its own, every mention is under it. *)
Projected(t, rows) ==
    [t EXCEPT !.event = [e \in Events |->
                  IF \E m \in rows : Group[m] = e
                  THEN [status |-> "active", into |-> NoEvent] ELSE t.event[e]],
              !.home = [m \in Mentions |-> IF m \in rows THEN Group[m] ELSE t.home[m]]]
============================================================================
