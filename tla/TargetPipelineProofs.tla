------------------------ MODULE TargetPipelineProofs ------------------------
(***************************************************************************)
(* Proofs about the bounded runs of a target, for any number of runners    *)
(* that overlap as they like; and, for runs that follow each other, that   *)
(* each event passes its stages once and keeps its translation, and that a *)
(* stage run alone leaves nothing undone behind runs that died.            *)
(***************************************************************************)
EXTENDS TargetPipeline, TLAPS

USE AlertableAssumption, MaxFaultsAssumption

(* A step of a run leaves it idle or with a record of its kind. *)
LEMMA LoadedType ==
  ASSUME TypeOK, NEW x \in Runs, x.phase = "load",
         x.stage \in {"filter", "judge", "output"}
  PROVE  Loaded(x) \in Runs
  BY DEF TypeOK, Loaded, Goes, Runs, Phases, Stages,
         PendingFilter, PendingJudge, PendingOutput

LEMMA AdvancedType ==
  ASSUME NEW x \in Runs, x.phase \notin {"load", "collect"}
  PROVE  Advanced(x) \in Runs \cup {Idle}
  <1>1. \A phase \in Phases : \A batch, todo, out \in SUBSET Events :
          Goes(x, phase, batch, todo, out) \in Runs
    BY DEF Goes, Runs
  <1>2. /\ x.batch \in SUBSET Events /\ x.out \in SUBSET Events
        /\ Rejected(x) \in SUBSET Events /\ {} \in SUBSET Events
    BY DEF Runs, Rejected
  <1>3. x.phase \in {"raw", "filter", "archive", "evaluate", "judge", "output",
                     "index"}
    BY DEF Runs, Phases
  <1> QED BY <1>1, <1>2, <1>3 DEF Advanced, Phases

(* A run that loads is one of a single stage. *)
LoadsAlone ==
  \A r \in Runners :
    At(r, "load") => run[r].stage \in {"filter", "judge", "output"}

(* A step that changes what one runner is at. *)
LEMMA RunStep ==
  ASSUME TypeOK, LoadsAlone, NEW r \in Runners, NEW x \in Runs \cup {Idle},
         x # Idle /\ x.phase = "load" => x.stage \in {"filter", "judge", "output"},
         run' = [run EXCEPT ![r] = x]
  PROVE  run' \in [Runners -> Runs \cup {Idle}] /\ LoadsAlone'
  BY DEF TypeOK, LoadsAlone, At, Active

-----------------------------------------------------------------------------
(* Every run has a phase and a stage of its kind, and events of its kind.  *)
THEOREM PipelineTypeCorrect == Spec => [](TypeOK /\ LoadsAlone)
  <1>1. Init => TypeOK /\ LoadsAlone
    <2> SUFFICES ASSUME Init PROVE TypeOK /\ LoadsAlone
      OBVIOUS
    <2>1. 0 \in 0 .. MaxFaults
      OBVIOUS
    <2>2. run \in [Runners -> Runs \cup {Idle}]
      BY DEF Init
    <2> QED BY <2>1, <2>2 DEF Init, TypeOK, LoadsAlone, At, Active
  <1>2. TypeOK /\ LoadsAlone /\ [Next]_vars => (TypeOK /\ LoadsAlone)'
    <2> SUFFICES ASSUME TypeOK, LoadsAlone, [Next]_vars
                 PROVE  (TypeOK /\ LoadsAlone)'
      OBVIOUS
    <2> USE DEF TypeOK, LoadsAlone, At, Active
    <2>1. ASSUME NEW r \in Runners, NEW stage \in Stages, Bootstrap(r, stage)
          PROVE  (TypeOK /\ LoadsAlone)'
      <3> DEFINE phase == IF stage \in {"all", "collect"} THEN "collect" ELSE "load"
                 x == [phase |-> phase, stage |-> stage, known |-> knownFile,
                       batch |-> {}, todo |-> {}, out |-> {}, outputted |-> {}]
      <3>1. x \in Runs
        BY DEF Runs, Phases, Stages
      <3>2. x.phase = "load" => x.stage \in {"filter", "judge", "output"}
        BY DEF Stages
      <3>3. run' = [run EXCEPT ![r] = x]
        BY <2>1 DEF Bootstrap
      <3>4. overlapped' \in BOOLEAN
        BY <2>1 DEF Bootstrap
      <3> HIDE DEF x, phase
      <3>5. run' \in [Runners -> Runs \cup {Idle}] /\ LoadsAlone'
        BY <3>1, <3>2, <3>3, RunStep
      <3> QED BY <2>1, <3>4, <3>5 DEF Bootstrap, files
    <2>2. ASSUME NEW r \in Runners, NEW feed \in SUBSET Events, Collect(r, feed)
          PROVE  (TypeOK /\ LoadsAlone)'
      <3> DEFINE x == Goes(run[r], "raw", feed, feed, {})
      <3>1. x \in Runs /\ x.phase = "raw"
        BY <2>2 DEF Collect, Goes, Runs, Phases
      <3>2. run' = [run EXCEPT ![r] = x]
        BY <2>2 DEF Collect
      <3> HIDE DEF x
      <3>3. run' \in [Runners -> Runs \cup {Idle}] /\ LoadsAlone'
        BY <3>1, <3>2, RunStep
      <3> QED BY <2>2, <3>3 DEF Collect, files
    <2>3. ASSUME NEW r \in Runners, Load(r)
          PROVE  (TypeOK /\ LoadsAlone)'
      <3>1. Loaded(run[r]) \in Runs
        BY <2>3, LoadedType DEF Load, Idle, Runs
      <3>2. Loaded(run[r]).phase # "load"
        BY <2>3 DEF Load, Loaded, Goes, Runs, Idle
      <3> QED BY <2>3, <3>1, <3>2 DEF Load, files
    <2>4. ASSUME NEW r \in Runners, Advance(r)
          PROVE  (TypeOK /\ LoadsAlone)'
      <3>1. run[r] \in Runs
        BY <2>4 DEF Advance
      <3>2. Advanced(run[r]) \in Runs \cup {Idle}
        BY <2>4, <3>1, AdvancedType DEF Advance
      <3>3. Advanced(run[r]) # Idle => Advanced(run[r]).phase # "load"
        BY <2>4, <3>1 DEF Advance, Advanced, Goes, Runs, Phases
      <3>4. {e \in run[r].out : ShouldAlert(run[r], e)} \in SUBSET Events
        BY DEF ShouldAlert
      <3> QED BY <2>4, <3>1, <3>2, <3>3, <3>4 DEF Advance, files
    <2>5. ASSUME NEW r \in Runners, NEW e \in Events, WriteRaw(r, e)
          PROVE  (TypeOK /\ LoadsAlone)'
      BY <2>5 DEF WriteRaw, Turn, Done, Runs, Phases, Idle
    <2>6. ASSUME NEW r \in Runners, NEW e \in Events, Filter(r, e)
          PROVE  (TypeOK /\ LoadsAlone)'
      <3> DEFINE known == Marked(run[r].known, e)
                 out == run[r].out \cup (IF Passes(run[r].known, e) THEN {e} ELSE {})
      <3>1. run[r] \in Runs /\ run[r].phase = "filter"
        BY <2>6 DEF Filter, Turn
      <3>2. known \in SUBSET Events /\ out \in SUBSET Events
        BY <3>1 DEF Marked, Runs
      <3> DEFINE x == [run[r] EXCEPT !.todo = run[r].todo \ {e},
                                     !.known = known, !.out = out]
      <3>3. run' = [run EXCEPT ![r] = x]
        BY <2>6, <3>1 DEF Filter, Runs
      <3>4. x \in Runs /\ x.phase = "filter"
        BY <3>1, <3>2 DEF Runs
      <3>5. knownFile' \in SUBSET Events
        BY <2>6, <3>2 DEF Filter
      <3> HIDE DEF x
      <3>6. run' \in [Runners -> Runs \cup {Idle}] /\ LoadsAlone'
        BY <3>3, <3>4, RunStep
      <3> QED BY <2>6, <3>5, <3>6 DEF Filter, files
    <2>7. ASSUME NEW r \in Runners, NEW e \in Events, WriteArchive(r, e)
          PROVE  (TypeOK /\ LoadsAlone)'
      BY <2>7 DEF WriteArchive, Turn, Done, Runs, Phases, Idle
    <2>8. ASSUME NEW r \in Runners, NEW e \in Events, WriteFiltered(r, e)
          PROVE  (TypeOK /\ LoadsAlone)'
      BY <2>8 DEF WriteFiltered, Turn, Done, Runs, Phases, Idle
    <2>9. ASSUME NEW r \in Runners, NEW e \in Events, WriteJudged(r, e)
          PROVE  (TypeOK /\ LoadsAlone)'
      BY <2>9 DEF WriteJudged, Turn, Done, Runs, Phases, Idle
    <2>10. ASSUME NEW r \in Runners, NEW e \in Events, Output(r, e)
           PROVE  (TypeOK /\ LoadsAlone)'
      BY <2>10 DEF Output, Turn, Done, Runs, Phases, Idle
    <2>11. ASSUME NEW r \in Runners, NEW e \in Events, Index(r, e)
           PROVE  (TypeOK /\ LoadsAlone)'
      BY <2>11 DEF Index, Turn, Done, files, Runs, Phases, Idle
    <2>12. ASSUME NEW r \in Runners, Crash(r)
           PROVE  (TypeOK /\ LoadsAlone)'
      BY <2>12 DEF Crash, files, Runs
    <2>13. ASSUME NEW e \in Events, Elapse(e)
           PROVE  (TypeOK /\ LoadsAlone)'
      BY <2>13 DEF Elapse, files
    <2>14. ASSUME NEW e \in Events, Translate(e)
           PROVE  (TypeOK /\ LoadsAlone)'
      BY <2>14 DEF Translate, files
    <2>15. ASSUME NEW e \in Events, Review(e)
           PROVE  (TypeOK /\ LoadsAlone)'
      BY <2>15 DEF Review
    <2>16. CASE UNCHANGED vars
      BY <2>16 DEF vars, files
    <2> HIDE DEF TypeOK, LoadsAlone, At, Active
    <2> QED
      BY <2>1, <2>2, <2>3, <2>4, <2>5, <2>6, <2>7, <2>8, <2>9, <2>10, <2>11,
         <2>12, <2>13, <2>14, <2>15, <2>16 DEF Next, Step
  <1> QED BY <1>1, <1>2, PTL DEF Spec

-----------------------------------------------------------------------------
(* What accounts for a known id, and the events a run has in its hands     *)
(* between the mark and the file.                                          *)
Held(r) ==
  IF Active(r) /\ run[r].phase \in {"filter", "archive", "evaluate"}
    THEN run[r].out ELSE {}

Accounted(e) == e \in filtered \/ e \in lost \/ \E r \in Runners : e \in Held(r)

(* KnownIsAccounted is not inductive alone: a run writes the file from its *)
(* own memory, and while it writes its events it has those behind it done. *)
KnownInv ==
  /\ \A e \in knownFile : Accounted(e)
  /\ \A r \in Runners : Active(r) => \A e \in run[r].known : Accounted(e)
  /\ \A r \in Runners : At(r, "evaluate") => run[r].out \ run[r].todo \subseteq filtered

LEMMA KnownInvSuffices == KnownInv => KnownIsAccounted
  BY DEF KnownInv, KnownIsAccounted, Accounted, Held

(* An event stays accounted for through a step of one run that leaves what *)
(* it held in its hands, filtered or lost.                                 *)
LEMMA AccountedStays ==
  ASSUME filtered \subseteq filtered', lost \subseteq lost',
         NEW r \in Runners,
         \A q \in Runners \ {r} : run'[q] = run[q],
         \A e \in Held(r) : e \in Held(r)' \/ e \in filtered' \/ e \in lost',
         NEW e, Accounted(e)
  PROVE  Accounted(e)'
  <1>1. ASSUME NEW q \in Runners, e \in Held(q), q # r PROVE e \in Held(q)'
    BY <1>1 DEF Held, Active
  <1> QED BY <1>1 DEF Accounted

(* A step of one run that marks nothing. *)
LEMMA KnownStays ==
  ASSUME TypeOK, KnownInv, filtered \subseteq filtered', lost \subseteq lost',
         knownFile' = knownFile,
         NEW r \in Runners, NEW x \in Runs \cup {Idle},
         run' = [run EXCEPT ![r] = x],
         \A e \in Held(r) : e \in Held(r)' \/ e \in filtered' \/ e \in lost',
         x # Idle => x.known \subseteq knownFile \cup run[r].known,
         x # Idle => Active(r) \/ x.known = knownFile,
         x # Idle /\ x.phase = "evaluate" => x.out \ x.todo \subseteq filtered'
  PROVE  KnownInv'
  <1>1. \A q \in Runners \ {r} : run'[q] = run[q]
    BY DEF TypeOK
  <1>2. run'[r] = x
    BY DEF TypeOK
  <1>3. \A e : Accounted(e) => Accounted(e)'
    BY <1>1, AccountedStays
  <1>4. \A e \in knownFile' : Accounted(e)'
    BY <1>3 DEF KnownInv
  <1>5. ASSUME NEW q \in Runners, Active(q)', NEW e \in run'[q].known
        PROVE  Accounted(e)'
    <2>1. CASE q = r
      BY <1>2, <1>3, <1>5, <2>1 DEF KnownInv, Active
    <2>2. CASE q # r
      BY <1>1, <1>3, <1>5, <2>2 DEF KnownInv, Active
    <2> QED BY <2>1, <2>2
  <1>6. ASSUME NEW q \in Runners, At(q, "evaluate")'
        PROVE  run'[q].out \ run'[q].todo \subseteq filtered'
    <2>1. CASE q = r
      BY <1>2, <1>6, <2>1 DEF At, Active
    <2>2. CASE q # r
      BY <1>1, <1>6, <2>2 DEF KnownInv, At, Active
    <2> QED BY <2>1, <2>2
  <1> QED BY <1>4, <1>5, <1>6 DEF KnownInv

(* A step that takes an event from what a run has still to do. *)
LEMMA TurnTaken ==
  ASSUME TypeOK, NEW r \in Runners, NEW e, Active(r), Done(r, e)
  PROVE  LET x == [run[r] EXCEPT !.todo = @ \ {e}] IN
         /\ x \in Runs /\ run' = [run EXCEPT ![r] = x] /\ run'[r] = x
         /\ x.known = run[r].known /\ x.phase = run[r].phase
         /\ x.out = run[r].out /\ x.todo = run[r].todo \ {e}
  BY DEF TypeOK, Active, Done, Runs

LEMMA WriteKeepsKnown ==
  ASSUME TypeOK, KnownInv, NEW r \in Runners, NEW e \in Events,
         Active(r), Done(r, e), knownFile' = knownFile, lost' = lost,
         \/ filtered' = filtered /\ run[r].phase # "evaluate"
         \/ filtered' = filtered \cup {e}
  PROVE  KnownInv'
  <1> DEFINE x == [run[r] EXCEPT !.todo = @ \ {e}]
  <1>1. /\ x \in Runs /\ run' = [run EXCEPT ![r] = x] /\ run'[r] = x
        /\ x.known = run[r].known /\ x.phase = run[r].phase
        /\ x.out = run[r].out /\ x.todo = run[r].todo \ {e}
    BY TurnTaken
  <1> HIDE DEF x
  <1>2. x # Idle
    BY <1>1 DEF Runs, Phases, Idle
  <1>3. Held(r)' = Held(r)
    BY <1>1, <1>2 DEF Held, Active
  <1>4. x.phase = "evaluate" => x.out \ x.todo \subseteq filtered'
    BY <1>1 DEF KnownInv, At
  <1> QED BY <1>1, <1>2, <1>3, <1>4, KnownStays

(* Every known id is filtered, in the hands of a run, or lost with one that *)
(* died: KnownIsAccounted, however many runs overlap.                       *)
THEOREM KnownStaysAccounted == Spec => []KnownIsAccounted
  <1>1. Init => KnownInv
    BY DEF Init, KnownInv, Active, At
  <1>2. TypeOK /\ LoadsAlone /\ KnownInv /\ [Next]_vars => KnownInv'
    <2> SUFFICES ASSUME TypeOK, LoadsAlone, KnownInv, [Next]_vars
                 PROVE  KnownInv'
      OBVIOUS
    <2>1. ASSUME NEW r \in Runners, NEW stage \in Stages, Bootstrap(r, stage)
          PROVE  KnownInv'
      <3> DEFINE phase == IF stage \in {"all", "collect"} THEN "collect" ELSE "load"
                 x == [phase |-> phase, stage |-> stage, known |-> knownFile,
                       batch |-> {}, todo |-> {}, out |-> {}, outputted |-> {}]
      <3>1. x \in Runs /\ x.known = knownFile /\ x.phase # "evaluate"
        BY DEF Runs, Phases, Stages, TypeOK
      <3>2. run' = [run EXCEPT ![r] = x]
        BY <2>1 DEF Bootstrap
      <3>3. Held(r) = {}
        BY <2>1 DEF Bootstrap, Held
      <3>4. filtered' = filtered /\ lost' = lost /\ knownFile' = knownFile
        BY <2>1 DEF Bootstrap, files
      <3> HIDE DEF x, phase
      <3> QED BY <3>1, <3>2, <3>3, <3>4, KnownStays
    <2>2. ASSUME NEW r \in Runners, NEW feed \in SUBSET Events, Collect(r, feed)
          PROVE  KnownInv'
      <3> DEFINE x == Goes(run[r], "raw", feed, feed, {})
      <3>1. Active(r) /\ run[r].phase = "collect" /\ run[r] \in Runs
        BY <2>2 DEF Collect, At, Active, TypeOK
      <3>2. x \in Runs /\ x.known = run[r].known /\ x.phase # "evaluate"
        BY <3>1 DEF Goes, Runs, Phases
      <3>3. run' = [run EXCEPT ![r] = x]
        BY <2>2 DEF Collect
      <3>4. Held(r) = {}
        BY <3>1 DEF Held
      <3>5. filtered' = filtered /\ lost' = lost /\ knownFile' = knownFile
        BY <2>2 DEF Collect, files
      <3> HIDE DEF x
      <3> QED BY <3>1, <3>2, <3>3, <3>4, <3>5, KnownStays
    <2>3. ASSUME NEW r \in Runners, Load(r)
          PROVE  KnownInv'
      <3> DEFINE x == Loaded(run[r])
      <3>1. Active(r) /\ run[r].phase = "load" /\ run[r] \in Runs
            /\ run[r].stage \in {"filter", "judge", "output"}
        BY <2>3 DEF Load, At, Active, TypeOK, LoadsAlone
      <3>2. x \in Runs
        BY <3>1, LoadedType
      <3>3. x.known = run[r].known /\ x.phase # "evaluate"
        BY <3>1 DEF Loaded, Goes, Runs
      <3>4. run' = [run EXCEPT ![r] = x]
        BY <2>3 DEF Load
      <3>5. Held(r) = {}
        BY <3>1 DEF Held
      <3>6. filtered' = filtered /\ lost' = lost /\ knownFile' = knownFile
        BY <2>3 DEF Load, files
      <3> HIDE DEF x
      <3> QED BY <3>1, <3>2, <3>3, <3>4, <3>5, <3>6, KnownStays
    <2>4. ASSUME NEW r \in Runners, Advance(r)
          PROVE  KnownInv'
      <3> DEFINE x == Advanced(run[r])
      <3>1. /\ Active(r) /\ run[r] \in Runs /\ run[r].todo = {}
            /\ run[r].phase \notin {"load", "collect"}
        BY <2>4 DEF Advance, Active, TypeOK
      <3>2. x \in Runs \cup {Idle}
        BY <3>1, AdvancedType
      <3>3. run' = [run EXCEPT ![r] = x]
        BY <2>4 DEF Advance
      <3>4. filtered' = filtered /\ lost' = lost /\ knownFile' = knownFile
        BY <2>4 DEF Advance, files
      <3>5. x # Idle => x.known = run[r].known
        BY <3>1 DEF Advanced, Goes, Runs, Phases
      <3>6. x # Idle /\ x.phase = "evaluate" => x.out \ x.todo = {}
        BY <3>1 DEF Advanced, Goes, Runs, Phases
      <3>7. run[r].phase \in {"filter", "archive"} =>
              x # Idle /\ x.phase \in {"archive", "evaluate"} /\ x.out = run[r].out
        BY <3>1 DEF Advanced, Goes, Runs, Phases, Idle
      <3>8. run'[r] = x
        BY <3>3 DEF TypeOK
      <3> HIDE DEF x
      <3>9. ASSUME NEW e \in Held(r) PROVE e \in Held(r)' \/ e \in filtered'
        <4>1. CASE run[r].phase = "evaluate"
          BY <3>1, <3>4, <3>9, <4>1 DEF KnownInv, At, Held
        <4>2. CASE run[r].phase \in {"filter", "archive"}
          BY <3>7, <3>8, <3>9, <4>2 DEF Held, Active
        <4> QED BY <3>9, <4>1, <4>2 DEF Held
      <3> QED BY <3>1, <3>2, <3>3, <3>4, <3>5, <3>6, <3>9, KnownStays
    <2>5. ASSUME NEW r \in Runners, NEW e \in Events,
                 \/ WriteRaw(r, e) \/ WriteArchive(r, e) \/ WriteJudged(r, e)
                 \/ Index(r, e)
          PROVE  KnownInv'
      BY <2>5, WriteKeepsKnown
         DEF WriteRaw, WriteArchive, WriteJudged, Index, Turn, At, files
    <2>6. ASSUME NEW r \in Runners, NEW e \in Events, WriteFiltered(r, e)
          PROVE  KnownInv'
      BY <2>6, WriteKeepsKnown DEF WriteFiltered, Turn, At
    <2>7. ASSUME NEW r \in Runners, NEW e \in Events, Filter(r, e)
          PROVE  KnownInv'
      <3> DEFINE known == Marked(run[r].known, e)
                 out == run[r].out \cup (IF Passes(run[r].known, e) THEN {e} ELSE {})
                 x == [run[r] EXCEPT !.todo = run[r].todo \ {e},
                                     !.known = known, !.out = out]
      <3>1. Active(r) /\ run[r].phase = "filter" /\ run[r] \in Runs
        BY <2>7 DEF Filter, Turn, At, Active, TypeOK
      <3>2. run' = [run EXCEPT ![r] = x]
        BY <2>7 DEF Filter
      <3>3. x.phase = "filter" /\ x.known = known /\ x.out = out
        BY <3>1 DEF Runs
      <3>4. filtered' = filtered /\ lost' = lost
        BY <2>7 DEF Filter, files
      <3>5. knownFile' \subseteq knownFile \cup known
        BY <2>7 DEF Filter
      <3>6. run[r].out \subseteq out /\ known \subseteq run[r].known \cup out
        BY DEF Marked
      <3> HIDE DEF known, out, x
      <3>7. run'[r] = x /\ \A q \in Runners \ {r} : run'[q] = run[q]
        BY <3>2 DEF TypeOK
      <3>8. x # Idle
        BY <3>3 DEF Idle
      <3>9. Held(r)' = out
        BY <3>3, <3>7, <3>8 DEF Held, Active
      <3>10. \A d : Accounted(d) => Accounted(d)'
        BY <3>1, <3>4, <3>6, <3>7, <3>9, AccountedStays DEF Held
      <3>11. \A d \in known : Accounted(d)'
        BY <3>1, <3>6, <3>9, <3>10 DEF KnownInv, Accounted
      <3>12. \A d \in knownFile' : Accounted(d)'
        BY <3>5, <3>10, <3>11 DEF KnownInv
      <3>13. ASSUME NEW q \in Runners, Active(q)', NEW d \in run'[q].known
             PROVE  Accounted(d)'
        <4>1. CASE q = r
          BY <3>3, <3>7, <3>11, <3>13, <4>1
        <4>2. CASE q # r
          BY <3>7, <3>10, <3>13, <4>2 DEF KnownInv, Active
        <4> QED BY <4>1, <4>2
      <3>14. ASSUME NEW q \in Runners, At(q, "evaluate")'
             PROVE  run'[q].out \ run'[q].todo \subseteq filtered'
        <4>1. q # r
          BY <3>3, <3>7, <3>14 DEF At
        <4> QED BY <3>4, <3>7, <3>14, <4>1 DEF KnownInv, At, Active
      <3> QED BY <3>12, <3>13, <3>14 DEF KnownInv
    <2>8. ASSUME NEW r \in Runners, NEW e \in Events, Output(r, e)
          PROVE  KnownInv'
      <3>1. Active(r) /\ run[r].phase = "output" /\ run[r] \in Runs
        BY <2>8 DEF Output, Turn, At, Active, TypeOK
      <3>2. filtered' = filtered /\ lost' = lost /\ knownFile' = knownFile
        BY <2>8 DEF Output
      <3>3. PICK x \in Runs : /\ run' = [run EXCEPT ![r] = x]
                              /\ x.phase = "output" /\ x.known = run[r].known
        BY <2>8, <3>1 DEF Output, Done, Runs
      <3>4. Held(r) = {}
        BY <3>1 DEF Held
      <3> QED BY <3>1, <3>2, <3>3, <3>4, KnownStays
    <2>9. ASSUME NEW r \in Runners, Crash(r)
          PROVE  KnownInv'
      <3>1. filtered' = filtered /\ knownFile' = knownFile /\ lost \subseteq lost'
        BY <2>9 DEF Crash, files
      <3>2. run' = [run EXCEPT ![r] = Idle]
        BY <2>9 DEF Crash
      <3>3. \A e \in Held(r) : e \in filtered' \/ e \in lost'
        BY <2>9, <3>1 DEF Crash, Held
      <3> QED BY <3>1, <3>2, <3>3, KnownStays
    <2>10. ASSUME UNCHANGED <<filtered, knownFile, run, lost>>
           PROVE  KnownInv'
      BY <2>10 DEF KnownInv, Accounted, Held, At, Active
    <2> QED
      BY <2>1, <2>2, <2>3, <2>4, <2>5, <2>6, <2>7, <2>8, <2>9, <2>10
         DEF Next, Step, Elapse, Translate, Review, vars, files
  <1> QED BY <1>1, <1>2, PipelineTypeCorrect, KnownInvSuffices, PTL DEF Spec

-----------------------------------------------------------------------------
(* Runs that do not overlap.  What a run has in its hands once the filter  *)
(* let it through, and those of it that have their draft.                  *)
Hand(x) ==
  (IF x.phase \in {"filter", "archive", "evaluate", "output"}
     THEN x.out ELSE {})
  \cup (IF x.phase \in {"evaluate", "judge", "output", "index"}
          THEN x.todo ELSE {})
  \cup (IF x.phase = "judge" THEN x.batch ELSE {})
PutOut(x) == CASE x.phase = "output" -> x.out
               [] x.phase = "index"  -> x.todo
               [] OTHER -> {}

(* What was filtered is known, and what is in the index has its draft, or  *)
(* had one.                                                                *)
Tables ==
  /\ filtered \subseteq knownFile /\ judged \subseteq knownFile
  /\ index \subseteq knownFile
  /\ autoDrafts => index \subseteq drafts \cup reviewed

(* A run that is alone knows what the file knows, and has nothing in its   *)
(* hands that is in the index, unless it was reviewed.                     *)
Orderly(x) ==
  /\ x.known = knownFile /\ Hand(x) \subseteq knownFile
  /\ autoDrafts => /\ Hand(x) \cap index \subseteq reviewed
                   /\ PutOut(x) \subseteq drafts \cup reviewed

OneRun == \A r, q \in Runners : Active(r) /\ Active(q) => r = q
AloneInv ==
  ~overlapped => OneRun /\ Tables /\ \A r \in Runners : Active(r) => Orderly(run[r])

LEMMA InitAlone == ASSUME Init PROVE AloneInv
  BY DEF Init, AloneInv, OneRun, Tables, Active

(* A run that is alone takes a step: what the others are at need not be    *)
(* looked at.                                                              *)
LEMMA AloneStep ==
  ASSUME TypeOK, AloneInv, NEW r \in Runners, NEW x \in Runs \cup {Idle},
         Active(r), run' = [run EXCEPT ![r] = x], overlapped' = overlapped,
         ~overlapped => Tables' /\ (x # Idle => Orderly(x)')
  PROVE  AloneInv'
  <1> SUFFICES ASSUME ~overlapped
               PROVE  /\ OneRun' /\ Tables'
                      /\ \A q \in Runners : Active(q)' => Orderly(run[q])'
    BY DEF AloneInv
  <1>1. OneRun
    BY DEF AloneInv
  <1>2. run'[r] = x /\ \A q \in Runners \ {r} : run'[q] = run[q]
    BY DEF TypeOK
  <1>3. \A q \in Runners : Active(q)' => q = r
    BY <1>1, <1>2 DEF OneRun, Active
  <1>4. \A q \in Runners : Active(q)' => Orderly(run[q])'
    <2> SUFFICES ASSUME x # Idle PROVE Orderly(run[r])'
      BY <1>2, <1>3 DEF Active
    <2>1. Orderly(x)'
      OBVIOUS
    <2> QED BY <1>2, <2>1 DEF Orderly, Hand, PutOut
  <1> QED BY <1>3, <1>4 DEF OneRun

(* A step that leaves the tables alone. *)
LEMMA TablesStay ==
  ASSUME UNCHANGED <<filtered, judged, index, drafts, reviewed, knownFile,
                     autoDrafts>>,
         NEW x
  PROVE  /\ Tables => Tables'
         /\ Orderly(x) => Orderly(x)'
  BY DEF Tables, Orderly, Hand, PutOut

LEMMA AloneHasTables ==
  ASSUME AloneInv, ~overlapped, NEW r \in Runners, Active(r)
  PROVE  Tables /\ Orderly(run[r])
  BY DEF AloneInv

LEMMA LoadedOrderly ==
  ASSUME TypeOK, Tables, NEW x \in Runs, x.phase = "load", Orderly(x),
         x.stage \in {"filter", "judge", "output"}
  PROVE  Orderly(Loaded(x))
  <1> DEFINE y == Loaded(x)
  <1>1. CASE x.stage = "filter"
    <2>1. y.known = x.known /\ Hand(y) = {} /\ PutOut(y) = {}
      BY <1>1 DEF Loaded, Goes, Runs, Hand, PutOut
    <2> QED BY <2>1 DEF Orderly
  <1>2. CASE x.stage = "judge"
    <2>1. y.known = x.known /\ Hand(y) = PendingJudge /\ PutOut(y) = {}
      BY <1>2 DEF Loaded, Goes, Runs, Hand, PutOut
    <2> QED BY <2>1 DEF Orderly, Tables, PendingJudge
  <1>3. CASE x.stage = "output"
    <2>1. y.known = x.known /\ Hand(y) = PendingOutput /\ PutOut(y) = {}
      BY <1>3 DEF Loaded, Goes, Runs, Hand, PutOut
    <2> QED BY <2>1 DEF Orderly, Tables, PendingOutput
  <1> QED BY <1>1, <1>2, <1>3

LEMMA AdvancedOrderly ==
  ASSUME NEW x \in Runs, x.phase \notin {"load", "collect"}, x.todo = {},
         Orderly(x), Advanced(x) # Idle
  PROVE  Orderly(Advanced(x))
  <1> DEFINE y == Advanced(x)
  <1>1. y.known = x.known
    BY DEF Advanced, Goes, Runs, Phases
  <1>2. Hand(y) \subseteq Hand(x)
    BY DEF Advanced, Goes, Runs, Phases, Hand
  <1>3. PutOut(y) \subseteq PutOut(x)
    BY DEF Advanced, Goes, Runs, Phases, PutOut
  <1> QED BY <1>1, <1>2, <1>3 DEF Orderly

(* Taking an event from what is still to do takes it from the hands only.  *)
LEMMA TurnOrderly ==
  ASSUME NEW x \in Runs, NEW y \in Runs, y.known = x.known,
         y.phase = x.phase, y.out = x.out, y.batch = x.batch,
         y.todo \subseteq x.todo
  PROVE  Hand(y) \subseteq Hand(x) /\ PutOut(y) \subseteq PutOut(x)
  BY DEF Hand, PutOut

LEMMA AloneOfBegin ==
  ASSUME TypeOK, AloneInv, NEW r \in Runners, NEW stage \in Stages,
         Bootstrap(r, stage)
  PROVE  AloneInv'
  <1> SUFFICES ASSUME ~overlapped' PROVE AloneInv'
    BY DEF AloneInv
  <1>1. PICK x : /\ x = [phase |-> IF stage \in {"all", "collect"}
                                     THEN "collect" ELSE "load",
                         stage |-> stage, known |-> knownFile, batch |-> {},
                         todo |-> {}, out |-> {}, outputted |-> {}]
                 /\ run' = [run EXCEPT ![r] = x]
    BY DEF Bootstrap
  <1>2. ~overlapped /\ \A q \in Runners : ~Active(q)
    BY DEF Bootstrap, TypeOK
  <1>3. Orderly(x) /\ Tables
    BY <1>1, <1>2 DEF AloneInv, Orderly, Hand, PutOut
  <1>4. Orderly(x)' /\ Tables'
    BY <1>3, TablesStay DEF Bootstrap, files
  <1>5. run'[r] = x /\ \A q \in Runners : Active(q)' => q = r
    BY <1>1, <1>2 DEF TypeOK, Active
  <1>6. Orderly(run[r])'
    BY <1>4, <1>5 DEF Orderly, Hand, PutOut
  <1> QED BY <1>4, <1>5, <1>6 DEF AloneInv, OneRun

(* Steps between two phases. *)
LEMMA AloneOfPhase ==
  ASSUME TypeOK, LoadsAlone, AloneInv, NEW r \in Runners,
         \/ \E feed \in SUBSET Events : Collect(r, feed)
         \/ Load(r) \/ Advance(r) \/ Crash(r)
  PROVE  AloneInv'
  <1>1. /\ Active(r) /\ run[r] \in Runs /\ overlapped' = overlapped
        /\ UNCHANGED <<filtered, judged, index, drafts, reviewed, knownFile,
                       autoDrafts>>
    BY DEF Collect, Load, Advance, Crash, At, Active, TypeOK, files
  <1>2. PICK x \in Runs \cup {Idle} :
          /\ run' = [run EXCEPT ![r] = x]
          /\ ~overlapped /\ x # Idle => Orderly(x)
    <2>1. ASSUME NEW feed \in SUBSET Events, Collect(r, feed)
          PROVE  \E x \in Runs : /\ run' = [run EXCEPT ![r] = x]
                                 /\ ~overlapped => Orderly(x)
      <3> DEFINE x == Goes(run[r], "raw", feed, feed, {})
      <3>1. x \in Runs /\ x.known = run[r].known /\ Hand(x) = {} /\ PutOut(x) = {}
        BY <1>1 DEF Goes, Runs, Phases, Hand, PutOut
      <3>2. ~overlapped => Orderly(x)
        BY <1>1, <3>1, AloneHasTables DEF Orderly
      <3>3. run' = [run EXCEPT ![r] = x]
        BY <2>1 DEF Collect
      <3> QED BY <3>1, <3>2, <3>3
    <2>2. CASE Load(r)
      <3>1. /\ run[r].phase = "load"
            /\ run[r].stage \in {"filter", "judge", "output"}
        BY <2>2 DEF Load, LoadsAlone, At
      <3>2. Loaded(run[r]) \in Runs
        BY <1>1, <3>1, LoadedType
      <3>3. ~overlapped => Orderly(Loaded(run[r]))
        BY <1>1, <3>1, AloneHasTables, LoadedOrderly
      <3> QED BY <2>2, <3>2, <3>3 DEF Load
    <2>3. CASE Advance(r)
      <3>1. run[r].phase \notin {"load", "collect"} /\ run[r].todo = {}
        BY <2>3 DEF Advance
      <3>2. Advanced(run[r]) \in Runs \cup {Idle}
        BY <1>1, <3>1, AdvancedType
      <3>3. ~overlapped /\ Advanced(run[r]) # Idle => Orderly(Advanced(run[r]))
        BY <1>1, <3>1, AloneHasTables, AdvancedOrderly
      <3> QED BY <2>3, <3>2, <3>3 DEF Advance
    <2>4. CASE Crash(r)
      BY <2>4 DEF Crash
    <2> QED BY <2>1, <2>2, <2>3, <2>4
  <1>3. ~overlapped => Tables' /\ (x # Idle => Orderly(x)')
    BY <1>1, <1>2, AloneHasTables, TablesStay
  <1> QED BY <1>1, <1>2, <1>3, AloneStep

(* Writes of one event: the record, with the event done.                   *)
LEMMA AloneOfWrite ==
  ASSUME TypeOK, AloneInv, NEW r \in Runners, NEW e \in Events,
         \/ WriteRaw(r, e) \/ WriteArchive(r, e) \/ WriteFiltered(r, e)
         \/ WriteJudged(r, e) \/ Index(r, e)
  PROVE  AloneInv'
  <1>1. Active(r) /\ Done(r, e) /\ overlapped' = overlapped /\ e \in run[r].todo
    BY DEF WriteRaw, WriteArchive, WriteFiltered, WriteJudged, Index, Turn, At
  <1>2. PICK x \in Runs : x = [run[r] EXCEPT !.todo = @ \ {e}]
    BY <1>1, TurnTaken
  <1>3. /\ run' = [run EXCEPT ![r] = x] /\ run[r] \in Runs
        /\ x.known = run[r].known /\ x.phase = run[r].phase
        /\ x.out = run[r].out /\ x.batch = run[r].batch
        /\ x.todo = run[r].todo \ {e}
    BY <1>1, <1>2 DEF Done, TypeOK, Active, Runs
  <1>4. Hand(x) \subseteq Hand(run[r]) /\ PutOut(x) \subseteq PutOut(run[r])
    BY <1>2, <1>3, TurnOrderly
  <1>5. ASSUME ~overlapped PROVE Tables' /\ Orderly(x)'
    <2>1. Tables /\ Orderly(run[r])
      BY <1>1, <1>5, AloneHasTables
    <2>2. Orderly(x)
      BY <1>3, <1>4, <2>1 DEF Orderly
    <2>3. CASE WriteRaw(r, e) \/ WriteArchive(r, e)
      BY <2>1, <2>2, <2>3, TablesStay DEF WriteRaw, WriteArchive
    <2>4. CASE WriteFiltered(r, e) \/ WriteJudged(r, e)
      <3>1. e \in knownFile
        BY <1>1, <2>1, <2>4
           DEF Orderly, Hand, WriteFiltered, WriteJudged, Turn, At
      <3>2. /\ UNCHANGED <<index, drafts, reviewed, knownFile, autoDrafts>>
            /\ filtered' \subseteq filtered \cup {e}
            /\ judged' \subseteq judged \cup {e}
        BY <2>4 DEF WriteFiltered, WriteJudged
      <3> QED BY <2>1, <2>2, <3>1, <3>2 DEF Tables, Orderly, Hand, PutOut
    <2>5. CASE Index(r, e)
      <3>1. run[r].phase = "index"
        BY <2>5 DEF Index, Turn, At
      <3>2. e \in knownFile /\ (autoDrafts => e \in drafts \cup reviewed)
        BY <1>1, <2>1, <3>1 DEF Orderly, Hand, PutOut
      <3>3. /\ UNCHANGED <<filtered, judged, drafts, reviewed, knownFile,
                           autoDrafts>>
            /\ index' = index \cup {e}
        BY <2>5 DEF Index, files
      <3>4. e \notin Hand(x)
        BY <1>3, <3>1 DEF Hand
      <3>5. Tables'
        BY <2>1, <3>2, <3>3 DEF Tables
      <3>6. Orderly(x)'
        BY <2>2, <3>3, <3>4 DEF Orderly, Hand, PutOut
      <3> QED BY <3>5, <3>6
    <2> QED BY <2>3, <2>4, <2>5
  <1> QED BY <1>1, <1>3, <1>5, AloneStep

(* What passes is new to the file, hence to the index.                     *)
LEMMA AloneOfFilter ==
  ASSUME TypeOK, AloneInv, NEW r \in Runners, NEW e \in Events, Filter(r, e)
  PROVE  AloneInv'
  <1>1. /\ Active(r) /\ run[r] \in Runs /\ run[r].phase = "filter"
        /\ overlapped' = overlapped
        /\ UNCHANGED <<filtered, judged, index, drafts, reviewed, autoDrafts>>
    BY DEF Filter, Turn, At, Active, TypeOK, files
  <1>2. PICK known \in SUBSET Events : known = Marked(run[r].known, e)
    BY <1>1 DEF Marked, Runs
  <1>3. PICK out \in SUBSET Events :
          out = run[r].out \cup (IF Passes(run[r].known, e) THEN {e} ELSE {})
    BY <1>1 DEF Runs
  <1>4. PICK x \in Runs : x = [run[r] EXCEPT !.todo = run[r].todo \ {e},
                                             !.known = known, !.out = out]
    BY <1>1, <1>2, <1>3 DEF Runs
  <1>5. /\ run' = [run EXCEPT ![r] = x]
        /\ x.phase = "filter" /\ x.known = known /\ x.out = out
    BY <1>1, <1>2, <1>3, <1>4 DEF Filter, Runs
  <1>6. ASSUME ~overlapped PROVE Tables' /\ Orderly(x)'
    <2>1. Tables /\ Orderly(run[r])
      BY <1>1, <1>6, AloneHasTables
    <2>2. run[r].known = knownFile /\ run[r].out \subseteq knownFile
          /\ (autoDrafts => run[r].out \cap index \subseteq reviewed)
      BY <1>1, <2>1 DEF Orderly, Hand
    <2>3. knownFile' = known
      BY <1>2, <2>2 DEF Filter
    <2>4. knownFile \subseteq known /\ out \subseteq known
          /\ out \subseteq run[r].out \cup (known \ knownFile)
      BY <1>2, <1>3, <2>2 DEF Marked, Passes
    <2>5. Tables'
      BY <1>1, <2>1, <2>3, <2>4 DEF Tables
    <2>6. Hand(x) = out /\ PutOut(x) = {}
      BY <1>5 DEF Hand, PutOut
    <2>7. autoDrafts => out \cap index \subseteq reviewed
      BY <2>1, <2>2, <2>4 DEF Tables
    <2>8. Orderly(x)'
      BY <1>1, <1>5, <2>3, <2>4, <2>6, <2>7 DEF Orderly, Hand, PutOut
    <2> QED BY <2>5, <2>8
  <1> QED BY <1>1, <1>5, <1>6, AloneStep

LEMMA AloneOfOutput ==
  ASSUME TypeOK, AloneInv, NEW r \in Runners, NEW e \in Events, Output(r, e)
  PROVE  AloneInv'
  <1>1. /\ Active(r) /\ run[r] \in Runs /\ run[r].phase = "output"
        /\ e \in run[r].todo /\ overlapped' = overlapped
        /\ UNCHANGED <<filtered, judged, index, reviewed, knownFile, autoDrafts>>
    BY DEF Output, Turn, At, Active, TypeOK
  <1>2. PICK x \in Runs :
          /\ run' = [run EXCEPT ![r] = x]
          /\ x.phase = "output" /\ x.known = run[r].known
          /\ x.todo \subseteq run[r].todo
          /\ drafts \subseteq drafts'
          /\ \/ x.out = run[r].out
             \/ /\ x.out = run[r].out \cup {e}
                /\ autoDrafts => e \in drafts'
    BY <1>1 DEF Output, Done, Runs
  <1>3. ASSUME ~overlapped PROVE Tables' /\ Orderly(x)'
    <2>1. Tables /\ Orderly(run[r])
      BY <1>1, <1>3, AloneHasTables
    <2>2. Tables'
      BY <1>1, <1>2, <2>1 DEF Tables
    <2>3. Hand(x) \subseteq Hand(run[r])
      BY <1>1, <1>2 DEF Hand
    <2>4. autoDrafts => PutOut(x) \subseteq drafts' \cup reviewed
      BY <1>1, <1>2, <2>1 DEF Orderly, PutOut
    <2>5. Orderly(x)'
      BY <1>1, <1>2, <2>1, <2>3, <2>4 DEF Orderly, Hand, PutOut
    <2> QED BY <2>2, <2>5
  <1> QED BY <1>1, <1>2, <1>3, AloneStep

LEMMA StepAlone ==
  ASSUME TypeOK, LoadsAlone, AloneInv, [Next]_vars
  PROVE  AloneInv'
  <1>1. ASSUME NEW r \in Runners, NEW stage \in Stages, Bootstrap(r, stage)
        PROVE  AloneInv'
    BY <1>1, AloneOfBegin
  <1>2. ASSUME NEW r \in Runners, Step(r) \/ Crash(r)
        PROVE  AloneInv'
    <2>1. CASE \/ \E feed \in SUBSET Events : Collect(r, feed)
               \/ Load(r) \/ Advance(r) \/ Crash(r)
      BY <2>1, AloneOfPhase
    <2>2. ASSUME NEW e \in Events,
                 \/ WriteRaw(r, e) \/ WriteArchive(r, e) \/ WriteFiltered(r, e)
                 \/ WriteJudged(r, e) \/ Index(r, e)
          PROVE  AloneInv'
      BY <2>2, AloneOfWrite
    <2>3. ASSUME NEW e \in Events, Filter(r, e) \/ Output(r, e)
          PROVE  AloneInv'
      BY <2>3, AloneOfFilter, AloneOfOutput
    <2> QED BY <1>2, <2>1, <2>2, <2>3 DEF Step
  <1>3. CASE \E e \in Events : Review(e)
    <2>1. /\ UNCHANGED <<filtered, judged, index, knownFile, autoDrafts, run,
                         overlapped>>
          /\ reviewed \subseteq reviewed'
          /\ drafts \cup reviewed \subseteq drafts' \cup reviewed'
      BY <1>3 DEF Review
    <2>2. Tables => Tables'
      BY <2>1 DEF Tables
    <2>3. \A x : Orderly(x) => Orderly(x)'
      BY <2>1 DEF Orderly, Hand, PutOut
    <2>4. \A r \in Runners : Active(r)' => Active(r)
      BY <2>1 DEF Active
    <2>5. OneRun => OneRun'
      BY <2>1 DEF OneRun, Active
    <2>6. ~overlapped => \A r \in Runners : Active(r)' => Orderly(run[r])'
      BY <2>1, <2>3, <2>4 DEF AloneInv, Orderly, Hand, PutOut
    <2> QED BY <2>1, <2>2, <2>5, <2>6 DEF AloneInv
  <1>4. CASE UNCHANGED <<filtered, judged, index, drafts, reviewed, knownFile,
                         autoDrafts, run, overlapped>>
    BY <1>4 DEF AloneInv, OneRun, Tables, Active, Orderly, Hand, PutOut
  <1> QED BY <1>1, <1>2, <1>3, <1>4 DEF Next, Elapse, Translate, vars, files

(* While runs do not overlap, a run and the files agree on where each of   *)
(* its events is: every state satisfies AloneInv.                          *)
THEOREM AloneStaysOrderly == Spec => []AloneInv
  BY InitAlone, StepAlone, PipelineTypeCorrect, PTL DEF Spec

(* While runs do not overlap, no event passes the filter after it has its  *)
(* filtered file (FilterPipeline of skills/filter over core/memory.py).    *)
THEOREM PassesOnce == Spec => PassedOnce
  <1> DEFINE Once == ~overlapped =>
               \A r \in Runners : (Passing(r)' \ Passing(r)) \cap filtered = {}
  <1>1. TypeOK /\ LoadsAlone /\ AloneInv /\ [Next]_vars => [Once]_vars
    <2> SUFFICES ASSUME TypeOK, LoadsAlone, AloneInv, Next, ~overlapped,
                        NEW q \in Runners
                 PROVE  (Passing(q)' \ Passing(q)) \cap filtered = {}
      OBVIOUS
    <2>1. CASE run'[q] = run[q]
      BY <2>1 DEF Passing, At, Active
    <2>2. ASSUME NEW r \in Runners, NEW e \in Events, Filter(r, e), q = r
          PROVE  (Passing(q)' \ Passing(q)) \cap filtered = {}
      <3>1. Active(r) /\ run[r] \in Runs /\ At(r, "filter")
        BY <2>2 DEF Filter, Turn, At, Active, TypeOK
      <3>2. Passing(r)' \subseteq run[r].out \cup
              (IF Passes(run[r].known, e) THEN {e} ELSE {})
        BY <2>2, <3>1 DEF Filter, Passing, At, Active, Runs, TypeOK
      <3>3. filtered \subseteq run[r].known
        BY <3>1, AloneHasTables DEF Tables, Orderly
      <3> QED BY <2>2, <3>1, <3>2, <3>3 DEF Passing, Passes
    <2>3. ASSUME NEW r \in Runners, NEW stage \in Stages, Bootstrap(r, stage),
                 q = r
          PROVE  Passing(q)' = {}
      BY <2>3 DEF Bootstrap, Passing, At, Active, TypeOK
    <2>4. ASSUME NEW r \in Runners, q = r,
                 \/ \E feed \in SUBSET Events : Collect(r, feed)
                 \/ Load(r) \/ Crash(r)
          PROVE  Passing(q)' = {}
      <3>1. run[r] \in Runs
        BY <2>4 DEF Collect, Load, Crash, At, Active, TypeOK
      <3>2. CASE \E feed \in SUBSET Events : Collect(r, feed)
        BY <2>4, <3>1, <3>2 DEF Collect, Goes, Passing, At, Active, Runs, TypeOK
      <3>3. CASE Load(r)
        <4>1. run[r].stage \in {"filter", "judge", "output"}
          BY <3>3 DEF Load, LoadsAlone
        <4>2. Loaded(run[r]).out = {}
          BY <3>1, <4>1 DEF Loaded, Goes, Runs
        <4> QED BY <2>4, <3>3, <4>2 DEF Load, Passing, At, Active, TypeOK
      <3>4. CASE Crash(r)
        BY <2>4, <3>4 DEF Crash, Passing, At, Active, TypeOK
      <3> QED BY <2>4, <3>2, <3>3, <3>4
    <2>5. ASSUME NEW r \in Runners, q = r, Advance(r)
          PROVE  Passing(q)' = {}
      <3>1. run[r] \in Runs /\ run[r].phase \notin {"load", "collect"}
        BY <2>5 DEF Advance, Active, TypeOK
      <3>2. \/ Advanced(run[r]) = Idle \/ Advanced(run[r]).phase # "filter"
            \/ Advanced(run[r]).out = {}
        BY <3>1 DEF Advanced, Goes, Runs, Phases
      <3> QED BY <2>5, <3>2 DEF Advance, Passing, At, Active, TypeOK
    <2>6. ASSUME NEW r \in Runners, q = r, NEW e \in Events,
                 \/ WriteRaw(r, e) \/ WriteArchive(r, e) \/ WriteFiltered(r, e)
                 \/ WriteJudged(r, e) \/ Output(r, e) \/ Index(r, e)
          PROVE  Passing(q)' = {}
      <3>1. /\ run[r] \in Runs /\ run[r].phase # "filter"
            /\ run'[r].phase = run[r].phase
        BY <2>6 DEF WriteRaw, WriteArchive, WriteFiltered, WriteJudged, Output,
           Index, Turn, At, Active, Done, Runs, TypeOK
      <3> QED BY <2>6, <3>1 DEF Passing, At
    <2>7. ASSUME NEW r \in Runners, q # r,
                 \/ \E stage \in Stages : Bootstrap(r, stage)
                 \/ Step(r) \/ Crash(r)
          PROVE  run'[q] = run[q]
      BY <2>7 DEF Bootstrap, Step, Crash, Collect, Load, Advance, WriteRaw,
         Filter, WriteArchive, WriteFiltered, WriteJudged, Output, Index, Done,
         TypeOK
    <2>8. CASE \E e \in Events : Elapse(e) \/ Translate(e) \/ Review(e)
      BY <2>1, <2>8 DEF Elapse, Translate, Review
    <2> QED BY <2>1, <2>2, <2>3, <2>4, <2>5, <2>6, <2>7, <2>8 DEF Next, Step
  <1> QED BY <1>1, AloneStaysOrderly, PipelineTypeCorrect, PTL
          DEF Spec, PassedOnce

-----------------------------------------------------------------------------
(* What a filter or an output that is alone has still to settle is in its  *)
(* hands, at every phase of it.                                            *)
Settled == archive \cup filtered \cup judged

FilterOnCourse(x) ==
  x.stage = "filter" =>
    /\ x.phase \in {"load", "filter", "archive", "evaluate"}
    /\ x.phase = "filter" => raw \subseteq Settled \cup x.batch
    /\ x.phase = "archive" => raw \subseteq Settled \cup x.todo \cup x.out
    /\ x.phase = "evaluate" => raw \subseteq Settled \cup x.todo

OutputOnCourse(x) ==
  x.stage = "output" =>
    /\ x.phase \in {"load", "output", "index"}
    /\ ~autoDrafts /\ x.phase = "output" => judged \subseteq x.todo \cup x.out
    /\ ~autoDrafts /\ x.phase = "index" => judged \subseteq index \cup x.todo

OnCourse(x) == FilterOnCourse(x) /\ OutputOnCourse(x)

CourseInv ==
  /\ ~autoDrafts => drafts = {}
  /\ ~overlapped => \A r \in Runners : Active(r) => OnCourse(run[r])

LEMMA LoadedOnCourse ==
  ASSUME CourseInv, NEW x \in Runs, x.phase = "load",
         x.stage \in {"filter", "judge", "output"}
  PROVE  OnCourse(Loaded(x))
  <1> DEFINE y == Loaded(x)
  <1>1. CASE x.stage = "filter"
    <2>1. y.stage = "filter" /\ y.phase = "filter" /\ y.batch = PendingFilter
      BY <1>1 DEF Loaded, Goes, Runs
    <2> QED BY <2>1 DEF OnCourse, FilterOnCourse, OutputOnCourse, PendingFilter,
                        Settled
  <1>2. CASE x.stage = "judge"
    <2>1. y.stage = "judge"
      BY <1>2 DEF Loaded, Goes, Runs
    <2> QED BY <2>1 DEF OnCourse, FilterOnCourse, OutputOnCourse
  <1>3. CASE x.stage = "output"
    <2>1. y.stage = "output" /\ y.phase = "output" /\ y.todo = PendingOutput
      BY <1>3 DEF Loaded, Goes, Runs
    <2> QED BY <2>1 DEF OnCourse, FilterOnCourse, OutputOnCourse, PendingOutput,
                        CourseInv
  <1> QED BY <1>1, <1>2, <1>3

LEMMA AdvancedOnCourse ==
  ASSUME NEW x \in Runs, x.phase \notin {"load", "collect"}, x.todo = {},
         OnCourse(x), Advanced(x) # Idle
  PROVE  OnCourse(Advanced(x))
  <1> DEFINE y == Advanced(x)
  <1>1. y.stage = x.stage
    BY DEF Advanced, Goes, Runs, Phases
  <1>2. ASSUME x.stage = "filter" PROVE FilterOnCourse(y)
    <2>1. x.phase \in {"filter", "archive"}
      BY <1>2 DEF OnCourse, FilterOnCourse, Advanced
    <2>2. CASE x.phase = "filter"
      <3>1. /\ y.phase = "archive" /\ y.todo = x.batch \ x.out
            /\ y.out = x.out
        BY <2>2 DEF Advanced, Rejected, Goes, Runs
      <3>2. raw \subseteq Settled \cup x.batch
        BY <1>2, <2>2 DEF OnCourse, FilterOnCourse
      <3> HIDE DEF y
      <3> QED BY <3>1, <3>2 DEF FilterOnCourse
    <2>3. CASE x.phase = "archive"
      <3>1. y.phase = "evaluate" /\ y.todo = x.out
        BY <2>3 DEF Advanced, Goes, Runs
      <3>2. raw \subseteq Settled \cup x.out
        BY <1>2, <2>3 DEF OnCourse, FilterOnCourse
      <3> HIDE DEF y
      <3> QED BY <3>1, <3>2 DEF FilterOnCourse
    <2> QED BY <2>1, <2>2, <2>3
  <1>3. ASSUME x.stage = "output" PROVE OutputOnCourse(y)
    <2>1. x.phase = "output"
      BY <1>3 DEF OnCourse, OutputOnCourse, Advanced
    <2>2. y.phase = "index" /\ y.todo = x.out
      BY <2>1 DEF Advanced, Goes, Runs
    <2>3. ~autoDrafts => judged \subseteq x.out
      BY <1>3, <2>1 DEF OnCourse, OutputOnCourse
    <2> HIDE DEF y
    <2> QED BY <2>2, <2>3 DEF OutputOnCourse
  <1> QED BY <1>1, <1>2, <1>3 DEF OnCourse, FilterOnCourse, OutputOnCourse

(* The only run takes a step. *)
LEMMA CourseStep ==
  ASSUME TypeOK, AloneInv, CourseInv, NEW r \in Runners, Active(r),
         NEW x \in Runs \cup {Idle}, run' = [run EXCEPT ![r] = x],
         overlapped' = overlapped, ~autoDrafts' => drafts' = {},
         ~overlapped /\ OnCourse(run[r]) /\ x # Idle => OnCourse(x)'
  PROVE  CourseInv'
  <1> SUFFICES ASSUME ~overlapped, NEW q \in Runners, Active(q)'
               PROVE  OnCourse(run[q])'
    BY DEF CourseInv
  <1>1. run'[r] = x /\ \A p \in Runners \ {r} : run'[p] = run[p]
    BY DEF TypeOK
  <1>2. q = r
    BY <1>1 DEF AloneInv, OneRun, Active
  <1>3. OnCourse(x)'
    BY <1>1, <1>2 DEF CourseInv, Active
  <1> QED BY <1>1, <1>2, <1>3 DEF OnCourse, FilterOnCourse, OutputOnCourse, Settled

LEMMA CourseOfPhase ==
  ASSUME TypeOK, LoadsAlone, AloneInv, CourseInv, NEW r \in Runners,
         \/ \E feed \in SUBSET Events : Collect(r, feed)
         \/ Load(r) \/ Advance(r) \/ Crash(r)
  PROVE  CourseInv'
  <1>1. /\ Active(r) /\ run[r] \in Runs /\ overlapped' = overlapped
        /\ UNCHANGED <<raw, archive, filtered, judged, index, drafts, autoDrafts>>
    BY DEF Collect, Load, Advance, Crash, At, Active, TypeOK, files
  <1>2. PICK x \in Runs \cup {Idle} :
          /\ run' = [run EXCEPT ![r] = x]
          /\ OnCourse(run[r]) /\ x # Idle => OnCourse(x)
    <2>1. ASSUME NEW feed \in SUBSET Events, Collect(r, feed)
          PROVE  \E x \in Runs : /\ run' = [run EXCEPT ![r] = x]
                                 /\ OnCourse(run[r]) => OnCourse(x)
      <3> DEFINE x == Goes(run[r], "raw", feed, feed, {})
      <3>1. x \in Runs /\ x.stage = run[r].stage /\ run[r].phase = "collect"
        BY <1>1, <2>1 DEF Collect, At, Goes, Runs, Phases
      <3>2. OnCourse(run[r]) => OnCourse(x)
        BY <3>1 DEF OnCourse, FilterOnCourse, OutputOnCourse
      <3>3. run' = [run EXCEPT ![r] = x]
        BY <2>1 DEF Collect
      <3> QED BY <3>1, <3>2, <3>3
    <2>2. CASE Load(r)
      <3>1. /\ run[r].phase = "load"
            /\ run[r].stage \in {"filter", "judge", "output"}
        BY <2>2 DEF Load, LoadsAlone, At
      <3>2. Loaded(run[r]) \in Runs /\ OnCourse(Loaded(run[r]))
        BY <1>1, <3>1, LoadedType, LoadedOnCourse
      <3> QED BY <2>2, <3>2 DEF Load
    <2>3. CASE Advance(r)
      <3>1. run[r].phase \notin {"load", "collect"} /\ run[r].todo = {}
        BY <2>3 DEF Advance
      <3>2. Advanced(run[r]) \in Runs \cup {Idle}
        BY <1>1, <3>1, AdvancedType
      <3>3. OnCourse(run[r]) /\ Advanced(run[r]) # Idle => OnCourse(Advanced(run[r]))
        BY <1>1, <3>1, AdvancedOnCourse
      <3> QED BY <2>3, <3>2, <3>3 DEF Advance
    <2>4. CASE Crash(r)
      BY <2>4 DEF Crash
    <2> QED BY <2>1, <2>2, <2>3, <2>4
  <1>3. OnCourse(x) => OnCourse(x)'
    BY <1>1 DEF OnCourse, FilterOnCourse, OutputOnCourse, Settled
  <1>4. ~autoDrafts' => drafts' = {}
    BY <1>1 DEF CourseInv
  <1> QED BY <1>1, <1>2, <1>3, <1>4, CourseStep

(* The writes of one event: what leaves the hands is settled. *)
LEMMA CourseOfWrite ==
  ASSUME TypeOK, AloneInv, CourseInv, NEW r \in Runners, NEW e \in Events,
         \/ WriteRaw(r, e) \/ WriteArchive(r, e) \/ WriteFiltered(r, e)
         \/ WriteJudged(r, e) \/ Index(r, e)
  PROVE  CourseInv'
  <1>1. /\ Active(r) /\ Done(r, e) /\ overlapped' = overlapped
        /\ UNCHANGED <<drafts, autoDrafts>>
    BY DEF WriteRaw, WriteArchive, WriteFiltered, WriteJudged, Index, Turn, At,
           files
  <1>2. PICK x \in Runs : x = [run[r] EXCEPT !.todo = @ \ {e}]
    BY <1>1, TurnTaken
  <1>3. /\ run' = [run EXCEPT ![r] = x] /\ x.stage = run[r].stage
        /\ x.phase = run[r].phase /\ x.out = run[r].out
        /\ x.batch = run[r].batch /\ x.todo = run[r].todo \ {e}
    BY <1>1, <1>2 DEF Done, TypeOK, Active, Runs
  <1>4. ASSUME OnCourse(run[r]) PROVE OnCourse(x)'
    <2> USE DEF OnCourse, FilterOnCourse, OutputOnCourse, Settled
    <2>1. CASE WriteRaw(r, e)
      BY <1>3, <1>4, <2>1 DEF WriteRaw, Turn, At
    <2>2. CASE WriteArchive(r, e)
      BY <1>3, <1>4, <2>2 DEF WriteArchive, Turn, At
    <2>3. CASE WriteFiltered(r, e)
      BY <1>3, <1>4, <2>3 DEF WriteFiltered, Turn, At
    <2>4. CASE WriteJudged(r, e)
      BY <1>3, <1>4, <2>4 DEF WriteJudged, Turn, At
    <2>5. CASE Index(r, e)
      BY <1>3, <1>4, <2>5 DEF Index, Turn, At, files
    <2> QED BY <2>1, <2>2, <2>3, <2>4, <2>5
  <1> QED BY <1>1, <1>3, <1>4, CourseStep DEF CourseInv

LEMMA CourseOfFilter ==
  ASSUME TypeOK, AloneInv, CourseInv, NEW r \in Runners, NEW e \in Events,
         Filter(r, e)
  PROVE  CourseInv'
  <1>1. /\ Active(r) /\ run[r] \in Runs /\ run[r].phase = "filter"
        /\ overlapped' = overlapped
        /\ UNCHANGED <<raw, archive, filtered, judged, drafts, index, autoDrafts>>
    BY DEF Filter, Turn, At, Active, TypeOK, files
  <1>2. PICK x \in Runs :
          /\ run' = [run EXCEPT ![r] = x]
          /\ x.stage = run[r].stage /\ x.phase = "filter"
          /\ x.batch = run[r].batch
    <2> DEFINE known == Marked(run[r].known, e)
               out == run[r].out \cup (IF Passes(run[r].known, e) THEN {e} ELSE {})
               x == [run[r] EXCEPT !.todo = run[r].todo \ {e},
                                   !.known = known, !.out = out]
    <2>1. known \in SUBSET Events /\ out \in SUBSET Events
      BY <1>1 DEF Marked, Runs
    <2>2. run' = [run EXCEPT ![r] = x]
      BY <1>1 DEF Filter, Runs
    <2> HIDE DEF known, out
    <2>3. x \in Runs /\ x.stage = run[r].stage /\ x.phase = "filter"
          /\ x.batch = run[r].batch
      BY <1>1, <2>1 DEF Runs
    <2> HIDE DEF x
    <2> QED BY <2>2, <2>3
  <1>3. OnCourse(run[r]) => OnCourse(x)'
    BY <1>1, <1>2 DEF OnCourse, FilterOnCourse, OutputOnCourse, Settled
  <1> QED BY <1>1, <1>2, <1>3, CourseStep DEF CourseInv

LEMMA CourseOfOutput ==
  ASSUME TypeOK, AloneInv, CourseInv, NEW r \in Runners, NEW e \in Events,
         Output(r, e)
  PROVE  CourseInv'
  <1>1. /\ Active(r) /\ run[r] \in Runs /\ run[r].phase = "output"
        /\ overlapped' = overlapped /\ (~autoDrafts => drafts' = drafts)
        /\ UNCHANGED <<raw, archive, filtered, judged, index, autoDrafts>>
    BY DEF Output, Turn, At, Active, TypeOK
  <1>2. PICK x \in Runs :
          /\ run' = [run EXCEPT ![r] = x]
          /\ x.stage = run[r].stage /\ x.phase = "output"
          /\ x.todo = run[r].todo \ {e}
          /\ ~autoDrafts => x.out = run[r].out \cup {e}
    <2> DEFINE x == [run[r] EXCEPT !.todo = @ \ {e}, !.out = @ \cup {e},
                                   !.outputted = @ \cup {e}]
               y == [run[r] EXCEPT !.todo = @ \ {e}]
    <2>1. /\ x \in Runs /\ x.stage = run[r].stage /\ x.phase = "output"
          /\ x.todo = run[r].todo \ {e} /\ x.out = run[r].out \cup {e}
      BY <1>1 DEF Runs
    <2>2. /\ y \in Runs /\ y.stage = run[r].stage /\ y.phase = "output"
          /\ y.todo = run[r].todo \ {e}
      BY <1>1 DEF Runs
    <2>3. \/ run' = [run EXCEPT ![r] = x]
          \/ autoDrafts /\ run' = [run EXCEPT ![r] = y]
      BY <1>1 DEF Output, Done, TypeOK, Runs
    <2> HIDE DEF x, y
    <2> QED BY <2>1, <2>2, <2>3
  <1>3. OnCourse(run[r]) => OnCourse(x)'
    BY <1>1, <1>2 DEF OnCourse, FilterOnCourse, OutputOnCourse
  <1> QED BY <1>1, <1>2, <1>3, CourseStep DEF CourseInv

LEMMA StepOnCourse ==
  ASSUME TypeOK, LoadsAlone, AloneInv, CourseInv, [Next]_vars
  PROVE  CourseInv'
  <1>1. ASSUME NEW r \in Runners, NEW stage \in Stages, Bootstrap(r, stage)
        PROVE  CourseInv'
    <2> SUFFICES ASSUME ~overlapped', NEW q \in Runners, Active(q)'
                 PROVE  OnCourse(run[q])'
      BY <1>1 DEF Bootstrap, CourseInv, files
    <2>1. q = r
      BY <1>1 DEF Bootstrap, TypeOK, Active
    <2>2. /\ run'[r].stage = stage
          /\ run'[r].phase = IF stage \in {"all", "collect"}
                               THEN "collect" ELSE "load"
      BY <1>1 DEF Bootstrap, TypeOK
    <2> QED BY <2>1, <2>2 DEF OnCourse, FilterOnCourse, OutputOnCourse
  <1>2. ASSUME NEW r \in Runners, Step(r) \/ Crash(r)
        PROVE  CourseInv'
    <2>1. CASE \/ \E feed \in SUBSET Events : Collect(r, feed)
               \/ Load(r) \/ Advance(r) \/ Crash(r)
      BY <2>1, CourseOfPhase
    <2>2. ASSUME NEW e \in Events,
                 \/ WriteRaw(r, e) \/ WriteArchive(r, e) \/ WriteFiltered(r, e)
                 \/ WriteJudged(r, e) \/ Index(r, e)
          PROVE  CourseInv'
      BY <2>2, CourseOfWrite
    <2>3. ASSUME NEW e \in Events, Filter(r, e) \/ Output(r, e)
          PROVE  CourseInv'
      BY <2>3, CourseOfFilter, CourseOfOutput
    <2> QED BY <1>2, <2>1, <2>2, <2>3 DEF Step
  <1>3. CASE \E e \in Events : Elapse(e) \/ Translate(e) \/ Review(e)
    <2>1. /\ UNCHANGED <<raw, archive, filtered, judged, index, autoDrafts, run,
                         overlapped>>
          /\ drafts' \subseteq drafts
      BY <1>3 DEF Elapse, Translate, Review, files
    <2> QED BY <2>1 DEF CourseInv, OnCourse, FilterOnCourse, OutputOnCourse,
                        Settled, Active
  <1>4. CASE UNCHANGED vars
    BY <1>4 DEF vars, files, CourseInv, OnCourse, FilterOnCourse, OutputOnCourse,
                Settled, Active
  <1> QED BY <1>1, <1>2, <1>3, <1>4 DEF Next

(* A filter or an output that ends with no other run beside it leaves      *)
(* nothing to be settled, whatever runs died before (_run_filter and       *)
(* _run_output over the pending files of core/run.py).                     *)
THEOREM StagesFinish == Spec => StageFinishes
  <1> DEFINE Finish ==
        ~overlapped =>
          \A r \in Runners :
            Active(r) /\ ~Active(r)' /\ faults' = faults =>
              /\ run[r].stage = "filter" =>
                   raw \subseteq archive \cup filtered \cup judged
              /\ run[r].stage = "output" /\ ~autoDrafts => judged \subseteq index
  <1>1. Init => CourseInv
    BY DEF Init, CourseInv, Active
  <1>2. TypeOK /\ LoadsAlone /\ CourseInv /\ [Next]_vars => [Finish]_vars
    <2> SUFFICES ASSUME TypeOK, LoadsAlone, CourseInv, Next PROVE Finish
      OBVIOUS
    <2> SUFFICES ASSUME ~overlapped, NEW r \in Runners, Active(r), ~Active(r)',
                        faults' = faults
                 PROVE  /\ run[r].stage = "filter" =>
                             raw \subseteq archive \cup filtered \cup judged
                        /\ run[r].stage = "output" /\ ~autoDrafts =>
                             judged \subseteq index
      OBVIOUS
    <2>1. Advance(r)
      <3>1. ASSUME NEW q \in Runners, Step(q), ~Advance(q) PROVE Active(r)'
        <4>1. Active(q) /\ run[q] \in Runs
          BY <3>1 DEF Step, Collect, Load, WriteRaw, Filter, WriteArchive,
             WriteFiltered, WriteJudged, Output, Index, Turn, At, Active, TypeOK
        <4>2. ASSUME NEW x \in Runs, run' = [run EXCEPT ![q] = x]
              PROVE  Active(r)'
          BY <4>2 DEF Active, TypeOK, Runs, Phases, Idle
        <4>3. ASSUME NEW feed \in SUBSET Events, Collect(q, feed)
              PROVE  Active(r)'
          <5>1. Goes(run[q], "raw", feed, feed, {}) \in Runs
            BY <4>1 DEF Goes, Runs, Phases
          <5> QED BY <4>2, <4>3, <5>1 DEF Collect
        <4>4. CASE Load(q)
          <5>1. Loaded(run[q]) \in Runs
            BY <4>1, <4>4, LoadedType DEF Load, LoadsAlone, At
          <5> QED BY <4>2, <4>4, <5>1 DEF Load
        <4>5. ASSUME NEW e \in Events,
                     \/ WriteRaw(q, e) \/ Filter(q, e) \/ WriteArchive(q, e)
                     \/ WriteFiltered(q, e) \/ WriteJudged(q, e)
                     \/ Output(q, e) \/ Index(q, e)
              PROVE  Active(r)'
          <5>1. \A p \in Runners \ {q} : run'[p] = run[p]
            BY <4>5 DEF WriteRaw, Filter, WriteArchive, WriteFiltered,
               WriteJudged, Output, Index, Done, TypeOK
          <5>2. run'[q].phase = run[q].phase
            BY <4>1, <4>5 DEF WriteRaw, Filter, WriteArchive, WriteFiltered,
               WriteJudged, Output, Index, Done, TypeOK, Runs
          <5>3. run'[q] # Idle
            BY <4>1, <5>2 DEF Runs, Phases, Idle
          <5> QED BY <4>1, <5>1, <5>3 DEF Active
        <4> QED BY <3>1, <4>3, <4>4, <4>5 DEF Step
      <3>2. ASSUME NEW q \in Runners, Advance(q) PROVE q = r
        BY <3>2 DEF Advance, Active, TypeOK
      <3>3. ASSUME NEW q \in Runners, NEW stage \in Stages, Bootstrap(q, stage)
            PROVE  FALSE
        BY <3>3 DEF Bootstrap, Active, TypeOK
      <3>4. \A q \in Runners : ~Crash(q)
        BY DEF Crash, TypeOK
      <3>5. ASSUME NEW e \in Events, Elapse(e) \/ Translate(e) \/ Review(e)
            PROVE  FALSE
        BY <3>5 DEF Elapse, Translate, Review, Active
      <3> QED BY <3>1, <3>2, <3>3, <3>4, <3>5 DEF Next
    <2>2. /\ run[r] \in Runs /\ run[r].phase \notin {"load", "collect"}
          /\ run[r].todo = {} /\ Advanced(run[r]) = Idle
      BY <2>1 DEF Advance, TypeOK, Active
    <2>3. OnCourse(run[r])
      BY DEF CourseInv
    <2>4. run[r].phase \in {"raw", "evaluate", "judge", "index"}
      BY <2>2 DEF Advanced, Goes, Runs, Phases, Idle
    <2> QED BY <2>2, <2>3, <2>4 DEF OnCourse, FilterOnCourse, OutputOnCourse, Settled
  <1>3. TypeOK /\ LoadsAlone /\ AloneInv /\ CourseInv /\ [Next]_vars => CourseInv'
    BY StepOnCourse
  <1> QED BY <1>1, <1>2, <1>3, AloneStaysOrderly, PipelineTypeCorrect, PTL
          DEF Spec, StageFinishes

(* While runs do not overlap and drafts are written, what is indexed is    *)
(* not in the index yet, or was reviewed: the translation of a row stays   *)
(* (index_event of core/store over the output of core/run.py).             *)
THEOREM TranslationsStay == Spec => TranslationSurvives
  <1> DEFINE Survive == autoDrafts /\ ~overlapped =>
               translated \ reviewed \subseteq translated'
  <1>1. TypeOK /\ AloneInv /\ [Next]_vars => [Survive]_vars
    <2> SUFFICES ASSUME TypeOK, AloneInv, Next, autoDrafts, ~overlapped
                 PROVE  translated \ reviewed \subseteq translated'
      OBVIOUS
    <2>1. ASSUME NEW r \in Runners, NEW e \in Events, Index(r, e)
          PROVE  translated \ reviewed \subseteq translated'
      <3>1. Active(r) /\ run[r].phase = "index" /\ e \in run[r].todo
            /\ translated' = translated \ {e}
        BY <2>1 DEF Index, Turn, At
      <3>2. e \in index => e \in reviewed
        BY <3>1, AloneHasTables DEF Orderly, Hand
      <3>3. translated \subseteq index
        BY DEF TypeOK
      <3> QED BY <3>1, <3>2, <3>3
    <2>2. ASSUME NEW r \in Runners,
                 \/ \E stage \in Stages : Bootstrap(r, stage)
                 \/ \E feed \in SUBSET Events : Collect(r, feed)
                 \/ Load(r) \/ Advance(r) \/ Crash(r)
          PROVE  translated' = translated
      BY <2>2 DEF Bootstrap, Collect, Load, Advance, Crash
    <2>3. ASSUME NEW r \in Runners, NEW e \in Events,
                 \/ WriteRaw(r, e) \/ Filter(r, e) \/ WriteArchive(r, e)
                 \/ WriteFiltered(r, e) \/ WriteJudged(r, e) \/ Output(r, e)
          PROVE  translated' = translated
      BY <2>3 DEF WriteRaw, Filter, WriteArchive, WriteFiltered, WriteJudged,
         Output
    <2>4. ASSUME NEW e \in Events, Elapse(e) \/ Translate(e) \/ Review(e)
          PROVE  translated \subseteq translated'
      BY <2>4 DEF Elapse, Translate, Review
    <2> QED BY <2>1, <2>2, <2>3, <2>4 DEF Next, Step
  <1> QED BY <1>1, AloneStaysOrderly, PipelineTypeCorrect, PTL
          DEF Spec, TranslationSurvives
=============================================================================
