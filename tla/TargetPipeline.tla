--------------------------- MODULE TargetPipeline ---------------------------
(***************************************************************************)
(* The bounded runs of one target (core/async_run.py over core/run.py):    *)
(* collect, filter, judge and output, each alone or one after the other,   *)
(* over the Markdown files of the target (core/file_writer.py), its memory *)
(* of known ids (core/memory.py) and the event index of its store.  Files  *)
(* are written one by one, so a run may die between any two of them, and   *)
(* nothing keeps two runs of one target apart: a command, the loop of the  *)
(* server and its trigger_run each start theirs.                           *)
(*                                                                         *)
(* The remote AI calls of the pipeline are off, as they are by default.    *)
(* The event index is also written by the translation worker, which marks  *)
(* an indexed row as translated.                                           *)
(***************************************************************************)
EXTENDS Naturals, FiniteSets

CONSTANTS Runners,      \* processes and tasks that execute bounded runs
          Events,
          Alertable,    \* events that match the filter of a destination
          MaxFaults     \* bound: runs that die and writes that fail

ASSUME AlertableAssumption == Alertable \subseteq Events
ASSUME MaxFaultsAssumption == MaxFaults \in Nat

VARIABLES raw, archive, filtered, judged, drafts, reviewed,
                        \* ids with a file of that stage
          knownFile,    \* known_item_ids.yaml
          unfit,        \* events under the score threshold or past the hours
                        \* that the filter accepts
          index,        \* ids in event_index
          translated,   \* those of index whose row carries a translation
          alerted,      \* events an alert was sent for
          autoDrafts,   \* markdown_auto_drafts of the target
          run,          \* what each runner is at
          lost,         \* marked known by a run that died before their files
          overlapped,   \* have two runs ever been active at once?
          faults

files == <<raw, archive, filtered, judged, drafts, reviewed>>
vars == <<files, knownFile, unfit, index, translated, alerted, autoDrafts, run,
          lost, overlapped, faults>>

Stages == {"all", "collect", "filter", "judge", "output"}
Phases == {"load", "collect", "raw", "filter", "archive", "evaluate", "judge",
           "output", "index"}

(* A run at a phase: its copy of the known ids, the events handed from one *)
(* phase to the next, those of them the loop of the phase has still to do, *)
(* and those whose pipeline_stage has become outputted in memory.          *)
Idle == [phase |-> "idle"]
Runs == [phase : Phases, stage : Stages, known : SUBSET Events,
         batch : SUBSET Events, todo : SUBSET Events, out : SUBSET Events,
         outputted : SUBSET Events]

TypeOK ==
  /\ raw \in SUBSET Events /\ archive \in SUBSET Events
  /\ filtered \in SUBSET Events /\ judged \in SUBSET Events
  /\ drafts \in SUBSET Events /\ reviewed \in SUBSET Events
  /\ knownFile \in SUBSET Events
  /\ unfit \in SUBSET Events
  /\ index \in SUBSET Events /\ translated \in SUBSET index
  /\ alerted \in SUBSET Events
  /\ autoDrafts \in BOOLEAN /\ overlapped \in BOOLEAN
  /\ run \in [Runners -> Runs \cup {Idle}]
  /\ lost \in SUBSET Events
  /\ faults \in 0 .. MaxFaults

Init ==
  /\ raw = {} /\ archive = {} /\ filtered = {} /\ judged = {} /\ drafts = {}
  /\ reviewed = {} /\ knownFile = {}
  /\ unfit \in SUBSET Events
  /\ index = {} /\ translated = {} /\ alerted = {}
  /\ autoDrafts \in BOOLEAN
  /\ run = [r \in Runners |-> Idle]
  /\ lost = {} /\ overlapped = FALSE /\ faults = 0

Active(r) == run[r] # Idle
At(r, phase) == Active(r) /\ run[r].phase = phase

-----------------------------------------------------------------------------
(* Mutant: a known id counts as filtered. *)
PendingUnknown == raw \ (filtered \cup judged \cup archive \cup knownFile)
(* Mutant: the drafts are not looked at. *)
PendingAll == judged

(* What a stage that runs alone finds to do. *)
PendingFilter == raw \ (filtered \cup judged \cup archive)
PendingJudge == filtered \ (judged \cup drafts)
PendingOutput == judged \ drafts

(* The filter lets an event through once. *)
Passes(known, e) == e \notin known \cup unfit

(* Mutant: an event is known once it was looked at. *)
MarkedSeen(known, e) == known \cup {e}
(* Mutant: the filter leaves the marking to somebody else. *)
MarkedNever(known, e) == known
(* mark_known, for what passes. *)
Marked(known, e) == IF Passes(known, e) THEN known \cup {e} ELSE known

(* AlertPipeline._should_alert: it asks for pipeline_stage judged. *)
ShouldAlert(x, e) == e \in Alertable /\ e \notin x.outputted

(* Mutant: a known id is not archived again. *)
RejectedUnknown(x) == (x.batch \ x.out) \ x.known

(* What the filter turned away, known ids included, goes to the archive. *)
Rejected(x) == x.batch \ x.out

(* What follows when the loop of a phase is done. *)
Goes(x, phase, batch, todo, out) ==
  [x EXCEPT !.phase = phase, !.batch = batch, !.todo = todo, !.out = out]

Loaded(x) ==
  CASE x.stage = "filter" ->
         Goes(x, "filter", PendingFilter, PendingFilter, {})
    [] x.stage = "judge"  -> Goes(x, "judge", PendingJudge, PendingJudge, {})
    [] x.stage = "output" -> Goes(x, "output", PendingOutput, PendingOutput, {})

Advanced(x) ==
  LET all == x.stage = "all" IN
  CASE x.phase = "raw" ->
         IF all THEN Goes(x, "filter", x.batch, x.batch, {}) ELSE Idle
    [] x.phase = "filter" -> Goes(x, "archive", {}, Rejected(x), x.out)
    [] x.phase = "archive" -> Goes(x, "evaluate", {}, x.out, x.out)
    [] x.phase = "evaluate" ->
         IF all THEN Goes(x, "judge", x.out, x.out, {}) ELSE Idle
    [] x.phase = "judge" ->
         IF all THEN Goes(x, "output", x.batch, x.batch, {}) ELSE Idle
    [] x.phase = "output" -> Goes(x, "index", {}, x.out, {})
    [] x.phase = "index" -> Idle

-----------------------------------------------------------------------------
(* A run begins: the memory is read from its file. *)
Bootstrap(r, stage) ==
  /\ ~Active(r)
  /\ run' = [run EXCEPT ![r] =
       [phase |-> IF stage \in {"all", "collect"} THEN "collect" ELSE "load",
        stage |-> stage, known |-> knownFile, batch |-> {}, todo |-> {},
        out |-> {}, outputted |-> {}]]
  /\ overlapped' = (overlapped \/ \E q \in Runners : Active(q))
  /\ UNCHANGED <<files, knownFile, unfit, index, translated, alerted,
                 autoDrafts, lost, faults>>

(* The sources that answer give some of the events; one that fails is only *)
(* noted in its health.                                                    *)
Collect(r, feed) ==
  /\ At(r, "collect")
  /\ run' = [run EXCEPT ![r] = Goes(@, "raw", feed, feed, {})]
  /\ UNCHANGED <<files, knownFile, unfit, index, translated, alerted,
                 autoDrafts, lost, overlapped, faults>>

Load(r) ==
  /\ At(r, "load")
  /\ run' = [run EXCEPT ![r] = Loaded(@)]
  /\ UNCHANGED <<files, knownFile, unfit, index, translated, alerted,
                 autoDrafts, lost, overlapped, faults>>

(* The output ends with the alerts for what it has put out. *)
Advance(r) ==
  /\ Active(r) /\ run[r].phase \notin {"load", "collect"}
  /\ run[r].todo = {}
  /\ run' = [run EXCEPT ![r] = Advanced(@)]
  /\ alerted' = IF run[r].phase = "output"
                  THEN alerted \cup {e \in run[r].out : ShouldAlert(run[r], e)}
                  ELSE alerted
  /\ UNCHANGED <<files, knownFile, unfit, index, translated, autoDrafts,
                 lost, overlapped, faults>>

(* The turn of an event in the loop of a phase. *)
Turn(r, phase, e) == At(r, phase) /\ e \in run[r].todo
Done(r, e) == run' = [run EXCEPT ![r].todo = @ \ {e}]

WriteRaw(r, e) ==
  /\ Turn(r, "raw", e)
  /\ raw' = raw \cup {e}
  /\ Done(r, e)
  /\ UNCHANGED <<archive, filtered, judged, drafts, reviewed, knownFile,
                 unfit, index, translated, alerted, autoDrafts, lost,
                 overlapped, faults>>

(* Marking an id rewrites the whole file from the memory of the run. *)
Filter(r, e) ==
  /\ Turn(r, "filter", e)
  /\ LET x == run[r]
         known == x.known IN
     /\ run' = [run EXCEPT ![r] =
          [x EXCEPT !.todo = x.todo \ {e},
                    !.known = Marked(known, e),
                    !.out = x.out \cup (IF Passes(known, e) THEN {e} ELSE {})]]
     /\ knownFile' = IF Marked(known, e) # known
                        THEN Marked(known, e) ELSE knownFile
  /\ UNCHANGED <<files, unfit, index, translated, alerted, autoDrafts, lost,
                 overlapped, faults>>

WriteArchive(r, e) ==
  /\ Turn(r, "archive", e)
  /\ archive' = archive \cup {e}
  /\ Done(r, e)
  /\ UNCHANGED <<raw, filtered, judged, drafts, reviewed, knownFile, unfit,
                 index, translated, alerted, autoDrafts, lost, overlapped,
                 faults>>

WriteFiltered(r, e) ==
  /\ Turn(r, "evaluate", e)
  /\ filtered' = filtered \cup {e}
  /\ Done(r, e)
  /\ UNCHANGED <<raw, archive, judged, drafts, reviewed, knownFile, unfit,
                 index, translated, alerted, autoDrafts, lost, overlapped,
                 faults>>

(* A judged event whose file cannot be written goes on to the output. *)
WriteJudged(r, e) ==
  /\ Turn(r, "judge", e)
  /\ Done(r, e)
  /\ \/ judged' = judged \cup {e} /\ UNCHANGED faults
     \/ faults < MaxFaults /\ faults' = faults + 1 /\ UNCHANGED judged
  /\ UNCHANGED <<raw, archive, filtered, drafts, reviewed, knownFile, unfit,
                 index, translated, alerted, autoDrafts, lost, overlapped>>

(* Drafts are written only where the target asks for them; either way the *)
(* event is outputted from then on, unless its draft cannot be written.   *)
Output(r, e) ==
  /\ Turn(r, "output", e)
  /\ \/ /\ drafts' = IF autoDrafts THEN drafts \cup {e} ELSE drafts
        /\ run' = [run EXCEPT ![r].todo = @ \ {e}, ![r].out = @ \cup {e},
                              ![r].outputted = @ \cup {e}]
        /\ UNCHANGED faults
     \/ /\ autoDrafts /\ faults < MaxFaults
        /\ faults' = faults + 1
        /\ Done(r, e)
        /\ UNCHANGED drafts
  /\ UNCHANGED <<raw, archive, filtered, judged, reviewed, knownFile, unfit,
                 index, translated, alerted, autoDrafts, lost, overlapped>>

(* index_event replaces the row: its metadata is that of the event again. *)
Index(r, e) ==
  /\ Turn(r, "index", e)
  /\ index' = index \cup {e}
  /\ translated' = translated \ {e}
  /\ Done(r, e)
  /\ UNCHANGED <<files, knownFile, unfit, alerted, autoDrafts, lost,
                 overlapped, faults>>

(* The process dies, or a write of a file that no handler catches fails. *)
Crash(r) ==
  /\ Active(r) /\ faults < MaxFaults
  /\ faults' = faults + 1
  /\ lost' = IF run[r].phase \in {"filter", "archive", "evaluate"}
               THEN lost \cup (run[r].out \ filtered) ELSE lost
  /\ run' = [run EXCEPT ![r] = Idle]
  /\ UNCHANGED <<files, knownFile, unfit, index, translated, alerted,
                 autoDrafts, overlapped>>

(* The hours that the filter accepts go by. *)
Elapse(e) ==
  /\ e \notin unfit
  /\ unfit' = unfit \cup {e}
  /\ UNCHANGED <<files, knownFile, index, translated, alerted, autoDrafts,
                 run, lost, overlapped, faults>>

(* update_event_metadata by the translation worker. *)
Translate(e) ==
  /\ e \in index \ translated
  /\ translated' = translated \cup {e}
  /\ UNCHANGED <<files, knownFile, unfit, index, alerted, autoDrafts, run,
                 lost, overlapped, faults>>

(* A reviewer moves the file of a draft away. *)
Review(e) ==
  /\ e \in drafts \cap index
  /\ drafts' = drafts \ {e}
  /\ reviewed' = reviewed \cup {e}
  /\ UNCHANGED <<raw, archive, filtered, judged, knownFile, unfit, index,
                 translated, alerted, autoDrafts, run, lost, overlapped,
                 faults>>

Step(r) ==
  \/ \E feed \in SUBSET Events : Collect(r, feed)
  \/ Load(r) \/ Advance(r)
  \/ \E e \in Events : \/ WriteRaw(r, e) \/ Filter(r, e) \/ WriteArchive(r, e)
                       \/ WriteFiltered(r, e) \/ WriteJudged(r, e)
                       \/ Output(r, e) \/ Index(r, e)

Next ==
  \/ \E r \in Runners :
       \/ \E stage \in Stages : Bootstrap(r, stage)
       \/ Step(r)
       \/ Crash(r)
  \/ \E e \in Events : Elapse(e) \/ Translate(e) \/ Review(e)

Spec == Init /\ [][Next]_vars

(* A run that began goes on, and the schedule starts runs of all stages    *)
(* again and again, whatever else is run in between.  Nothing schedules a  *)
(* stage alone.                                                            *)
Fairness ==
  \A r \in Runners : WF_vars(Step(r)) /\ SF_vars(Bootstrap(r, "all"))

FairSpec == Spec /\ Fairness

-----------------------------------------------------------------------------
(* An id is marked before the file of its event exists, and a known id is  *)
(* never filtered again: every known id has its file, or is in the hands   *)
(* of a run that will write it, or was lost by a run that died.            *)
KnownIsAccounted ==
  \A e \in knownFile :
    \/ e \in filtered
    \/ e \in lost
    \/ \E r \in Runners : /\ Active(r)
                          /\ run[r].phase \in {"filter", "archive", "evaluate"}
                          /\ e \in run[r].out

(* What the filter of a run has let through so far. *)
Passing(r) == IF At(r, "filter") THEN run[r].out ELSE {}

(* While runs do not overlap, the filter lets no event through twice,      *)
(* whatever runs died before: each pass is judged and shown as news.       *)
PassedOnce ==
  [][~overlapped =>
       \A r \in Runners : (Passing(r)' \ Passing(r)) \cap filtered = {}]_vars

(* While runs do not overlap and drafts are written, no run puts an event  *)
(* into the index again, over the translation of its row.  A reviewed one  *)
(* is outside of it: its draft is gone, and the output writes it anew.     *)
TranslationSurvives ==
  [][autoDrafts /\ ~overlapped =>
       translated \ reviewed \subseteq translated']_vars

(* A stage that runs alone, with no other run beside it, leaves nothing    *)
(* of its directory undone when it ends, whatever runs died before: the    *)
(* filter also settles the files whose ids a dead run had marked, and the  *)
(* output indexes all that is judged where no drafts are written.          *)
StageFinishes ==
  [][~overlapped =>
       \A r \in Runners :
         Active(r) /\ ~Active(r)' /\ faults' = faults =>
           /\ run[r].stage = "filter" =>
                raw \subseteq archive \cup filtered \cup judged
           /\ run[r].stage = "output" /\ ~autoDrafts => judged \subseteq index
    ]_vars

(* An event that the sources give to every collection from some time on is *)
(* filtered or archived some day, whatever runs die on the way: one that a *)
(* dead run had marked as known is turned away by the next one, and goes   *)
(* to the archive.                                                         *)
GetsFiltered(e) ==
  <>[][\A r \in Runners : \A feed \in SUBSET Events :
         Collect(r, feed) => e \in feed]_vars
  => <>(e \in archive \cup filtered)

=============================================================================
