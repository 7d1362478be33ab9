------------------------------ MODULE JobState ------------------------------
(***************************************************************************)
(* The job state table of the Cloudflare control plane                     *)
(* (frontend/cloudflare/workers/lib/job-state.ts): the statuses a row of   *)
(* the jobs table can have, the transitions canTransitionJobStatus allows, *)
(* the classification of errors that decides between a retry and the dead  *)
(* letter queue, and the lease-claim decision.  Pure operators, no state.  *)
(***************************************************************************)
EXTENDS Naturals

JobStatus == {"pending", "enqueued", "leased", "running", "importing",
              "committed", "snapshot_pending", "succeeded",
              "retry_scheduled", "dead_lettered", "cancelled"}

TerminalStatuses == {"succeeded", "dead_lettered", "cancelled"}

(* The statuses a claimed job may be given up to from "s". *)
GiveUp == {"retry_scheduled", "cancelled", "dead_lettered"}

AllowedTransitions ==
  [s \in JobStatus |->
     CASE s = "pending"          -> {"enqueued", "cancelled"}
       [] s = "enqueued"         -> {"leased"} \cup GiveUp
       [] s = "leased"           -> {"running"} \cup GiveUp
       [] s = "running"          -> {"importing", "succeeded"} \cup GiveUp
       [] s = "importing"        -> {"committed"} \cup GiveUp
       [] s = "committed"        -> {"snapshot_pending"}
       [] s = "snapshot_pending" -> {"succeeded"}
       [] s = "retry_scheduled"  -> {"enqueued", "cancelled", "dead_lettered"}
       [] OTHER                  -> {}]

(* canTransitionJobStatus(from, to).ok: staying put is always allowed. *)
CanTransition(from, to) ==
  \/ from = to
  \/ /\ from \notin TerminalStatuses
     /\ to \in AllowedTransitions[from]

-----------------------------------------------------------------------------
(* An error as classifyJobError sees it: an HTTP status (0 for none) and   *)
(* the keyword families its regular expressions find in the message.       *)
Families == {"network", "d1", "container_startup", "timeout", "validation",
             "security"}

RetryableFamilies == {"network", "d1", "container_startup", "timeout"}

(* The status decides when there is one in 400..599; otherwise the first   *)
(* family in the order of the code's tests, and every retryable family is  *)
(* tested before the permanent ones.                                       *)
Retryable(error) ==
  \/ error.status = 429
  \/ error.status \in 500 .. 599
  \/ /\ error.status \notin 400 .. 599
     /\ error.words \cap RetryableFamilies # {}

(* The errors queue-shadow.ts raises itself: a lost or failed D1 call and  *)
(* a fenced update that changed no row carry kind "d1"; a payload the      *)
(* runner rejects is a validation error.                                   *)
D1Error == [status |-> 0, words |-> {"d1"}]
PayloadError == [status |-> 0, words |-> {"validation"}]

=============================================================================
