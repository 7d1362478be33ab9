------------------------- MODULE QueueShadowProofs -------------------------
(***************************************************************************)
(* Proofs about JobStore and about QueueShadow, which runs on its tables,  *)
(* for every set of jobs, number of consumers, messages and faults and     *)
(* every bound.                                                            *)
(*                                                                         *)
(* The tables: the first lemmas say what each statement does to the row it *)
(* writes; typing, the invariants (inductive together as Inv),             *)
(* SettledStaySettled and the refinement of FencedJob all rest on them.    *)
(*                                                                         *)
(* The runtime: the handlers use the tables as JobStore says they may (so  *)
(* that what is proved of JobStore holds of the runtime), a runner keeps   *)
(* its job, a job is attempted no more often than its budget allows, and a *)
(* job that can still be attempted has an attempt that tells why.  A       *)
(* handler acts on what it remembers: the message it was given and the     *)
(* token of its claim.  The invariant says what that is worth while others *)
(* run: the message stays its own, the token was issued for its job, no    *)
(* other consumer holds it, and a runner's job is running under it.        *)
(***************************************************************************)
EXTENDS QueueShadow, TLAPS

(* THE TABLES                                                              *)

(* Row "row" is written for job j and every other row is left alone. *)
Wrote(j, row) ==
  /\ row \in JobRow
  /\ jobs' \in [Jobs -> JobRow]
  /\ jobs'[j] = row
  /\ \A k \in Jobs \ {j} : jobs'[k] = jobs[k]

(* The columns no statement but the insertion touches. *)
SameOrigin(j, row) ==
  /\ row.fencing = jobs[j].fencing
  /\ row.attempt_count = jobs[j].attempt_count
  /\ row.replay_of = jobs[j].replay_of

LEMMA WriteRow ==
  ASSUME TypeOK, NEW j \in Jobs, NEW row \in JobRow,
         jobs' = [jobs EXCEPT ![j] = row]
  PROVE  Wrote(j, row)
BY DEF Wrote, TypeOK

LEMMA NewRowType ==
  ASSUME NEW origin \in Jobs \cup {NoJob}
  PROVE  NewRow("pending", origin) \in JobRow
<1>1. 0 \in 0 .. MaxClaims
  BY MaxClaimsAssumption
<1>2. "pending" \in RowStatus
  BY DEF RowStatus, JobStatus
<1> QED
  BY <1>1, <1>2 DEF NewRow, JobRow

(* GenerateShadowJob and createDlqReplayJob insert a fresh row. *)
LEMMA GenerateEffect ==
  ASSUME TypeOK, NEW j \in Jobs, GenerateShadowJob(j)
  PROVE  Wrote(j, NewRow("pending", NoJob))
BY NewRowType, WriteRow DEF GenerateShadowJob

LEMMA ReplayEffect ==
  ASSUME TypeOK, NEW j \in Jobs, NEW new \in Jobs, CreateDlqReplayJob(j, new)
  PROVE  Wrote(new, NewRow("pending", j))
BY NewRowType, WriteRow DEF CreateDlqReplayJob

(* Marking a row dispatched moves a pending job to enqueued only. *)
LEMMA MarkEffect ==
  ASSUME TypeOK, NEW j \in Jobs, MarkOutboxDispatched(j)
  PROVE  \E row : /\ Wrote(j, row)
                  /\ SameOrigin(j, row)
                  /\ row.lease = jobs[j].lease
                  /\ row.fresh = jobs[j].fresh
                  /\ IF jobs[j].status = "pending"
                     THEN row.status = "enqueued"
                     ELSE row.status = jobs[j].status
<1>1. jobs[j] \in JobRow
  BY DEF TypeOK
<1>2. "enqueued" \in RowStatus
  BY DEF RowStatus, JobStatus
<1>3. /\ Dispatched(j) \in JobRow
      /\ SameOrigin(j, Dispatched(j))
      /\ Dispatched(j).lease = jobs[j].lease
      /\ Dispatched(j).fresh = jobs[j].fresh
      /\ IF jobs[j].status = "pending"
         THEN Dispatched(j).status = "enqueued"
         ELSE Dispatched(j).status = jobs[j].status
  BY <1>1, <1>2 DEF JobRow, SameOrigin, Dispatched
<1>4. Wrote(j, Dispatched(j))
  BY <1>3, WriteRow DEF MarkOutboxDispatched
<1> QED
  BY <1>3, <1>4

(* A claim issues the next fencing version as the new token. *)
LEMMA ClaimEffect ==
  ASSUME TypeOK, NEW j \in Jobs, ClaimJob(j)
  PROVE  \E row : /\ Wrote(j, row)
                  /\ row.status = "leased"
                  /\ row.lease = jobs[j].fencing + 1
                  /\ row.fencing = jobs[j].fencing + 1
                  /\ row.attempt_count = jobs[j].attempt_count + 1
                  /\ row.replay_of = jobs[j].replay_of
<1> DEFINE v == jobs[j].fencing + 1
           n == jobs[j].attempt_count + 1
<1>1. jobs[j] \in JobRow
  BY DEF TypeOK
<1>2. v \in 0 .. MaxClaims
  BY <1>1, MaxClaimsAssumption DEF JobRow, ClaimJob
<1>3. n \in Nat
  BY <1>1 DEF JobRow
<1>4. "leased" \in RowStatus
  BY DEF RowStatus, JobStatus
<1>5. Claimed(j) = [jobs[j] EXCEPT !.status = "leased", !.lease = v,
                      !.fresh = TRUE, !.fencing = v, !.attempt_count = n]
  BY DEF Claimed
<1> HIDE DEF v, n
<1>6. /\ Claimed(j) \in JobRow
      /\ Claimed(j).status = "leased"
      /\ Claimed(j).lease = v
      /\ Claimed(j).fencing = v
      /\ Claimed(j).attempt_count = n
      /\ Claimed(j).replay_of = jobs[j].replay_of
  BY <1>1, <1>2, <1>3, <1>4, <1>5 DEF JobRow
<1>7. Wrote(j, Claimed(j))
  BY <1>6, WriteRow DEF ClaimJob
<1> QED
  BY <1>6, <1>7 DEF v, n

(* Expiry changes the clock bit only. *)
LEMMA ExpiryEffect ==
  ASSUME TypeOK, NEW j \in Jobs, LeaseExpires(j)
  PROVE  \E row : /\ Wrote(j, row)
                  /\ SameOrigin(j, row)
                  /\ row.status = jobs[j].status
                  /\ row.lease = jobs[j].lease
<1> DEFINE row == [jobs[j] EXCEPT !.fresh = FALSE]
<1>1. jobs[j] \in JobRow
  BY DEF TypeOK
<1>2. /\ row \in JobRow /\ row.status = jobs[j].status
      /\ row.lease = jobs[j].lease /\ SameOrigin(j, row)
  BY <1>1 DEF JobRow, SameOrigin
<1>3. Wrote(j, row)
  BY <1>2, WriteRow DEF LeaseExpires
<1> QED
  BY <1>2, <1>3

(* A fenced statement either confirms the outbox row or moves the job of   *)
(* the token it presents: out of leased or running, and with the lease     *)
(* kept only from leased to running.                                       *)
Moves(j, row) ==
  /\ Wrote(j, row)
  /\ SameOrigin(j, row)
  /\ \/ /\ jobs[j].status = "leased"
        /\ row.status = "running"
        /\ row.lease = jobs[j].lease
     \/ /\ jobs[j].status \in {"leased", "running"}
        /\ row.status \in Settled \cup {"retry_scheduled"}
        /\ row.lease = 0

(* Giving a job back clears the lease columns and sets the status. *)
LEMMA GiveBackMoves ==
  ASSUME TypeOK, NEW j \in Jobs,
         NEW to \in {"succeeded", "committed", "retry_scheduled",
                     "dead_lettered"},
         jobs[j].status \in {"leased", "running"},
         jobs' = [jobs EXCEPT ![j] = GivenBack(j, to)]
  PROVE  \E row : Moves(j, row)
<1>1. jobs[j] \in JobRow
  BY DEF TypeOK
<1>2. to \in RowStatus /\ to \in Settled \cup {"retry_scheduled"}
  BY DEF RowStatus, JobStatus, Settled, TerminalStatuses
<1>3. 0 \in 0 .. MaxClaims /\ FALSE \in BOOLEAN
  BY MaxClaimsAssumption
<1>4. /\ GivenBack(j, to) \in JobRow
      /\ GivenBack(j, to).status = to
      /\ GivenBack(j, to).lease = 0
      /\ SameOrigin(j, GivenBack(j, to))
  BY <1>1, <1>2, <1>3 DEF JobRow, SameOrigin, GivenBack
<1>5. Wrote(j, GivenBack(j, to))
  BY <1>4, WriteRow
<1>6. Moves(j, GivenBack(j, to))
  BY <1>2, <1>4, <1>5 DEF Moves
<1> QED
  BY <1>6

LEMMA FencedEffect ==
  ASSUME TypeOK, NEW j \in Jobs, NEW f \in 1 .. jobs[j].fencing,
         FencedStatement(j, f)
  PROVE  /\ Presents(j, f)
         /\ UNCHANGED <<attempts, lastError, receipts>>
         /\ \/ ConfirmOutboxClaim(j, f) /\ UNCHANGED jobs
            \/ (\E row : Moves(j, row)) /\ UNCHANGED outbox
<1>1. jobs[j] \in JobRow
  BY DEF TypeOK
<1>2. /\ "running" \in RowStatus /\ "succeeded" \in RowStatus
      /\ "committed" \in RowStatus /\ "retry_scheduled" \in RowStatus
      /\ "dead_lettered" \in RowStatus
  BY DEF RowStatus, JobStatus
<1>3. CASE ConfirmOutboxClaim(j, f)
  BY <1>3 DEF ConfirmOutboxClaim, ConfirmMatches
<1>4. CASE TransitionClaimedJob(j, "leased", "running", f)
  <2> DEFINE row == [jobs[j] EXCEPT !.status = "running"]
  <2>1. /\ row \in JobRow /\ row.status = "running"
        /\ row.lease = jobs[j].lease /\ SameOrigin(j, row)
    BY <1>1, <1>2 DEF JobRow, SameOrigin
  <2>2. jobs' = [jobs EXCEPT ![j] = row]
    BY <1>4 DEF TransitionClaimedJob, ReleasesLease, TerminalStatuses
  <2>3. Wrote(j, row)
    BY <2>1, <2>2, WriteRow
  <2> QED
    BY <1>4, <2>1, <2>3 DEF Moves, TransitionClaimedJob, TransitionMatches
<1>5. CASE TransitionClaimedJob(j, "running", "succeeded", f)
  <2>1. jobs' = [jobs EXCEPT ![j] = GivenBack(j, "succeeded")]
    BY <1>5 DEF TransitionClaimedJob, ReleasesLease, TerminalStatuses
  <2>2. jobs[j].status = "running" /\ Presents(j, f)
    BY <1>5 DEF TransitionClaimedJob, TransitionMatches
  <2>3. \E row : Moves(j, row)
    BY <2>1, <2>2, GiveBackMoves
  <2> QED
    BY <1>5, <2>2, <2>3 DEF TransitionClaimedJob
<1>6. CASE CommitImportedJob(j, f)
  <2>1. \E row : Moves(j, row)
    BY <1>6, GiveBackMoves DEF CommitImportedJob, CommitMatches
  <2> QED
    BY <1>6, <2>1 DEF CommitImportedJob, CommitMatches
<1>7. ASSUME NEW expected \in {{"leased"}, {"running", "leased"}},
             NEW to \in {"retry_scheduled", "dead_lettered"},
             ReleaseClaimedJobOutcome(j, expected, to, f)
      PROVE  /\ Presents(j, f)
             /\ UNCHANGED <<outbox, attempts, lastError, receipts>>
             /\ \E row : Moves(j, row)
  <2>1. jobs[j].status \in {"leased", "running"} /\ Presents(j, f)
    BY <1>7 DEF ReleaseClaimedJobOutcome, ReleaseMatches
  <2>2. \E row : Moves(j, row)
    BY <1>7, <2>1, GiveBackMoves DEF ReleaseClaimedJobOutcome
  <2> QED
    BY <1>7, <2>1, <2>2 DEF ReleaseClaimedJobOutcome
<1> QED
  BY <1>3, <1>4, <1>5, <1>6, <1>7 DEF FencedStatement

-----------------------------------------------------------------------------
(* A statement writes rows of the table's type. *)
LEMMA TypingStep == TypeOK /\ [Next]_storeVars => TypeOK'
<1> SUFFICES ASSUME TypeOK, [Next]_storeVars PROVE TypeOK'
  OBVIOUS
<1>1. ASSUME NEW j \in Jobs, GenerateShadowJob(j) PROVE TypeOK'
  BY <1>1, GenerateEffect DEF GenerateShadowJob, TypeOK, Wrote
<1>2. ASSUME NEW j \in Jobs, MarkOutboxDispatched(j) PROVE TypeOK'
  BY <1>2, MarkEffect DEF MarkOutboxDispatched, TypeOK, Wrote
<1>3. ASSUME NEW j \in Jobs, ClaimJob(j) PROVE TypeOK'
  BY <1>3, ClaimEffect DEF ClaimJob, TypeOK, Wrote
<1>4. ASSUME NEW j \in Jobs, LeaseExpires(j) PROVE TypeOK'
  BY <1>4, ExpiryEffect DEF LeaseExpires, TypeOK, Wrote
<1>5. ASSUME NEW j \in Jobs, RecordDlqReceipt(j) PROVE TypeOK'
  BY <1>5 DEF RecordDlqReceipt, TypeOK
<1>6. ASSUME NEW j \in Jobs, NEW f \in 1 .. jobs[j].fencing,
             FencedStatement(j, f)
      PROVE  TypeOK'
  <2>1. CASE ConfirmOutboxClaim(j, f)
    BY <2>1 DEF ConfirmOutboxClaim, TypeOK
  <2>2. CASE (\E row : Moves(j, row)) /\ UNCHANGED outbox
    BY <1>6, <2>2, FencedEffect DEF TypeOK, Moves, Wrote
  <2> QED
    BY <1>6, <2>1, <2>2, FencedEffect
<1>7. ASSUME NEW j \in Jobs, NEW n \in 1 .. jobs[j].fencing,
             UnfencedStatement(j, n)
      PROVE  TypeOK'
  <2>1. jobs[j] \in JobRow
    BY DEF TypeOK
  <2>2. n \in 1 .. MaxClaims
    BY <2>1, MaxClaimsAssumption DEF JobRow
  <2>3. ASSUME NEW outcome \in Outcomes, RecordJobAttempt(j, n, outcome)
        PROVE  TypeOK'
    BY <2>2, <2>3 DEF RecordJobAttempt, TypeOK
  <2>4. ASSUME NEW retryable \in BOOLEAN, UpdateJobLastError(j, retryable)
        PROVE  TypeOK'
    BY <2>4 DEF UpdateJobLastError, TypeOK
  <2> QED
    BY <1>7, <2>3, <2>4 DEF UnfencedStatement
<1>8. ASSUME NEW j \in Jobs, NEW new \in Jobs, CreateDlqReplayJob(j, new)
      PROVE  TypeOK'
  BY <1>8, ReplayEffect DEF CreateDlqReplayJob, TypeOK, Wrote
<1>9. CASE UNCHANGED storeVars
  BY <1>9 DEF storeVars, TypeOK
<1> QED
  BY <1>1, <1>2, <1>3, <1>4, <1>5, <1>6, <1>7, <1>8, <1>9
     DEF Next, SystemStatement

-----------------------------------------------------------------------------
(* The invariants of the rows are inductive together.                      *)
Inv == /\ TypeOK
       /\ LeaseConsistent
       /\ UnclaimedIsDispatchable
       /\ DeadLettersStayDead
       /\ AttemptsWereClaimed

(* Inserting a job with its outbox row keeps the invariants: nothing is    *)
(* recorded yet about a job that did not exist.                            *)
LEMMA InsertKeeps ==
  ASSUME Inv, NEW j \in Jobs, jobs[j].status = "absent",
         NEW origin \in Jobs \cup {NoJob},
         origin # NoJob => jobs[origin].status = "dead_lettered",
         Wrote(j, NewRow("pending", origin)),
         outbox' = [outbox EXCEPT ![j] = "pending"],
         UNCHANGED <<attempts, receipts>>
  PROVE  /\ LeaseConsistent'
         /\ UnclaimedIsDispatchable'
         /\ DeadLettersStayDead'
         /\ AttemptsWereClaimed'
<1> DEFINE row == NewRow("pending", origin)
<1>1. /\ row.status = "pending" /\ row.lease = 0 /\ row.fencing = 0
      /\ row.attempt_count = 0 /\ row.replay_of = origin
  BY DEF NewRow
<1> HIDE DEF row
<1>2. Wrote(j, row)
  BY DEF row
<1>3. LeaseConsistent'
  BY <1>1, <1>2 DEF Inv, LeaseConsistent, Wrote
<1>4. UnclaimedIsDispatchable'
  BY <1>1, <1>2 DEF Inv, TypeOK, UnclaimedIsDispatchable, Wrote
<1>5. DeadLettersStayDead'
  <2> SUFFICES ASSUME NEW d \in Jobs,
                      d \in receipts \/ \E k \in Jobs : jobs'[k].replay_of = d
               PROVE  jobs'[d].status = "dead_lettered"
    BY DEF DeadLettersStayDead
  <2>1. jobs'[j].replay_of = origin /\ d # NoJob
    BY <1>1, <1>2, NoJobAssumption DEF Wrote
  <2>2. \A k \in Jobs \ {j} : jobs'[k] = jobs[k]
    BY <1>2 DEF Wrote
  <2>3. jobs[d].status = "dead_lettered"
    BY <2>1, <2>2 DEF Inv, DeadLettersStayDead
  <2> QED
    BY <2>2, <2>3
<1>6. AttemptsWereClaimed'
  <2>1. \A k \in Jobs \ {j} : jobs'[k] = jobs[k] /\ jobs'[j] = row
    BY <1>2 DEF Wrote
  <2>2. \A n \in 1 .. MaxClaims : attempts[j][n] = "none"
    <3> SUFFICES ASSUME NEW n \in 1 .. MaxClaims, attempts[j][n] # "none"
                 PROVE  FALSE
      OBVIOUS
    <3>1. n <= jobs[j].attempt_count /\ jobs[j].attempt_count = 0
      BY DEF Inv, AttemptsWereClaimed
    <3> QED
      BY <3>1, MaxClaimsAssumption
  <2> QED
    BY <1>1, <1>2, <2>1, <2>2 DEF Inv, AttemptsWereClaimed, Wrote
<1> QED
  BY <1>3, <1>4, <1>5, <1>6

LEMMA InvStep == Inv /\ [Next]_storeVars => Inv'
<1> SUFFICES ASSUME Inv, [Next]_storeVars PROVE Inv'
  OBVIOUS
<1>type. TypeOK /\ TypeOK'
  BY TypingStep DEF Inv
<1>rows. /\ \A k \in Jobs : jobs[k] \in JobRow
         /\ \A k \in Jobs : jobs[k].fencing \in Nat
  BY <1>type, MaxClaimsAssumption DEF TypeOK, JobRow
<1>1. ASSUME NEW j \in Jobs, GenerateShadowJob(j) PROVE Inv'
  BY <1>type, <1>1, GenerateEffect, InsertKeeps DEF GenerateShadowJob, Inv
<1>2. ASSUME NEW j \in Jobs, MarkOutboxDispatched(j) PROVE Inv'
  <2>1. PICK row : /\ Wrote(j, row) /\ SameOrigin(j, row)
                   /\ row.lease = jobs[j].lease
                   /\ IF jobs[j].status = "pending"
                      THEN row.status = "enqueued"
                      ELSE row.status = jobs[j].status
    BY <1>type, <1>2, MarkEffect
  <2>2. /\ outbox' = [outbox EXCEPT ![j] = "dispatched"]
        /\ UNCHANGED <<attempts, receipts>>
        /\ outbox[j] \in {"pending", "dispatched"}
    BY <1>2 DEF MarkOutboxDispatched
  <2>3. LeaseConsistent'
    BY <2>1 DEF Inv, LeaseConsistent, Wrote, SameOrigin
  <2>4. UnclaimedIsDispatchable'
    BY <1>type, <2>1, <2>2 DEF Inv, TypeOK, UnclaimedIsDispatchable, Wrote
  <2>5. DeadLettersStayDead'
    BY <2>1, <2>2 DEF Inv, DeadLettersStayDead, Wrote, SameOrigin
  <2>6. AttemptsWereClaimed'
    BY <2>1, <2>2 DEF Inv, AttemptsWereClaimed, Wrote, SameOrigin
  <2> QED
    BY <1>type, <2>3, <2>4, <2>5, <2>6 DEF Inv
<1>3. ASSUME NEW j \in Jobs, ClaimJob(j) PROVE Inv'
  <2>1. PICK row : /\ Wrote(j, row)
                   /\ row.status = "leased"
                   /\ row.lease = jobs[j].fencing + 1
                   /\ row.fencing = jobs[j].fencing + 1
                   /\ row.attempt_count = jobs[j].attempt_count + 1
                   /\ row.replay_of = jobs[j].replay_of
    BY <1>type, <1>3, ClaimEffect
  <2>2. /\ UNCHANGED <<outbox, attempts, receipts>>
        /\ jobs[j].status \in {"enqueued", "retry_scheduled", "leased"}
    BY <1>3 DEF ClaimJob, Claimable
  <2>3. LeaseConsistent'
    BY <1>rows, <2>1 DEF Inv, LeaseConsistent, Wrote
  <2>4. UnclaimedIsDispatchable'
    BY <2>1, <2>2 DEF Inv, UnclaimedIsDispatchable, Wrote
  <2>5. DeadLettersStayDead'
    BY <2>1, <2>2 DEF Inv, DeadLettersStayDead, Wrote
  <2>6. AttemptsWereClaimed'
    BY <1>rows, <2>1, <2>2, MaxClaimsAssumption
       DEF Inv, AttemptsWereClaimed, Wrote
  <2> QED
    BY <1>type, <2>3, <2>4, <2>5, <2>6 DEF Inv
<1>4. ASSUME NEW j \in Jobs, LeaseExpires(j) PROVE Inv'
  <2>1. PICK row : /\ Wrote(j, row) /\ SameOrigin(j, row)
                   /\ row.status = jobs[j].status
                   /\ row.lease = jobs[j].lease
    BY <1>type, <1>4, ExpiryEffect
  <2>2. UNCHANGED <<outbox, attempts, receipts>>
    BY <1>4 DEF LeaseExpires
  <2> QED
    BY <1>type, <2>1, <2>2
       DEF Inv, LeaseConsistent, UnclaimedIsDispatchable,
           DeadLettersStayDead, AttemptsWereClaimed, Wrote, SameOrigin
<1>5. ASSUME NEW j \in Jobs, RecordDlqReceipt(j) PROVE Inv'
  BY <1>type, <1>5
     DEF RecordDlqReceipt, Inv, LeaseConsistent, UnclaimedIsDispatchable,
         DeadLettersStayDead, AttemptsWereClaimed
<1>6. ASSUME NEW j \in Jobs, NEW f \in 1 .. jobs[j].fencing,
             FencedStatement(j, f)
      PROVE  Inv'
  <2>1. UNCHANGED <<attempts, receipts>>
    BY <1>type, <1>6, FencedEffect
  <2>2. CASE ConfirmOutboxClaim(j, f) /\ UNCHANGED jobs
    <3>1. jobs[j].status \in {"leased", "running"}
      BY <2>2 DEF ConfirmOutboxClaim, ConfirmMatches
    <3>2. UnclaimedIsDispatchable'
      BY <1>type, <2>2, <3>1
         DEF ConfirmOutboxClaim, Inv, TypeOK, UnclaimedIsDispatchable
    <3> QED
      BY <1>type, <2>1, <2>2, <3>2
         DEF Inv, LeaseConsistent, DeadLettersStayDead, AttemptsWereClaimed
  <2>3. ASSUME NEW row, Moves(j, row), UNCHANGED outbox PROVE Inv'
    <3>1. LeaseConsistent'
      BY <2>3 DEF Inv, LeaseConsistent, Moves, Wrote, SameOrigin, Settled,
                  TerminalStatuses
    <3>2. UnclaimedIsDispatchable'
      BY <2>3 DEF Inv, UnclaimedIsDispatchable, Moves, Wrote, Settled,
                  TerminalStatuses
    <3>3. DeadLettersStayDead'
      BY <2>1, <2>3 DEF Inv, DeadLettersStayDead, Moves, Wrote, SameOrigin
    <3>4. AttemptsWereClaimed'
      BY <2>1, <2>3 DEF Inv, AttemptsWereClaimed, Moves, Wrote, SameOrigin,
                        Settled, TerminalStatuses
    <3> QED
      BY <1>type, <3>1, <3>2, <3>3, <3>4 DEF Inv
  <2> QED
    BY <1>type, <1>6, <2>2, <2>3, FencedEffect
<1>7. ASSUME NEW j \in Jobs, NEW n \in 1 .. jobs[j].fencing,
             UnfencedStatement(j, n)
      PROVE  Inv'
  <2>1. UNCHANGED <<jobs, outbox, receipts>>
    BY <1>7 DEF UnfencedStatement, RecordJobAttempt, UpdateJobLastError
  <2>2. AttemptsWereClaimed'
    <3>1. CASE UNCHANGED attempts
      BY <2>1, <3>1 DEF Inv, AttemptsWereClaimed
    <3>2. ASSUME NEW outcome \in Outcomes, RecordJobAttempt(j, n, outcome)
          PROVE  AttemptsWereClaimed'
      <4>1. /\ n \in Nat
            /\ n <= jobs[j].attempt_count
            /\ jobs[j].attempt_count = jobs[j].fencing
        BY <1>rows DEF Inv, AttemptsWereClaimed
      <4>2. \A k \in Jobs : \A m \in 1 .. MaxClaims :
              attempts'[k][m] # attempts[k][m] => k = j /\ m = n
        BY <1>type, <3>2 DEF RecordJobAttempt, TypeOK
      <4> QED
        BY <2>1, <4>1, <4>2 DEF Inv, AttemptsWereClaimed
    <3> QED
      BY <1>7, <3>1, <3>2 DEF UnfencedStatement, UpdateJobLastError
  <2> QED
    BY <1>type, <2>1, <2>2
       DEF Inv, LeaseConsistent, UnclaimedIsDispatchable, DeadLettersStayDead
<1>8. ASSUME NEW j \in Jobs, NEW new \in Jobs, CreateDlqReplayJob(j, new)
      PROVE  Inv'
  BY <1>type, <1>8, ReplayEffect, InsertKeeps DEF CreateDlqReplayJob, Inv
<1>9. CASE UNCHANGED storeVars
  BY <1>type, <1>9
     DEF storeVars, Inv, LeaseConsistent, UnclaimedIsDispatchable,
         DeadLettersStayDead, AttemptsWereClaimed
<1> QED
  BY <1>1, <1>2, <1>3, <1>4, <1>5, <1>6, <1>7, <1>8, <1>9
     DEF Next, SystemStatement

(* An empty store satisfies them. *)
LEMMA InitInv == Init => Inv
<1> SUFFICES ASSUME Init PROVE Inv
  OBVIOUS
<1>1. TypeOK
  <2>1. 0 \in 0 .. MaxClaims
    BY MaxClaimsAssumption
  <2>2. NewRow("absent", NoJob) \in JobRow
    BY <2>1 DEF NewRow, JobRow, RowStatus
  <2> QED
    BY <2>2 DEF Init, TypeOK
<1>2. \A j \in Jobs : /\ jobs[j].status = "absent" /\ jobs[j].lease = 0
                      /\ jobs[j].fencing = 0 /\ jobs[j].attempt_count = 0
                      /\ jobs[j].replay_of = NoJob
  BY DEF Init, NewRow
<1>3. LeaseConsistent
  BY <1>2 DEF LeaseConsistent
<1>4. UnclaimedIsDispatchable
  BY <1>2 DEF Init, UnclaimedIsDispatchable
<1>5. DeadLettersStayDead
  BY <1>2, NoJobAssumption DEF Init, DeadLettersStayDead
<1>6. AttemptsWereClaimed
  BY <1>2 DEF Init, AttemptsWereClaimed
<1> QED
  BY <1>1, <1>3, <1>4, <1>5, <1>6 DEF Inv

(* The invariants hold of every store. *)
THEOREM Invariance == Spec => []Inv
BY InitInv, InvStep, PTL DEF Spec

(* The tables keep their types in every behaviour of the store. *)
THEOREM Typing == Spec => []TypeOK
<1>1. Inv => TypeOK
  BY DEF Inv
<1> QED
  BY <1>1, Invariance, PTL

(* The newest token is the one on record, in the statuses that own one. *)
THEOREM LeasesConsistent == Spec => []LeaseConsistent
<1>1. Inv => LeaseConsistent
  BY DEF Inv
<1> QED
  BY <1>1, Invariance, PTL

(* No sequence of statements strands an unclaimed job outside the outbox. *)
THEOREM UnclaimedDispatchable == Spec => []UnclaimedIsDispatchable
<1>1. Inv => UnclaimedIsDispatchable
  BY DEF Inv
<1> QED
  BY <1>1, Invariance, PTL

(* Receipts and replays only ever refer to dead-lettered jobs. *)
THEOREM DeadLettersDead == Spec => []DeadLettersStayDead
<1>1. Inv => DeadLettersStayDead
  BY DEF Inv
<1> QED
  BY <1>1, Invariance, PTL

(* Unfenced writers never invent an attempt, and every claim is counted.  *)
THEOREM AttemptsClaimed == Spec => []AttemptsWereClaimed
<1>1. Inv => AttemptsWereClaimed
  BY DEF Inv
<1> QED
  BY <1>1, Invariance, PTL

-----------------------------------------------------------------------------
(* A step never changes the row of a settled job: it holds no lease, so no *)
(* token, however old, can be presented for it.                            *)
LEMMA SettledStep ==
  ASSUME Inv, [Next]_storeVars, NEW j \in Jobs, jobs[j].status \in Settled
  PROVE  jobs'[j] = jobs[j]
<1>type. TypeOK
  BY DEF Inv
<1>0. /\ jobs[j].status \in {"succeeded", "dead_lettered", "cancelled",
                            "committed"}
      /\ jobs[j].lease = 0
  BY DEF Settled, TerminalStatuses, Inv, LeaseConsistent
<1>1. ASSUME NEW k \in Jobs, GenerateShadowJob(k) PROVE jobs'[j] = jobs[j]
  BY <1>type, <1>0, <1>1, GenerateEffect DEF GenerateShadowJob, Wrote
<1>2. ASSUME NEW k \in Jobs, MarkOutboxDispatched(k)
      PROVE  jobs'[j] = jobs[j]
  BY <1>type, <1>0, <1>2 DEF MarkOutboxDispatched, Dispatched, TypeOK
<1>3. ASSUME NEW k \in Jobs, ClaimJob(k) PROVE jobs'[j] = jobs[j]
  BY <1>type, <1>0, <1>3, ClaimEffect DEF ClaimJob, Claimable, Wrote
<1>4. ASSUME NEW k \in Jobs, LeaseExpires(k) PROVE jobs'[j] = jobs[j]
  BY <1>type, <1>0, <1>4, ExpiryEffect DEF LeaseExpires, Wrote
<1>5. ASSUME NEW k \in Jobs, RecordDlqReceipt(k) PROVE jobs'[j] = jobs[j]
  BY <1>5 DEF RecordDlqReceipt
<1>6. ASSUME NEW k \in Jobs, NEW f \in 1 .. jobs[k].fencing,
             FencedStatement(k, f)
      PROVE  jobs'[j] = jobs[j]
  BY <1>type, <1>0, <1>6, FencedEffect DEF Moves, Wrote
<1>7. ASSUME NEW k \in Jobs, NEW n \in 1 .. jobs[k].fencing,
             UnfencedStatement(k, n)
      PROVE  jobs'[j] = jobs[j]
  BY <1>7 DEF UnfencedStatement, RecordJobAttempt, UpdateJobLastError
<1>8. ASSUME NEW k \in Jobs, NEW new \in Jobs, CreateDlqReplayJob(k, new)
      PROVE  jobs'[j] = jobs[j]
  BY <1>type, <1>0, <1>8, ReplayEffect DEF CreateDlqReplayJob, Wrote
<1>9. CASE UNCHANGED storeVars
  BY <1>9 DEF storeVars
<1> QED
  BY <1>1, <1>2, <1>3, <1>4, <1>5, <1>6, <1>7, <1>8, <1>9
     DEF Next, SystemStatement

(* A succeeded, committed, cancelled or dead-lettered job is never revived, *)
(* and its status, lease, version and counters never rewritten, by late     *)
(* workers, redispatches, replays or expired leases.  updateJobLastError    *)
(* may still write its error columns (lastError).                           *)
THEOREM SettledIsFinal == Spec => SettledStaySettled
<1>1. Inv /\ [Next]_storeVars
        => [\A j \in Jobs : jobs[j].status \in Settled
                             => jobs'[j] = jobs[j]]_storeVars
  BY SettledStep
<1> QED
  BY <1>1, Invariance, PTL DEF Spec, SettledStaySettled
-----------------------------------------------------------------------------
(* Writing one row moves the phase of one job and no other. *)
LEMMA AbstractMove ==
  ASSUME TypeOK, NEW j \in Jobs, NEW row, Wrote(j, row),
         NEW from, PhaseOf(jobs[j].status) \in from,
         NEW to, PhaseOf(row.status) = to
  PROVE  /\ Abstract!Move(j, from, to)
         /\ [k \in Jobs |-> jobs'[k].fencing]
              = [[k \in Jobs |-> jobs[k].fencing] EXCEPT ![j] = row.fencing]
BY DEF Abstract!Move, Wrote

(* Every statement is a step of the lease protocol or leaves it alone. *)
LEMMA RefinementStep ==
  Inv /\ [Next]_storeVars => [Abstract!Next]_(Abstract!vars)
<1> SUFFICES ASSUME Inv, [Next]_storeVars
             PROVE  [Abstract!Next]_(Abstract!vars)
  OBVIOUS
<1>type. TypeOK
  BY DEF Inv
<1>stay. ASSUME UNCHANGED jobs PROVE UNCHANGED Abstract!vars
  BY <1>stay DEF Abstract!vars
<1>same. ASSUME NEW j \in Jobs, NEW row, Wrote(j, row), SameOrigin(j, row),
                PhaseOf(row.status) = PhaseOf(jobs[j].status)
         PROVE  UNCHANGED Abstract!vars
  BY <1>type, <1>same DEF Abstract!vars, Wrote, SameOrigin, TypeOK
<1>epoch. ASSUME NEW j \in Jobs, NEW row, Wrote(j, row),
                 row.fencing = jobs[j].fencing
          PROVE  [k \in Jobs |-> jobs'[k].fencing]
                   = [k \in Jobs |-> jobs[k].fencing]
  BY <1>epoch DEF Wrote
<1>new. ASSUME NEW j \in Jobs, jobs[j].status = "absent",
               NEW origin, Wrote(j, NewRow("pending", origin))
        PROVE  Abstract!Create(j)
  <2>1. /\ NewRow("pending", origin).fencing = jobs[j].fencing
        /\ PhaseOf(NewRow("pending", origin).status) = "waiting"
        /\ PhaseOf(jobs[j].status) \in {"absent"}
    BY <1>new DEF NewRow, PhaseOf, Inv, AttemptsWereClaimed
  <2>2. Abstract!Move(j, {"absent"}, "waiting")
    BY <1>type, <1>new, <2>1, AbstractMove
  <2>3. UNCHANGED [k \in Jobs |-> jobs[k].fencing]
    BY <1>new, <1>epoch, <2>1
  <2> QED
    BY <2>2, <2>3 DEF Abstract!Create
<1>1. ASSUME NEW j \in Jobs, GenerateShadowJob(j) PROVE Abstract!Next
  BY <1>type, <1>1, <1>new, GenerateEffect DEF GenerateShadowJob, Abstract!Next
<1>2. ASSUME NEW j \in Jobs, MarkOutboxDispatched(j)
      PROVE  UNCHANGED Abstract!vars
  <2>1. PICK row : /\ Wrote(j, row) /\ SameOrigin(j, row)
                   /\ IF jobs[j].status = "pending"
                      THEN row.status = "enqueued"
                      ELSE row.status = jobs[j].status
    BY <1>type, <1>2, MarkEffect
  <2>2. PhaseOf(row.status) = PhaseOf(jobs[j].status)
    BY <2>1 DEF PhaseOf
  <2> QED
    BY <1>same, <2>1, <2>2
<1>3. ASSUME NEW j \in Jobs, ClaimJob(j) PROVE Abstract!Next
  <2>1. PICK row : /\ Wrote(j, row)
                   /\ row.status = "leased"
                   /\ row.fencing = jobs[j].fencing + 1
    BY <1>type, <1>3, ClaimEffect
  <2>2. /\ PhaseOf(jobs[j].status) \in {"waiting", "held"}
        /\ PhaseOf(row.status) = "held"
    BY <1>3, <2>1 DEF ClaimJob, Claimable, PhaseOf
  <2>3. Abstract!Move(j, {"waiting", "held"}, "held")
    BY <1>type, <2>1, <2>2, AbstractMove
  <2>4. [k \in Jobs |-> jobs'[k].fencing]
          = [[k \in Jobs |-> jobs[k].fencing]
               EXCEPT ![j] = [k \in Jobs |-> jobs[k].fencing][j] + 1]
    BY <1>type, <2>1, <2>2, AbstractMove
  <2>5. Abstract!Grant(j)
    BY <2>3, <2>4 DEF Abstract!Grant
  <2> QED
    BY <2>5 DEF Abstract!Next
<1>4. ASSUME NEW j \in Jobs, LeaseExpires(j) PROVE UNCHANGED Abstract!vars
  BY <1>type, <1>4, <1>same, ExpiryEffect
<1>5. ASSUME NEW j \in Jobs, RecordDlqReceipt(j)
      PROVE  UNCHANGED Abstract!vars
  BY <1>5, <1>stay DEF RecordDlqReceipt
<1>6. ASSUME NEW j \in Jobs, NEW f \in 1 .. jobs[j].fencing,
             FencedStatement(j, f)
      PROVE  Abstract!Next \/ UNCHANGED Abstract!vars
  <2>1. ASSUME NEW row, Moves(j, row) PROVE Abstract!Next
    <3>1. Wrote(j, row) /\ row.fencing = jobs[j].fencing
      BY <2>1 DEF Moves, SameOrigin
    <3>2. CASE jobs[j].status = "leased" /\ row.status = "running"
      <4>1. /\ PhaseOf(jobs[j].status) \in {"held"}
            /\ PhaseOf(row.status) = "executing"
        BY <3>2 DEF PhaseOf
      <4>2. Abstract!Move(j, {"held"}, "executing")
        BY <1>type, <3>1, <4>1, AbstractMove
      <4>3. UNCHANGED [k \in Jobs |-> jobs[k].fencing]
        BY <1>epoch, <3>1
      <4> QED
        BY <4>2, <4>3 DEF Abstract!Start, Abstract!Next
    <3>3. CASE /\ jobs[j].status \in {"leased", "running"}
               /\ row.status = "retry_scheduled"
      <4>1. /\ PhaseOf(jobs[j].status) \in {"held", "executing"}
            /\ PhaseOf(row.status) = "waiting"
        BY <3>3 DEF PhaseOf
      <4>2. Abstract!Move(j, {"held", "executing"}, "waiting")
        BY <1>type, <3>1, <4>1, AbstractMove
      <4>3. UNCHANGED [k \in Jobs |-> jobs[k].fencing]
        BY <1>epoch, <3>1
      <4> QED
        BY <4>2, <4>3 DEF Abstract!GiveBack, Abstract!Next
    <3>4. CASE /\ jobs[j].status \in {"leased", "running"}
               /\ row.status \in Settled
      <4>1. /\ PhaseOf(jobs[j].status) \in {"held", "executing"}
            /\ PhaseOf(row.status) = "settled"
        BY <3>4 DEF PhaseOf, Settled, TerminalStatuses
      <4>2. Abstract!Move(j, {"held", "executing"}, "settled")
        BY <1>type, <3>1, <4>1, AbstractMove
      <4>3. UNCHANGED [k \in Jobs |-> jobs[k].fencing]
        BY <1>epoch, <3>1
      <4> QED
        BY <4>2, <4>3 DEF Abstract!Settle, Abstract!Next
    <3> QED
      BY <2>1, <3>2, <3>3, <3>4 DEF Moves
  <2> QED
    BY <1>type, <1>6, <1>stay, <2>1, FencedEffect
<1>7. ASSUME NEW j \in Jobs, NEW n \in 1 .. jobs[j].fencing,
             UnfencedStatement(j, n)
      PROVE  UNCHANGED Abstract!vars
  BY <1>7, <1>stay DEF UnfencedStatement, RecordJobAttempt, UpdateJobLastError
<1>8. ASSUME NEW j \in Jobs, NEW new \in Jobs, CreateDlqReplayJob(j, new)
      PROVE  Abstract!Next
  BY <1>type, <1>8, <1>new, ReplayEffect DEF CreateDlqReplayJob, Abstract!Next
<1>9. CASE UNCHANGED storeVars
  BY <1>9, <1>stay DEF storeVars
<1> QED
  BY <1>1, <1>2, <1>3, <1>4, <1>5, <1>6, <1>7, <1>8, <1>9
     DEF Next, SystemStatement

(* The statements, in any order and with any tokens, implement the lease   *)
(* protocol: an executing job is never granted again and a settled one is  *)
(* left alone.                                                             *)
THEOREM Refinement == Spec => ImplementsFencedJob
<1>1. Init => Abstract!Init
  BY DEF Init, NewRow, PhaseOf, Abstract!Init
<1> QED
  BY <1>1, RefinementStep, Invariance, PTL
     DEF Spec, Abstract!Spec, ImplementsFencedJob

-----------------------------------------------------------------------------
(* THE RUNTIME                                                             *)

MessageType == [place : {"free", "queue", "inflight", "dlq"},
                job : Jobs \cup {NoJob}, tries : Nat]

WorkerType == [pc : Steps, slot : Slots \cup {NoSlot}, token : Nat,
               expected : SUBSET {"leased", "running"}, retryable : BOOLEAN,
               outcome : Outcomes \cup {"none"}, released : BOOLEAN]

RuntimeTyped ==
  /\ messages \in [Slots -> MessageType]
  /\ worker \in [Workers -> WorkerType]
  /\ dispatcher \in [rows : SUBSET Jobs, sent : SUBSET Jobs]

Busy(w) == worker[w].pc # "idle"
Claimant(w) == worker[w].pc \notin {"idle", "claim"}
Runs(w) == \/ worker[w].pc = "run"
           \/ /\ worker[w].pc \in {"finish", "succeed"}
              /\ worker[w].outcome = "succeeded"

(* Where a message is, it names a job. *)
Named(m) == messages[m].place # "free" => messages[m].job \in Jobs

(* What a consumer remembers fits the place where it is. *)
Fits(r) ==
  /\ r.pc = "idle" => r = Idle
  /\ r.pc \in {"limits", "last_error", "release", "record"} =>
       r.expected \in {{"leased"}, {"running", "leased"}}
  /\ r.pc \in {"last_error", "release", "record"} =>
       r.outcome \in {"retry_scheduled", "dead_lettered"}
  /\ r.pc = "finish" => r.outcome \in {"succeeded", "committed"}
  /\ r.pc = "succeed" => r.outcome = "succeeded"

(* What one consumer may rely on. *)
Holds(w) ==
  /\ Fits(worker[w])
  /\ Busy(w) => /\ worker[w].slot \in Slots
                /\ messages[worker[w].slot].place = "inflight"
                /\ JobOf(w) \in Jobs
  /\ Claimant(w) => worker[w].token \in 1 .. jobs[JobOf(w)].fencing
  /\ Runs(w) => /\ jobs[JobOf(w)].status = "running"
                /\ jobs[JobOf(w)].lease = worker[w].token

(* Two consumers never have the same message, nor the same claim. *)
Apart(w, v) ==
  Busy(w) /\ Busy(v) =>
    /\ worker[w].slot # worker[v].slot
    /\ Claimant(w) /\ Claimant(v) /\ JobOf(w) = JobOf(v) =>
         worker[w].token # worker[v].token

QInv ==
  /\ Inv
  /\ RuntimeTyped
  /\ \A m \in Slots : Named(m)
  /\ \A w \in Workers : Holds(w)
  /\ \A w, v \in Workers : w # v => Apart(w, v)

-----------------------------------------------------------------------------
(* What a statement does to the rows the others rely on: fencing versions  *)
(* only grow, and a running job keeps its status and its token.            *)
Calm(j) ==
  /\ jobs'[j].fencing >= jobs[j].fencing
  /\ jobs[j].status = "running" => /\ jobs'[j].status = "running"
                                   /\ jobs'[j].lease = jobs[j].lease

LEMMA RowNumbers ==
  ASSUME TypeOK, NEW j \in Jobs
  PROVE  jobs[j].fencing \in Nat /\ jobs[j].lease \in Nat
BY MaxClaimsAssumption DEF TypeOK, JobRow

LEMMA SameIsCalm ==
  ASSUME TypeOK, UNCHANGED jobs
  PROVE  \A j \in Jobs : Calm(j)
BY RowNumbers DEF Calm

LEMMA InsertIsCalm ==
  ASSUME Inv, NEW k \in Jobs, jobs[k].status = "absent",
         NEW origin, Wrote(k, NewRow("pending", origin))
  PROVE  \A j \in Jobs : Calm(j)
<1>1. jobs[k].fencing = 0
  BY DEF Inv, AttemptsWereClaimed
<1>2. jobs'[k].fencing = 0
  BY DEF Wrote, NewRow
<1>3. \A j \in Jobs \ {k} : jobs'[j] = jobs[j] /\ jobs[j].fencing \in Nat
  BY RowNumbers DEF Wrote, Inv
<1> QED
  BY <1>1, <1>2, <1>3 DEF Calm

LEMMA MarkIsCalm ==
  ASSUME Inv, NEW k \in Jobs, MarkOutboxDispatched(k)
  PROVE  \A j \in Jobs : Calm(j)
<1>1. TypeOK
  BY DEF Inv
<1> QED
  BY <1>1, MarkEffect, RowNumbers DEF Wrote, SameOrigin, Calm

LEMMA ExpiryIsCalm ==
  ASSUME Inv, NEW k \in Jobs, LeaseExpires(k)
  PROVE  \A j \in Jobs : Calm(j)
<1>1. TypeOK
  BY DEF Inv
<1> QED
  BY <1>1, ExpiryEffect, RowNumbers DEF Wrote, SameOrigin, Calm

LEMMA ClaimIsCalm ==
  ASSUME Inv, NEW k \in Jobs, ClaimJob(k)
  PROVE  /\ \A j \in Jobs : Calm(j)
         /\ jobs'[k].fencing = jobs[k].fencing + 1
<1>1. TypeOK
  BY DEF Inv
<1>2. jobs[k].status # "running"
  BY DEF ClaimJob, Claimable
<1>3. PICK row : /\ Wrote(k, row)
                 /\ row.fencing = jobs[k].fencing + 1
  BY <1>1, ClaimEffect
<1> QED
  BY <1>1, <1>2, <1>3, RowNumbers DEF Wrote, Calm

(* A fenced statement disturbs nobody but the holder of its token. *)
LEMMA FencedIsCalm ==
  ASSUME Inv, NEW k \in Jobs, NEW f \in 1 .. jobs[k].fencing,
         FencedStatement(k, f)
  PROVE  \A j \in Jobs :
           /\ jobs'[j].fencing >= jobs[j].fencing
           /\ (j = k /\ jobs[j].lease = f) \/ Calm(j)
<1>1. TypeOK
  BY DEF Inv
<1>2. Presents(k, f)
  BY <1>1, FencedEffect
<1>3. CASE UNCHANGED jobs
  BY <1>1, <1>3, SameIsCalm DEF Calm
<1>4. ASSUME NEW row, Moves(k, row)
      PROVE  \A j \in Jobs :
               /\ jobs'[j].fencing >= jobs[j].fencing
               /\ (j = k /\ jobs[j].lease = f) \/ Calm(j)
  BY <1>1, <1>2, <1>4, RowNumbers
     DEF Moves, Wrote, SameOrigin, Presents, Calm
<1> QED
  BY <1>1, <1>3, <1>4, FencedEffect

-----------------------------------------------------------------------------
(* What the others have of a step that leaves their message alone and does *)
(* not present their token.                                                *)
LEMMA OtherKeeps ==
  ASSUME QInv, NEW v \in Workers, worker'[v] = worker[v],
         Busy(v) => messages'[worker[v].slot] = messages[worker[v].slot],
         \A j \in Jobs : jobs'[j].fencing >= jobs[j].fencing,
         Runs(v) => Calm(JobOf(v)),
         TypeOK'
  PROVE  Holds(v)'
<1>1. Holds(v)
  BY DEF QInv, Holds
<1>2. CASE ~Busy(v)
  BY <1>1, <1>2 DEF Holds, Busy, Claimant, Runs
<1>3. CASE Busy(v)
  <2>1. JobOf(v)' = JobOf(v) /\ JobOf(v) \in Jobs
    BY <1>1, <1>3 DEF JobOf, Holds
  <2>2. Claimant(v) => worker[v].token \in 1 .. jobs'[JobOf(v)].fencing
    <3>1. jobs'[JobOf(v)].fencing \in Nat /\ jobs[JobOf(v)].fencing \in Nat
      BY <2>1, MaxClaimsAssumption DEF QInv, Inv, TypeOK, JobRow
    <3> QED
      BY <1>1, <2>1, <3>1 DEF Holds
  <2>3. Runs(v) => /\ jobs'[JobOf(v)].status = "running"
                   /\ jobs'[JobOf(v)].lease = worker[v].token
    BY <1>1, <2>1 DEF Holds, Calm
  <2> QED
    BY <1>1, <1>3, <2>1, <2>2, <2>3
       DEF Holds, Busy, Claimant, Runs
<1> QED
  BY <1>2, <1>3

-----------------------------------------------------------------------------
(* A step that uses the tables as it may, and that leaves the rows alone   *)
(* on which the runners rely that do not move.                             *)
Quiet(movers) ==
  /\ [Next]_storeVars
  /\ \A j \in Jobs : jobs'[j].fencing >= jobs[j].fencing
  /\ \A v \in Workers \ movers : Runs(v) => Calm(JobOf(v))

LEMMA RunnersJob ==
  ASSUME QInv, NEW v \in Workers, Busy(v)
  PROVE  JobOf(v) \in Jobs
BY DEF QInv, Holds

LEMMA RunnerIsBusy ==
  ASSUME NEW v \in Workers, Runs(v)
  PROVE  Busy(v) /\ Claimant(v)
BY DEF Runs, Busy, Claimant

LEMMA CalmIsQuiet ==
  ASSUME QInv, NEW movers, [Next]_storeVars, \A j \in Jobs : Calm(j)
  PROVE  Quiet(movers)
BY RunnersJob, RunnerIsBusy DEF Quiet, Calm

LEMMA SameIsQuiet ==
  ASSUME QInv, NEW movers, UNCHANGED storeVars
  PROVE  Quiet(movers)
<1>1. TypeOK /\ UNCHANGED jobs
  BY DEF QInv, Inv, storeVars
<1> QED
  BY <1>1, SameIsCalm, CalmIsQuiet

LEMMA FencedIsQuiet ==
  ASSUME QInv, NEW w \in Workers, Claimant(w),
         FencedStatement(JobOf(w), worker[w].token)
  PROVE  Quiet({w})
<1> DEFINE k == JobOf(w)
           f == worker[w].token
<1>1. Inv /\ Busy(w) /\ k \in Jobs /\ f \in 1 .. jobs[k].fencing
  BY DEF QInv, Holds, Busy, Claimant
<1>2. Next
  BY <1>1 DEF Next
<1>3. \A j \in Jobs : /\ jobs'[j].fencing >= jobs[j].fencing
                      /\ (j = k /\ jobs[j].lease = f) \/ Calm(j)
  BY <1>1, FencedIsCalm
<1>4. ASSUME NEW v \in Workers \ {w}, Runs(v) PROVE Calm(JobOf(v))
  <2>1. Busy(v) /\ Claimant(v) /\ JobOf(v) \in Jobs
    BY <1>4, RunnerIsBusy, RunnersJob
  <2>2. JobOf(v) = k => worker[v].token # f
    BY <1>1, <2>1 DEF QInv, Apart
  <2>3. jobs[JobOf(v)].lease = worker[v].token
    BY <1>4 DEF QInv, Holds
  <2> QED
    BY <1>3, <2>1, <2>2, <2>3
<1> QED
  BY <1>2, <1>3, <1>4 DEF Quiet

LEMMA UnfencedIsQuiet ==
  ASSUME QInv, NEW w \in Workers, Claimant(w),
         UnfencedStatement(JobOf(w), worker[w].token)
  PROVE  Quiet({w})
<1>1. JobOf(w) \in Jobs /\ worker[w].token \in 1 .. jobs[JobOf(w)].fencing
  BY DEF QInv, Holds, Busy, Claimant
<1>2. Next
  BY <1>1 DEF Next
<1>3. TypeOK /\ UNCHANGED jobs
  BY DEF QInv, Inv, UnfencedStatement, RecordJobAttempt, UpdateJobLastError
<1> QED
  BY <1>2, <1>3, SameIsCalm, CalmIsQuiet

LEMMA ClaimIsQuiet ==
  ASSUME QInv, NEW w \in Workers, Busy(w), ClaimJob(JobOf(w))
  PROVE  Quiet({w})
<1>1. JobOf(w) \in Jobs /\ Inv
  BY RunnersJob DEF QInv
<1>2. Next
  BY <1>1 DEF Next, SystemStatement
<1> QED
  BY <1>1, <1>2, ClaimIsCalm, CalmIsQuiet

-----------------------------------------------------------------------------
(* The three ways a step can change the runtime: no consumer moves, one    *)
(* goes on with its message, or one is done with it.                       *)
LEMMA ApartTogether ==
  ASSUME NEW w \in Workers, NEW v \in Workers, Apart(w, v),
         Busy(w)' => /\ Busy(w)
                     /\ worker'[w].slot = worker[w].slot
                     /\ JobOf(w)' = JobOf(w)
                     /\ Claimant(w)' => /\ Claimant(w)
                                        /\ worker'[w].token = worker[w].token,
         Busy(v)' => /\ Busy(v)
                     /\ worker'[v].slot = worker[v].slot
                     /\ JobOf(v)' = JobOf(v)
                     /\ Claimant(v)' => /\ Claimant(v)
                                        /\ worker'[v].token = worker[v].token
  PROVE  Apart(w, v)'
BY DEF Apart, Busy, Claimant

LEMMA Elsewhere ==
  ASSUME QInv, Quiet({}), RuntimeTyped',
         UNCHANGED worker, \A m \in Slots : Named(m)',
         \A m \in Slots : messages[m].place = "inflight" =>
                            messages'[m] = messages[m]
  PROVE  QInv'
<1>1. Inv'
  BY InvStep DEF QInv, Quiet
<1>2. \A v \in Workers : Busy(v) => messages'[worker[v].slot]
                                      = messages[worker[v].slot]
  BY DEF QInv, Holds
<1>3. \A v \in Workers : Holds(v)'
  BY <1>1, <1>2, OtherKeeps DEF Quiet, Inv
<1>4. ASSUME NEW w \in Workers, NEW v \in Workers, w # v PROVE Apart(w, v)'
  <2>1. Apart(w, v)
    BY <1>4 DEF QInv
  <2> QED
    BY <1>2, <2>1, ApartTogether DEF Busy, Claimant, JobOf
<1> QED
  BY <1>1, <1>3, <1>4 DEF QInv

(* The consumer w goes on with its message, with the token it has or with  *)
(* one nobody had before.                                                  *)
LEMMA GoesOn ==
  ASSUME QInv, NEW w \in Workers, NEW next \in WorkerType,
         Busy(w), Continue(w, next), UNCHANGED dispatcher, Quiet({w}),
         next.slot = worker[w].slot, Holds(w)',
         \/ Claimant(w) /\ next.token = worker[w].token
         \/ next.token > jobs[JobOf(w)].fencing
  PROVE  QInv'
<1>1. Inv'
  BY InvStep DEF QInv, Quiet
<1>2. /\ worker'[w] = next
      /\ \A v \in Workers \ {w} : worker'[v] = worker[v]
      /\ RuntimeTyped'
  BY DEF QInv, RuntimeTyped, Continue
<1>3. UNCHANGED messages
  BY DEF Continue
<1>4. \A v \in Workers : JobOf(v)' = JobOf(v)
  BY <1>2, <1>3 DEF JobOf
<1>5. \A v \in Workers : Holds(v)'
  BY <1>1, <1>2, <1>3, OtherKeeps DEF Quiet, Inv
<1>6. ASSUME NEW v \in Workers \ {w} PROVE Apart(w, v)' /\ Apart(v, w)'
  <2>1. Apart(w, v) /\ Apart(v, w)
    BY DEF QInv
  <2>2. /\ Busy(v)' <=> Busy(v)
        /\ Claimant(v)' <=> Claimant(v)
    BY <1>2 DEF Busy, Claimant
  <2>3. CASE Claimant(w) /\ next.token = worker[w].token
    BY <1>2, <1>4, <2>1, <2>2, <2>3, ApartTogether
  <2>4. CASE next.token > jobs[JobOf(w)].fencing
    <3>1. Claimant(v) /\ JobOf(v) = JobOf(w) => worker[v].token # next.token
      <4>1. jobs[JobOf(w)].fencing \in Nat
        BY RunnersJob, RowNumbers DEF QInv, Inv
      <4> QED
        BY <2>4, <4>1 DEF QInv, Holds
    <3>2. Busy(v) => worker[v].slot # worker[w].slot
      BY <2>1 DEF Apart
    <3> QED
      BY <1>2, <1>4, <2>2, <3>1, <3>2 DEF Apart
  <2> QED
    BY <2>3, <2>4
<1>7. \A v, u \in Workers \ {w} : v # u => Apart(v, u)'
  BY <1>2, <1>4, ApartTogether DEF QInv, Busy, Claimant
<1>8. \A m \in Slots : Named(m)'
  BY <1>3 DEF QInv, Named
<1> QED
  BY <1>1, <1>2, <1>5, <1>6, <1>7, <1>8 DEF QInv

(* The consumer w leaves its message to the queue, or acknowledges it.     *)
LEMMA IsDone ==
  ASSUME QInv, NEW w \in Workers, NEW message \in MessageType,
         message.place # "free" => message.job \in Jobs,
         Busy(w), Finish(w, message), UNCHANGED dispatcher, Quiet({w})
  PROVE  QInv'
<1> DEFINE m == worker[w].slot
<1>1. Inv'
  BY InvStep DEF QInv, Quiet
<1>2. m \in Slots
  BY DEF QInv, Holds
<1>3. /\ worker'[w] = Idle
      /\ \A v \in Workers \ {w} : worker'[v] = worker[v]
      /\ messages'[m] = message
      /\ \A n \in Slots \ {m} : messages'[n] = messages[n]
  BY <1>2 DEF QInv, RuntimeTyped, Finish
<1>4. Idle \in WorkerType
  BY DEF Idle, WorkerType, Steps
<1>5. RuntimeTyped'
  BY <1>2, <1>4 DEF QInv, RuntimeTyped, Finish
<1>6. ASSUME NEW v \in Workers \ {w}, Busy(v)
      PROVE  /\ messages'[worker[v].slot] = messages[worker[v].slot]
             /\ JobOf(v)' = JobOf(v)
  <2>1. worker[v].slot \in Slots \ {m}
    BY <1>6 DEF QInv, Holds, Apart
  <2> QED
    BY <1>3, <2>1 DEF JobOf
<1>7. \A v \in Workers \ {w} : Holds(v)'
  BY <1>1, <1>3, <1>6, OtherKeeps DEF Quiet, Inv
<1>8. Holds(w)' /\ ~Busy(w)'
  BY <1>3 DEF Holds, Fits, Busy, Claimant, Runs, Idle
<1>9. \A v, u \in Workers : v # u => Apart(v, u)'
  <2> SUFFICES ASSUME NEW v \in Workers, NEW u \in Workers, v # u
               PROVE  Apart(v, u)'
    OBVIOUS
  <2>1. CASE v = w \/ u = w
    BY <1>8, <2>1 DEF Apart
  <2>2. CASE v # w /\ u # w
    BY <1>3, <1>6, <2>2, ApartTogether DEF QInv, Busy, Claimant
  <2> QED
    BY <2>1, <2>2
<1>10. \A n \in Slots : Named(n)'
  BY <1>3 DEF QInv, Named
<1> QED
  BY <1>1, <1>5, <1>7, <1>8, <1>9, <1>10 DEF QInv

-----------------------------------------------------------------------------
(* The actions of a consumer, one lemma each.                              *)
LEMMA CarriesOn ==
  ASSUME QInv, NEW w \in Workers, Claimant(w), NEW next \in WorkerType,
         Continue(w, next), UNCHANGED dispatcher, Quiet({w}),
         next.slot = worker[w].slot, next.token = worker[w].token,
         next.pc \notin {"idle", "claim"}, Fits(next),
         Runs(w)' => /\ jobs'[JobOf(w)].status = "running"
                     /\ jobs'[JobOf(w)].lease = worker[w].token
  PROVE  QInv'
<1>1. Busy(w) /\ Holds(w)
  BY DEF QInv, Busy, Claimant
<1>2. worker'[w] = next /\ UNCHANGED messages
  BY DEF QInv, RuntimeTyped, Continue
<1>3. JobOf(w)' = JobOf(w) /\ JobOf(w) \in Jobs
  BY <1>1, <1>2 DEF JobOf, Holds
<1>4. Inv /\ Inv'
  BY InvStep DEF QInv, Quiet
<1>5. jobs[JobOf(w)].fencing \in Nat /\ jobs'[JobOf(w)].fencing \in Nat
  BY <1>3, <1>4, MaxClaimsAssumption DEF Inv, TypeOK, JobRow
<1>6. worker[w].token \in 1 .. jobs'[JobOf(w)].fencing
  BY <1>1, <1>3, <1>5 DEF Holds, Quiet
<1>7. Holds(w)'
  BY <1>1, <1>2, <1>3, <1>6 DEF Holds, Busy, Claimant
<1> QED
  BY <1>1, <1>7, GoesOn

LEMMA FailureCarriesOn ==
  ASSUME QInv, NEW w \in Workers, Claimant(w),
         NEW expected \in {{"leased"}, {"running", "leased"}}, NEW error,
         SettleFailure(w, expected, error), UNCHANGED dispatcher, Quiet({w})
  PROVE  QInv'
<1> DEFINE next == [worker[w] EXCEPT !.pc = "limits", !.expected = expected,
                                     !.retryable = Retryable(error)]
<1>1. Retryable(error) \in BOOLEAN
  BY DEF Retryable
<1>2. worker[w] \in WorkerType
  BY DEF QInv, RuntimeTyped
<1>3. /\ next \in WorkerType /\ next.pc = "limits"
      /\ next.slot = worker[w].slot /\ next.token = worker[w].token
      /\ next.expected = expected
  BY <1>1, <1>2 DEF WorkerType, Steps
<1>4. Continue(w, next)
  BY DEF SettleFailure
<1> HIDE DEF next
<1>5. Fits(next)
  BY <1>3 DEF Fits
<1>6. worker'[w] = next
  BY <1>4 DEF QInv, RuntimeTyped, Continue
<1>7. ~Runs(w)'
  BY <1>3, <1>6 DEF Runs
<1> QED
  BY <1>3, <1>4, <1>5, <1>7, CarriesOn

(* A message that is acknowledged or retried, from wherever. *)
LEMMA Dismissed ==
  ASSUME QInv, NEW w \in Workers, Busy(w), Ack(w) \/ Retry(w),
         UNCHANGED dispatcher, Quiet({w})
  PROVE  QInv'
<1>1. NoMessage \in MessageType /\ NoMessage.place = "free"
  BY DEF NoMessage, MessageType
<1>2. CASE Ack(w)
  BY <1>1, <1>2, IsDone DEF Ack, Acked
<1>3. CASE Retry(w)
  <2> DEFINE m == worker[w].slot
  <2>1. m \in Slots /\ messages[m].job \in Jobs /\ messages[m] \in MessageType
    BY DEF QInv, Holds, JobOf, RuntimeTyped
  <2>2. Retried(m) \in MessageType /\ Retried(m).job \in Jobs
    BY <2>1 DEF Retried, MessageType
  <2> QED
    BY <1>3, <2>2, IsDone DEF Retry
<1> QED
  BY <1>2, <1>3

LEMMA FencedCall ==
  ASSUME QInv, NEW w \in Workers, Claimant(w),
         FencedStatement(JobOf(w), worker[w].token) \/ UNCHANGED storeVars
  PROVE  Quiet({w})
BY FencedIsQuiet, SameIsQuiet

LEMMA UnfencedCall ==
  ASSUME QInv, NEW w \in Workers, Claimant(w),
         UnfencedStatement(JobOf(w), worker[w].token) \/ UNCHANGED storeVars
  PROVE  Quiet({w})
BY UnfencedIsQuiet, SameIsQuiet

LEMMA ClaimStep ==
  ASSUME QInv, NEW w \in Workers, Claim(w)
  PROVE  Quiet({w}) /\ QInv'
<1> DEFINE j == JobOf(w)
           next == [worker[w] EXCEPT !.pc = "confirm",
                                     !.token = jobs[j].fencing + 1]
<1>1. Busy(w) /\ UNCHANGED dispatcher /\ worker[w].pc = "claim"
  BY DEF Claim, At, Busy
<1>2. j \in Jobs /\ Inv
  BY <1>1, RunnersJob DEF QInv
<1>3. ClaimJob(j) \/ UNCHANGED storeVars
  BY DEF Claim, Call
<1>4. Quiet({w})
  BY <1>1, <1>3, ClaimIsQuiet, SameIsQuiet
<1>5. CASE ClaimJob(j) /\ Continue(w, next)
  <2>1. worker[w] \in WorkerType /\ jobs[j].fencing \in Nat
    BY <1>2, RowNumbers DEF QInv, RuntimeTyped, Inv
  <2> DEFINE f == jobs[j].fencing + 1
  <2>f. f \in Nat
    BY <2>1
  <2> HIDE DEF f
  <2>n. next = [worker[w] EXCEPT !.pc = "confirm", !.token = f]
    BY DEF f
  <2> HIDE DEF next
  <2>r. /\ next \in WorkerType /\ next.pc = "confirm"
        /\ next.slot = worker[w].slot
        /\ next.token = f
    BY <2>1, <2>f, <2>n DEF WorkerType, Steps
  <2>2. /\ next \in WorkerType /\ next.pc = "confirm"
        /\ next.slot = worker[w].slot
        /\ next.token = jobs[j].fencing + 1
    BY <2>r DEF f
  <2>3. jobs'[j].fencing = jobs[j].fencing + 1
    BY <1>2, <1>5, ClaimIsCalm
  <2> HIDE DEF next
  <2>4. worker'[w] = next /\ UNCHANGED messages
    BY <1>5 DEF QInv, RuntimeTyped, Continue
  <2>5. JobOf(w)' = j
    BY <2>2, <2>4 DEF JobOf
  <2>6. Fits(next)
    BY <2>2 DEF Fits
  <2>7. Holds(w)
    BY DEF QInv
  <2>8. Holds(w)'
    BY <1>1, <1>2, <2>1, <2>2, <2>3, <2>4, <2>5, <2>6, <2>7
       DEF Holds, Busy, Claimant, Runs
  <2> QED
    BY <1>1, <1>4, <1>5, <2>1, <2>2, <2>8, GoesOn
<1>6. CASE Ack(w) \/ Retry(w)
  BY <1>1, <1>4, <1>6, Dismissed
<1> QED
  BY <1>4, <1>5, <1>6 DEF Claim, Call

LEMMA ConfirmStep ==
  ASSUME QInv, NEW w \in Workers, ConfirmOutbox(w)
  PROVE  Quiet({w}) /\ QInv'
<1> DEFINE next == [worker[w] EXCEPT !.pc = "mark"]
<1>1. Claimant(w) /\ UNCHANGED dispatcher
  BY DEF ConfirmOutbox, At, Claimant
<1>2. Quiet({w})
  BY <1>1, FencedCall DEF ConfirmOutbox, Call, FencedStatement
<1>3. CASE Continue(w, next)
  <2>1. worker[w] \in WorkerType
    BY DEF QInv, RuntimeTyped
  <2>2. /\ next \in WorkerType /\ next.pc = "mark"
        /\ next.slot = worker[w].slot /\ next.token = worker[w].token
    BY <2>1 DEF WorkerType, Steps
  <2> HIDE DEF next
  <2>3. worker'[w] = next
    BY <1>3 DEF QInv, RuntimeTyped, Continue
  <2>4. Fits(next) /\ ~Runs(w)'
    BY <2>2, <2>3 DEF Fits, Runs
  <2> QED
    BY <1>1, <1>2, <1>3, <2>2, <2>4, CarriesOn
<1>4. CASE SettleFailure(w, {"leased"}, D1Error)
  BY <1>1, <1>2, <1>4, FailureCarriesOn
<1> QED
  BY <1>2, <1>3, <1>4 DEF ConfirmOutbox

LEMMA MarkStep ==
  ASSUME QInv, NEW w \in Workers, MarkRunning(w)
  PROVE  Quiet({w}) /\ QInv'
<1> DEFINE next == [worker[w] EXCEPT !.pc = "run"]
           j == JobOf(w)
           f == worker[w].token
<1>1. Claimant(w) /\ UNCHANGED dispatcher
  BY DEF MarkRunning, At, Claimant
<1>2. Quiet({w})
  BY <1>1, FencedCall DEF MarkRunning, Call, FencedStatement
<1>3. CASE TransitionClaimedJob(j, "leased", "running", f)
           /\ Continue(w, next)
  <2>1. worker[w] \in WorkerType
    BY DEF QInv, RuntimeTyped
  <2>2. /\ next \in WorkerType /\ next.pc = "run"
        /\ next.slot = worker[w].slot /\ next.token = worker[w].token
    BY <2>1 DEF WorkerType, Steps
  <2> HIDE DEF next
  <2>3. Fits(next)
    BY <2>2 DEF Fits
  <2>4. j \in Jobs /\ jobs \in [Jobs -> JobRow]
    BY <1>1, RunnersJob DEF QInv, Inv, TypeOK, Busy, Claimant
  <2>5. /\ jobs' = [jobs EXCEPT ![j] = [jobs[j] EXCEPT !.status = "running"]]
        /\ jobs[j].lease = f
    BY <1>3 DEF TransitionClaimedJob, TransitionMatches, Presents,
                ReleasesLease, TerminalStatuses
  <2>6. jobs'[j].status = "running" /\ jobs'[j].lease = f
    BY <2>4, <2>5 DEF JobRow
  <2> QED
    BY <1>1, <1>2, <1>3, <2>2, <2>3, <2>6, CarriesOn
<1>4. CASE SettleFailure(w, {"leased"}, D1Error)
  BY <1>1, <1>2, <1>4, FailureCarriesOn
<1> QED
  BY <1>2, <1>3, <1>4 DEF MarkRunning, Call

LEMMA RunStep ==
  ASSUME QInv, NEW w \in Workers, RunShadow(w)
  PROVE  Quiet({w}) /\ QInv'
<1> DEFINE j == JobOf(w)
           f == worker[w].token
           Ran(outcome) == [worker[w] EXCEPT !.pc = "finish",
                                             !.outcome = outcome]
<1>1. Claimant(w) /\ UNCHANGED dispatcher /\ worker[w].pc = "run"
  BY DEF RunShadow, At, Claimant
<1>2. CommitImportedJob(j, f) \/ UNCHANGED storeVars
  BY DEF RunShadow, Call
<1>3. Quiet({w})
  BY <1>1, <1>2, FencedCall DEF FencedStatement
<1>4. ASSUME NEW outcome \in {"succeeded", "committed"},
             Continue(w, Ran(outcome)),
             outcome = "succeeded" => UNCHANGED storeVars
      PROVE  QInv'
  <2> DEFINE next == Ran(outcome)
  <2>1. worker[w] \in WorkerType /\ outcome \in Outcomes
    BY AttemptOutcomes DEF QInv, RuntimeTyped
  <2>2. /\ next \in WorkerType /\ next.pc = "finish"
        /\ next.slot = worker[w].slot /\ next.token = worker[w].token
        /\ next.outcome = outcome
    BY <2>1 DEF WorkerType, Steps
  <2>3. Continue(w, next)
    BY <1>4
  <2> HIDE DEF next
  <2>4. Fits(next)
    BY <2>2 DEF Fits
  <2>5. worker'[w] = next
    BY <2>3 DEF QInv, RuntimeTyped, Continue
  <2>6. Runs(w)' => jobs'[j].status = "running" /\ jobs'[j].lease = f
    <3>1. Runs(w)' => UNCHANGED jobs
      BY <1>4, <2>2, <2>5 DEF Runs, storeVars
    <3>2. jobs[j].status = "running" /\ jobs[j].lease = f
      BY <1>1 DEF QInv, Holds, Runs
    <3> QED
      BY <3>1, <3>2
  <2> QED
    BY <1>1, <1>3, <2>2, <2>3, <2>4, <2>6, CarriesOn
<1>5. ASSUME NEW error, SettleFailure(w, {"running", "leased"}, error)
      PROVE  QInv'
  BY <1>1, <1>3, <1>5, FailureCarriesOn
<1>6. \/ UNCHANGED storeVars /\ Continue(w, Ran("succeeded"))
      \/ Continue(w, Ran("committed"))
      \/ SettleFailure(w, {"running", "leased"}, D1Error)
      \/ SettleFailure(w, {"running", "leased"}, PayloadError)
  BY DEF RunShadow
<1> HIDE DEF Ran
<1> QED
  BY <1>3, <1>4, <1>5, <1>6

LEMMA FinishStep ==
  ASSUME QInv, NEW w \in Workers, FinishAttempt(w)
  PROVE  Quiet({w}) /\ QInv'
<1> DEFINE j == JobOf(w)
           f == worker[w].token
           next == [worker[w] EXCEPT !.pc = "succeed"]
<1>1. /\ Claimant(w) /\ Busy(w) /\ UNCHANGED dispatcher
      /\ worker[w].pc = "finish"
  BY DEF FinishAttempt, At, Claimant, Busy
<1>2. worker[w] \in WorkerType /\ Fits(worker[w])
  BY DEF QInv, RuntimeTyped, Holds
<1>3. worker[w].outcome \in Outcomes
  BY <1>1, <1>2, AttemptOutcomes DEF Fits
<1>4. RecordJobAttempt(j, f, worker[w].outcome) \/ UNCHANGED storeVars
  BY DEF FinishAttempt, Call
<1>5. Quiet({w})
  BY <1>1, <1>3, <1>4, UnfencedCall DEF UnfencedStatement
<1>6. CASE worker[w].outcome = "succeeded" /\ Continue(w, next)
  <2>1. /\ next \in WorkerType /\ next.pc = "succeed"
        /\ next.slot = worker[w].slot /\ next.token = worker[w].token
        /\ next.outcome = "succeeded"
    BY <1>2, <1>6 DEF WorkerType, Steps
  <2> HIDE DEF next
  <2>2. Fits(next)
    BY <2>1 DEF Fits
  <2>3. jobs[j].status = "running" /\ jobs[j].lease = f
    BY <1>1, <1>6 DEF QInv, Holds, Runs
  <2>4. UNCHANGED jobs
    BY <1>4 DEF RecordJobAttempt, storeVars
  <2>5. jobs'[j].status = "running" /\ jobs'[j].lease = f
    BY <2>3, <2>4
  <2> QED
    BY <1>1, <1>5, <1>6, <2>1, <2>2, <2>5, CarriesOn
<1>7. CASE Ack(w)
  BY <1>1, <1>5, <1>7, Dismissed
<1>8. CASE SettleFailure(w, {"running", "leased"}, D1Error)
  BY <1>1, <1>5, <1>8, FailureCarriesOn
<1> QED
  BY <1>5, <1>6, <1>7, <1>8 DEF FinishAttempt

LEMMA SucceedStep ==
  ASSUME QInv, NEW w \in Workers, Succeed(w)
  PROVE  Quiet({w}) /\ QInv'
<1>1. Claimant(w) /\ Busy(w) /\ UNCHANGED dispatcher
  BY DEF Succeed, At, Claimant, Busy
<1>2. Quiet({w})
  BY <1>1, FencedCall DEF Succeed, Call, FencedStatement
<1>3. CASE Ack(w)
  BY <1>1, <1>2, <1>3, Dismissed
<1>4. CASE SettleFailure(w, {"running", "leased"}, D1Error)
  BY <1>1, <1>2, <1>4, FailureCarriesOn
<1> QED
  BY <1>2, <1>3, <1>4 DEF Succeed

(* settleClaimedFailure runs nothing, so that only its place has to fit.   *)
LEMMA SettlementGoesOn ==
  ASSUME QInv, NEW w \in Workers, Claimant(w), NEW next \in WorkerType,
         Continue(w, next), UNCHANGED dispatcher, Quiet({w}),
         next.slot = worker[w].slot, next.token = worker[w].token,
         next.pc \in {"last_error", "release", "record"},
         next.expected \in {{"leased"}, {"running", "leased"}},
         next.outcome \in {"retry_scheduled", "dead_lettered"}
  PROVE  QInv'
<1>1. worker'[w] = next
  BY DEF QInv, RuntimeTyped, Continue
<1>2. Fits(next) /\ ~Runs(w)'
  BY <1>1 DEF Fits, Runs
<1> QED
  BY <1>2, CarriesOn

LEMMA LimitsStep ==
  ASSUME QInv, NEW w \in Workers, LoadLimits(w)
  PROVE  Quiet({w}) /\ QInv'
<1> DEFINE To(outcome) == [worker[w] EXCEPT !.pc = "last_error",
                                            !.outcome = outcome]
<1>1. Claimant(w) /\ UNCHANGED dispatcher /\ worker[w].pc = "limits"
  BY DEF LoadLimits, At, Claimant
<1>2. Quiet({w})
  BY SameIsQuiet DEF LoadLimits
<1>3. PICK outcome \in {"retry_scheduled", "dead_lettered"} :
             Continue(w, To(outcome))
  BY Zenon DEF LoadLimits
<1> DEFINE next == To(outcome)
<1>4. worker[w] \in WorkerType /\ Fits(worker[w])
  BY DEF QInv, RuntimeTyped, Holds
<1>5. worker[w].expected \in {{"leased"}, {"running", "leased"}}
  BY <1>1, <1>4 DEF Fits
<1>6. outcome \in Outcomes
  BY <1>3, AttemptOutcomes
<1>7. /\ next \in WorkerType /\ next.pc = "last_error"
      /\ next.slot = worker[w].slot /\ next.token = worker[w].token
      /\ next.expected = worker[w].expected /\ next.outcome = outcome
  BY <1>4, <1>6 DEF WorkerType, Steps
<1>8. Continue(w, next)
  BY <1>3
<1> HIDE DEF next, To
<1> QED
  BY <1>1, <1>2, <1>3, <1>5, <1>7, <1>8, SettlementGoesOn

LEMMA LastErrorStep ==
  ASSUME QInv, NEW w \in Workers, UpdateLastError(w)
  PROVE  Quiet({w}) /\ QInv'
<1> DEFINE next == [worker[w] EXCEPT !.pc = "release"]
<1>1. Claimant(w) /\ UNCHANGED dispatcher /\ worker[w].pc = "last_error"
  BY DEF UpdateLastError, At, Claimant
<1>2. worker[w] \in WorkerType /\ Fits(worker[w])
  BY DEF QInv, RuntimeTyped, Holds
<1>3. worker[w].retryable \in BOOLEAN
  BY <1>2 DEF WorkerType
<1>4. Quiet({w})
  BY <1>1, <1>3, UnfencedCall DEF UpdateLastError, Call, UnfencedStatement
<1>5. /\ next \in WorkerType /\ next.pc = "release"
      /\ next.slot = worker[w].slot /\ next.token = worker[w].token
      /\ next.expected = worker[w].expected
      /\ next.outcome = worker[w].outcome
  BY <1>2 DEF WorkerType, Steps
<1>6. Continue(w, next)
  BY DEF UpdateLastError
<1> HIDE DEF next
<1> QED
  BY <1>1, <1>2, <1>4, <1>5, <1>6, SettlementGoesOn DEF Fits

LEMMA ReleaseStep ==
  ASSUME QInv, NEW w \in Workers, ReleaseOutcome(w)
  PROVE  Quiet({w}) /\ QInv'
<1> DEFINE To(b) == [worker[w] EXCEPT !.pc = "record", !.released = b]
<1>1. Claimant(w) /\ UNCHANGED dispatcher /\ worker[w].pc = "release"
  BY DEF ReleaseOutcome, At, Claimant
<1>2. worker[w] \in WorkerType /\ Fits(worker[w])
  BY DEF QInv, RuntimeTyped, Holds
<1>3. /\ worker[w].expected \in {{"leased"}, {"running", "leased"}}
      /\ worker[w].outcome \in {"retry_scheduled", "dead_lettered"}
  BY <1>1, <1>2 DEF Fits
<1>4. Quiet({w})
  BY <1>1, <1>3, FencedCall DEF ReleaseOutcome, Call, FencedStatement
<1>5. PICK b \in BOOLEAN : Continue(w, To(b))
  BY Zenon DEF ReleaseOutcome
<1> DEFINE next == To(b)
<1>6. /\ next \in WorkerType /\ next.pc = "record"
      /\ next.slot = worker[w].slot /\ next.token = worker[w].token
      /\ next.expected = worker[w].expected
      /\ next.outcome = worker[w].outcome
  BY <1>2 DEF WorkerType, Steps
<1>7. Continue(w, next)
  BY <1>5
<1> HIDE DEF next, To
<1> QED
  BY <1>1, <1>3, <1>4, <1>6, <1>7, SettlementGoesOn

LEMMA RecordStep ==
  ASSUME QInv, NEW w \in Workers, RecordOutcome(w)
  PROVE  Quiet({w}) /\ QInv'
<1>1. /\ Claimant(w) /\ Busy(w) /\ UNCHANGED dispatcher
      /\ worker[w].pc = "record"
  BY DEF RecordOutcome, At, Claimant, Busy
<1>2. worker[w].outcome \in Outcomes
  BY <1>1, AttemptOutcomes DEF QInv, Holds, Fits
<1>3. Quiet({w})
  BY <1>1, <1>2, UnfencedCall DEF RecordOutcome, Call, UnfencedStatement
<1>4. Ack(w) \/ Retry(w)
  BY DEF RecordOutcome
<1> QED
  BY <1>1, <1>3, <1>4, Dismissed

LEMMA DeathStep ==
  ASSUME QInv, NEW w \in Workers, WorkerDies(w)
  PROVE  Quiet({w}) /\ QInv'
<1>1. Busy(w) /\ Retry(w) /\ UNCHANGED dispatcher
  BY DEF WorkerDies, QInv, Holds, Fits, Busy
<1>2. Quiet({w})
  BY SameIsQuiet DEF WorkerDies
<1> QED
  BY <1>1, <1>2, Dismissed

-----------------------------------------------------------------------------
(* The actions of the others. *)
LEMMA DeliverStep ==
  ASSUME QInv, NEW w \in Workers, NEW m \in Slots, Deliver(w, m)
  PROVE  Quiet({}) /\ QInv'
<1> DEFINE next == [worker[w] EXCEPT !.pc = "claim", !.slot = m]
           n == messages[m].tries + 1
           message == [messages[m] EXCEPT !.place = "inflight", !.tries = n]
<1>1. /\ worker[w] = Idle /\ messages[m].place = "queue"
      /\ UNCHANGED <<storeVars, dispatcher>>
      /\ worker' = [worker EXCEPT ![w] = next]
  BY DEF Deliver
<1>2. /\ worker[w] \in WorkerType /\ messages[m] \in MessageType
      /\ messages[m].job \in Jobs
  BY <1>1 DEF QInv, RuntimeTyped, Named
<1>3. /\ next \in WorkerType /\ next.pc = "claim" /\ next.slot = m
  BY <1>2 DEF WorkerType, Steps
<1>4. messages' = [messages EXCEPT ![m] = message]
  BY <1>2 DEF Deliver, QInv, RuntimeTyped, MessageType
<1>n. n \in Nat
  BY <1>2 DEF MessageType
<1> HIDE DEF n
<1>5. /\ message \in MessageType /\ message.place = "inflight"
      /\ message.job = messages[m].job
  BY <1>2, <1>n DEF MessageType
<1> HIDE DEF next, message
<1>6. /\ messages'[m] = message
      /\ \A o \in Slots \ {m} : messages'[o] = messages[o]
      /\ messages' \in [Slots -> MessageType]
  BY <1>4, <1>5 DEF QInv, RuntimeTyped
<1>7. /\ worker'[w] = next
      /\ \A v \in Workers \ {w} : worker'[v] = worker[v]
      /\ worker' \in [Workers -> WorkerType]
  BY <1>1, <1>3 DEF QInv, RuntimeTyped
<1>8. Quiet({})
  BY <1>1, SameIsQuiet
<1>9. Inv'
  BY <1>8, InvStep DEF QInv, Quiet
<1>10. RuntimeTyped'
  BY <1>1, <1>6, <1>7 DEF QInv, RuntimeTyped
<1>11. \A o \in Slots : Named(o)'
  BY <1>2, <1>5, <1>6 DEF QInv, Named
<1>12. ASSUME NEW v \in Workers \ {w}, Busy(v)
       PROVE  /\ worker[v].slot # m
              /\ messages'[worker[v].slot] = messages[worker[v].slot]
              /\ JobOf(v)' = JobOf(v)
  <2>1. /\ worker[v].slot \in Slots
        /\ messages[worker[v].slot].place = "inflight"
    BY <1>12 DEF QInv, Holds
  <2>2. worker[v].slot # m
    BY <1>1, <2>1
  <2> QED
    BY <1>6, <1>7, <2>1, <2>2 DEF JobOf
<1>13. \A v \in Workers \ {w} : Holds(v)'
  BY <1>7, <1>8, <1>9, <1>12, OtherKeeps DEF Quiet, Inv
<1>14. Holds(w)'
  <2>1. JobOf(w)' \in Jobs
    BY <1>2, <1>3, <1>5, <1>6, <1>7 DEF JobOf
  <2> QED
    BY <1>3, <1>5, <1>6, <1>7, <2>1
       DEF Holds, Fits, Busy, Claimant, Runs
<1>15. ~Claimant(w)' /\ worker'[w].slot = m
  BY <1>3, <1>7 DEF Claimant
<1>16. \A v, u \in Workers : v # u => Apart(v, u)'
  <2> SUFFICES ASSUME NEW v \in Workers, NEW u \in Workers, v # u
               PROVE  Apart(v, u)'
    OBVIOUS
  <2>1. CASE v = w
    BY <1>7, <1>12, <1>15, <2>1 DEF Apart, Busy
  <2>2. CASE u = w
    BY <1>7, <1>12, <1>15, <2>2 DEF Apart, Busy
  <2>3. CASE v # w /\ u # w
    BY <1>7, <1>12, <2>3, ApartTogether DEF QInv, Busy, Claimant
  <2> QED
    BY <2>1, <2>2, <2>3
<1> QED
  BY <1>8, <1>9, <1>10, <1>11, <1>13, <1>14, <1>16 DEF QInv

LEMMA EnvironmentStep ==
  ASSUME QInv, Environment
  PROVE  Quiet({}) /\ QInv'
<1>1. UNCHANGED <<messages, worker, dispatcher>> /\ Inv
  BY DEF Environment, runtimeVars, QInv
<1>2. Next /\ \A j \in Jobs : Calm(j)
  <2>1. ASSUME NEW j \in Jobs, GenerateShadowJob(j)
        PROVE  Next /\ \A k \in Jobs : Calm(k)
    <3>1. jobs[j].status = "absent" /\ Wrote(j, NewRow("pending", NoJob))
      BY <1>1, <2>1, GenerateEffect DEF Inv, GenerateShadowJob
    <3>2. \A k \in Jobs : Calm(k)
      BY <1>1, <3>1, InsertIsCalm
    <3> QED
      BY <2>1, <3>2 DEF Next, SystemStatement
  <2>2. ASSUME NEW j \in Jobs, LeaseExpires(j)
        PROVE  Next /\ \A k \in Jobs : Calm(k)
    BY <1>1, <2>2, ExpiryIsCalm DEF Next, SystemStatement
  <2>3. ASSUME NEW j \in Jobs, NEW new \in Jobs, CreateDlqReplayJob(j, new)
        PROVE  Next /\ \A k \in Jobs : Calm(k)
    <3>1. jobs[new].status = "absent" /\ Wrote(new, NewRow("pending", j))
      BY <1>1, <2>3, ReplayEffect DEF Inv, CreateDlqReplayJob
    <3>2. \A k \in Jobs : Calm(k)
      BY <1>1, <3>1, InsertIsCalm
    <3> QED
      BY <2>3, <3>2 DEF Next
  <2> QED
    BY <2>1, <2>2, <2>3 DEF Environment
<1>3. Quiet({})
  BY <1>2, CalmIsQuiet
<1>4. RuntimeTyped' /\ \A m \in Slots : Named(m)'
  BY <1>1 DEF QInv, RuntimeTyped, Named
<1> QED
  BY <1>1, <1>3, <1>4, Elsewhere

LEMMA LoadStep ==
  ASSUME QInv, NEW rows \in SUBSET Jobs, LoadDispatchable(rows)
  PROVE  Quiet({}) /\ QInv'
<1>1. Quiet({}) /\ UNCHANGED <<messages, worker>>
  BY SameIsQuiet DEF LoadDispatchable
<1>2. RuntimeTyped' /\ \A m \in Slots : Named(m)'
  BY DEF LoadDispatchable, QInv, RuntimeTyped, Named
<1> QED
  BY <1>1, <1>2, Elsewhere

LEMMA SendStep ==
  ASSUME QInv, NEW j \in Jobs, NEW m \in Slots, Send(j, m)
  PROVE  Quiet({}) /\ QInv'
<1>1. Quiet({}) /\ UNCHANGED worker
  BY SameIsQuiet DEF Send
<1>2. [place |-> "queue", job |-> j, tries |-> 0] \in MessageType
  BY DEF MessageType
<1>3. RuntimeTyped' /\ \A n \in Slots : Named(n)'
  BY <1>2 DEF Send, QInv, RuntimeTyped, Named
<1>4. \A n \in Slots : messages[n].place = "inflight" =>
                         messages'[n] = messages[n]
  BY DEF Send, QInv, RuntimeTyped
<1> QED
  BY <1>1, <1>3, <1>4, Elsewhere

LEMMA MarkDispatchedStep ==
  ASSUME QInv, NEW j \in Jobs, MarkDispatched(j)
  PROVE  Quiet({}) /\ QInv'
<1>1. MarkOutboxDispatched(j) \/ UNCHANGED storeVars
  BY DEF MarkDispatched, Call
<1>2. ASSUME MarkOutboxDispatched(j) PROVE Quiet({})
  <2>1. Next
    BY <1>2 DEF Next, SystemStatement
  <2> QED
    BY <1>2, <2>1, MarkIsCalm, CalmIsQuiet DEF QInv
<1>3. Quiet({}) /\ UNCHANGED <<messages, worker>>
  BY <1>1, <1>2, SameIsQuiet DEF MarkDispatched
<1>4. RuntimeTyped' /\ \A m \in Slots : Named(m)'
  BY DEF MarkDispatched, QInv, RuntimeTyped, Named
<1> QED
  BY <1>3, <1>4, Elsewhere

LEMMA DispatcherDiesStep ==
  ASSUME QInv, DispatcherDies
  PROVE  Quiet({}) /\ QInv'
<1>1. Quiet({}) /\ UNCHANGED <<messages, worker>>
  BY SameIsQuiet DEF DispatcherDies
<1>2. RuntimeTyped' /\ \A m \in Slots : Named(m)'
  BY DEF DispatcherDies, QInv, RuntimeTyped, Named
<1> QED
  BY <1>1, <1>2, Elsewhere

LEMMA DlqStep ==
  ASSUME QInv, NEW m \in Slots, ConsumeDlq(m)
  PROVE  Quiet({}) /\ QInv'
<1> DEFINE j == messages[m].job
           again == [messages[m] EXCEPT !.tries = @ + 1]
<1>1. /\ messages[m].place = "dlq" /\ j \in Jobs
      /\ messages[m] \in MessageType /\ UNCHANGED <<worker, dispatcher>>
  BY DEF ConsumeDlq, QInv, Named, RuntimeTyped
<1>2. RecordDlqReceipt(j) \/ UNCHANGED storeVars
  BY DEF ConsumeDlq, Call
<1>3. ASSUME RecordDlqReceipt(j) PROVE Quiet({})
  <2>1. Next
    BY <1>1, <1>3 DEF Next, SystemStatement
  <2>2. TypeOK /\ UNCHANGED jobs
    BY <1>3 DEF QInv, Inv, RecordDlqReceipt
  <2> QED
    BY <2>1, <2>2, SameIsCalm, CalmIsQuiet
<1>4. Quiet({})
  BY <1>2, <1>3, SameIsQuiet
<1>5. /\ again \in MessageType /\ again.job = j /\ again.place = "dlq"
      /\ NoMessage \in MessageType /\ NoMessage.place = "free"
  BY <1>1 DEF MessageType, NoMessage
<1>6. \/ messages' = [messages EXCEPT ![m] = NoMessage]
      \/ messages' = [messages EXCEPT ![m] = again]
  BY DEF ConsumeDlq
<1> HIDE DEF again
<1>7. RuntimeTyped' /\ \A n \in Slots : Named(n)'
  BY <1>1, <1>5, <1>6 DEF QInv, RuntimeTyped, Named
<1>8. \A n \in Slots : messages[n].place = "inflight" =>
                         messages'[n] = messages[n]
  BY <1>1, <1>6 DEF QInv, RuntimeTyped
<1> QED
  BY <1>1, <1>4, <1>7, <1>8, Elsewhere

-----------------------------------------------------------------------------
(* Every step of the runtime is one of the tables, and keeps the           *)
(* invariant.                                                              *)
LEMMA QueueStep == QInv /\ [QueueNext]_queueVars => [Next]_storeVars /\ QInv'
<1> SUFFICES ASSUME QInv, [QueueNext]_queueVars
             PROVE  [Next]_storeVars /\ QInv'
  OBVIOUS
<1>1. CASE Environment
  BY <1>1, EnvironmentStep DEF Quiet
<1>2. ASSUME NEW rows \in SUBSET Jobs, LoadDispatchable(rows)
      PROVE  [Next]_storeVars /\ QInv'
  BY <1>2, LoadStep DEF Quiet
<1>3. CASE DispatcherStep
  BY <1>3, MarkDispatchedStep, SendStep DEF DispatcherStep, Quiet
<1>4. CASE DispatcherDies
  BY <1>4, DispatcherDiesStep DEF Quiet
<1>5. ASSUME NEW w \in Workers, WorkerStep(w) \/ WorkerDies(w)
      PROVE  [Next]_storeVars /\ QInv'
  <2>1. Quiet({w}) /\ QInv'
    BY <1>5, ClaimStep, ConfirmStep, MarkStep, RunStep, FinishStep,
       SucceedStep, LimitsStep, LastErrorStep, ReleaseStep, RecordStep,
       DeathStep
       DEF WorkerStep
  <2> QED
    BY <2>1 DEF Quiet
<1>6. ASSUME NEW w \in Workers, NEW m \in Slots, Deliver(w, m)
      PROVE  [Next]_storeVars /\ QInv'
  BY <1>6, DeliverStep DEF Quiet
<1>7. ASSUME NEW m \in Slots, ConsumeDlq(m)
      PROVE  [Next]_storeVars /\ QInv'
  BY <1>7, DlqStep DEF Quiet
<1>8. CASE UNCHANGED queueVars
  <2>1. UNCHANGED storeVars /\ UNCHANGED <<messages, worker, dispatcher>>
    BY <1>8 DEF queueVars, runtimeVars
  <2>2. Quiet({})
    BY <2>1, SameIsQuiet
  <2>3. RuntimeTyped' /\ \A m \in Slots : Named(m)'
    BY <2>1 DEF QInv, RuntimeTyped, Named
  <2> QED
    BY <2>1, <2>2, <2>3, Elsewhere DEF Quiet
<1> QED
  BY <1>1, <1>2, <1>3, <1>4, <1>5, <1>6, <1>7, <1>8 DEF QueueNext

LEMMA QueueBegins == QueueInit => QInv
<1> SUFFICES ASSUME QueueInit PROVE QInv
  OBVIOUS
<1>1. Inv
  BY InitInv DEF QueueInit
<1>2. NoMessage \in MessageType /\ NoMessage.place = "free"
  BY DEF NoMessage, MessageType
<1>3. Idle \in WorkerType
  BY DEF Idle, WorkerType, Steps
<1>4. RuntimeTyped
  BY <1>2, <1>3 DEF QueueInit, RuntimeTyped
<1>5. \A m \in Slots : Named(m)
  BY <1>2 DEF QueueInit, Named
<1>6. \A w \in Workers : worker[w] = Idle /\ worker[w].pc = "idle"
  BY DEF QueueInit, Idle
<1>7. \A w \in Workers : Holds(w)
  BY <1>6 DEF Holds, Fits, Busy, Claimant, Runs
<1>8. \A w, v \in Workers : Apart(w, v)
  BY <1>6 DEF Apart, Busy
<1> QED
  BY <1>1, <1>4, <1>5, <1>7, <1>8 DEF QInv

(* What consumers remember stays true whatever the others do: see QInv.    *)
THEOREM MemoryHolds == QueueSpec => []QInv
<1>1. QInv /\ [QueueNext]_queueVars => QInv'
  BY QueueStep
<1> QED
  BY <1>1, QueueBegins, PTL DEF QueueSpec

(* Handlers, dispatcher and dead letter consumer use the job tables only   *)
(* by statements JobStore allows, with tokens, attempt numbers and         *)
(* statuses a claim gave them (queue-shadow.ts calls job-store.ts).        *)
THEOREM HandlersUseTables == QueueSpec => ImplementsJobStore
<1>1. QInv /\ [QueueNext]_queueVars => [Next]_storeVars
  BY QueueStep
<1>2. QueueInit => Init
  BY DEF QueueInit
<1> QED
  BY <1>1, <1>2, MemoryHolds, PTL DEF QueueSpec, ImplementsJobStore, Spec

(* No lease that runs out, duplicate message or late settlement takes a    *)
(* job away from the runner that works on it.                              *)
THEOREM RunnersOwnJobs == QueueSpec => []RunnerOwnsJob
<1>1. QInv => RunnerOwnsJob
  BY DEF QInv, Holds, Runs, RunnerOwnsJob
<1> QED
  BY <1>1, MemoryHolds, PTL

(* So what is proved of the tables holds of the runtime: a settled job     *)
(* stays as it is, whatever overtaken handlers still do.                   *)
THEOREM RuntimeSettles == QueueSpec => SettledStaySettled
BY HandlersUseTables, SettledIsFinal DEF ImplementsJobStore

-----------------------------------------------------------------------------
(* How a runtime whose calls do not fail ends its jobs: the two properties *)
(* of the statuses and the attempts, with what each handler knows of them  *)
(* while its claim is the newest one of its job.                           *)
StatusFits(r, status) ==
  /\ r.pc \in {"confirm", "mark"} => status = "leased"
  /\ r.pc \in {"run", "succeed"} => status = "running"
  /\ r.pc = "finish" =>
       status = IF r.outcome = "succeeded" THEN "running" ELSE "committed"
  /\ r.pc \in {"limits", "last_error", "release"} => status \in r.expected
  /\ r.pc = "record" => status = r.outcome

Newest(w) == Claimant(w) /\ worker[w].token = jobs[JobOf(w)].fencing

Tells(w) ==
  /\ Newest(w) => StatusFits(worker[w], jobs[JobOf(w)].status)
  /\ worker[w].pc = "succeed" =>
       attempts[JobOf(w)][worker[w].token] = "succeeded"
  /\ /\ worker[w].pc \in {"last_error", "release", "record"}
     /\ worker[w].outcome = "retry_scheduled"
     => worker[w].token < MaxAttempts

(* A settled job was claimed, and without a handler of its newest claim it *)
(* tells how it ended.                                                     *)
Told(j) ==
  jobs[j].status \in Settled =>
    /\ jobs[j].fencing # 0
    /\ \/ \E w \in Workers : Newest(w) /\ JobOf(w) = j
       \/ attempts[j][jobs[j].fencing] = jobs[j].status

Budgeted(j) ==
  jobs[j].status = "retry_scheduled" => jobs[j].attempt_count < MaxAttempts

AllTold == /\ \A w \in Workers : Tells(w)
           /\ \A j \in Jobs : Told(j) /\ Budgeted(j)
ToldInv == faults \in Nat /\ (faults = 0 => AllTold)

(* What a statement leaves of a row that it is not fenced for: its status  *)
(* and its numbers, or it moves a job that was not claimed, or claims it.  *)
Steady(j) ==
  \/ /\ jobs'[j].status = jobs[j].status
     /\ jobs'[j].fencing = jobs[j].fencing
     /\ jobs'[j].attempt_count = jobs[j].attempt_count
  \/ /\ jobs'[j].status \notin Settled \cup {"retry_scheduled"}
     /\ \/ jobs'[j].fencing = jobs[j].fencing + 1
        \/ /\ jobs[j].status \in {"absent", "pending"}
           /\ jobs'[j].fencing = jobs[j].fencing

LEMMA SameIsSteady ==
  ASSUME UNCHANGED jobs
  PROVE  \A j \in Jobs : Steady(j)
BY DEF Steady

LEMMA InsertIsSteady ==
  ASSUME Inv, NEW k \in Jobs, jobs[k].status = "absent",
         NEW origin, Wrote(k, NewRow("pending", origin))
  PROVE  \A j \in Jobs : Steady(j)
<1>1. jobs[k].fencing = 0
  BY DEF Inv, AttemptsWereClaimed
<1> QED
  BY <1>1 DEF Steady, Wrote, NewRow, Settled, TerminalStatuses

LEMMA MarkIsSteady ==
  ASSUME Inv, NEW k \in Jobs, MarkOutboxDispatched(k)
  PROVE  \A j \in Jobs : Steady(j)
<1>1. TypeOK
  BY DEF Inv
<1> QED
  BY <1>1, MarkEffect DEF Wrote, SameOrigin, Steady, Settled, TerminalStatuses

LEMMA ExpiryIsSteady ==
  ASSUME Inv, NEW k \in Jobs, LeaseExpires(k)
  PROVE  \A j \in Jobs : Steady(j)
<1>1. TypeOK
  BY DEF Inv
<1> QED
  BY <1>1, ExpiryEffect DEF Wrote, SameOrigin, Steady

LEMMA ClaimIsSteady ==
  ASSUME Inv, NEW k \in Jobs, ClaimJob(k)
  PROVE  (\A j \in Jobs : Steady(j)) /\ jobs'[k].status = "leased"
<1>1. TypeOK
  BY DEF Inv
<1>2. PICK row : /\ Wrote(k, row) /\ row.status = "leased"
                 /\ row.fencing = jobs[k].fencing + 1
  BY <1>1, ClaimEffect
<1> QED
  BY <1>2 DEF Wrote, Steady, Settled, TerminalStatuses

LEMMA FencedIsSteady ==
  ASSUME Inv, NEW k \in Jobs, NEW f \in 1 .. jobs[k].fencing,
         FencedStatement(k, f)
  PROVE  /\ \A j \in Jobs \ {k} : Steady(j)
         /\ Presents(k, f) /\ UNCHANGED attempts
         /\ jobs'[k].fencing = jobs[k].fencing
         /\ jobs'[k].attempt_count = jobs[k].attempt_count
<1>1. TypeOK
  BY DEF Inv
<1> QED
  BY <1>1, FencedEffect DEF Moves, Wrote, SameOrigin, Steady

-----------------------------------------------------------------------------
(* What a consumer that does not move knows stays true.                    *)
LEMMA OthersTell ==
  ASSUME QInv, NEW v \in Workers, Tells(v),
         Claimant(v)' => Claimant(v),
         Claimant(v) => worker'[v] = worker[v] /\ JobOf(v)' = JobOf(v),
         Claimant(v) =>
           /\ attempts'[JobOf(v)][worker[v].token] =
                attempts[JobOf(v)][worker[v].token]
           /\ \/ Steady(JobOf(v))
              \/ /\ worker[v].token # jobs[JobOf(v)].fencing
                 /\ jobs'[JobOf(v)].fencing = jobs[JobOf(v)].fencing
  PROVE  /\ Tells(v)'
         /\ Newest(v)' => Newest(v) /\ Steady(JobOf(v))
<1>1. CASE ~Claimant(v)
  BY <1>1 DEF Tells, Newest, Claimant
<1>2. CASE Claimant(v)
  <2>1. /\ JobOf(v) \in Jobs /\ Fits(worker[v])
        /\ worker[v].token \in 1 .. jobs[JobOf(v)].fencing
        /\ jobs[JobOf(v)].fencing \in Nat
    BY <1>2, RunnersJob, RowNumbers DEF QInv, Holds, Busy, Claimant, Inv
  <2>2. Newest(v)' => Newest(v) /\ Steady(JobOf(v))
    BY <1>2, <2>1 DEF Newest, Steady, Claimant
  <2>3. ASSUME Newest(v)'
        PROVE  StatusFits(worker[v], jobs'[JobOf(v)].status)
    <3>1. Newest(v) /\ Steady(JobOf(v))
      BY <2>2, <2>3
    <3>2. StatusFits(worker[v], jobs[JobOf(v)].status)
      BY <3>1 DEF Tells
    <3>3. jobs'[JobOf(v)].fencing = jobs[JobOf(v)].fencing
      BY <1>2, <2>3, <3>1 DEF Newest
    <3>4. jobs[JobOf(v)].status \notin {"absent", "pending"}
      BY <1>2, <2>1, <3>2, AttemptOutcomes
         DEF StatusFits, Fits, Claimant, QInv, RuntimeTyped, WorkerType, Steps
    <3>5. jobs'[JobOf(v)].status = jobs[JobOf(v)].status
      BY <2>1, <3>1, <3>3, <3>4 DEF Steady
    <3> QED
      BY <3>2, <3>5
  <2>4. Tells(v)'
    BY <1>2, <2>3 DEF Tells, Claimant
  <2> QED
    BY <2>2, <2>4
<1> QED
  BY <1>1, <1>2

LEMMA SteadyBudget ==
  ASSUME NEW j \in Jobs, Steady(j), Budgeted(j)
  PROVE  Budgeted(j)'
BY DEF Steady, Budgeted

(* A settled job goes on to tell how it ended when nobody touches its row  *)
(* or the attempt of its newest claim.                                     *)
LEMMA SteadyTold ==
  ASSUME NEW j \in Jobs, Steady(j), Told(j),
         attempts'[j][jobs[j].fencing] = attempts[j][jobs[j].fencing],
         \A v \in Workers : Newest(v) /\ JobOf(v) = j
                              /\ jobs'[j].fencing = jobs[j].fencing
                            => Newest(v)' /\ JobOf(v)' = j
  PROVE  Told(j)'
<1> SUFFICES ASSUME jobs'[j].status \in Settled
             PROVE  /\ jobs'[j].fencing # 0
                    /\ \/ \E w \in Workers : Newest(w)' /\ JobOf(w)' = j
                       \/ attempts'[j][jobs'[j].fencing] = jobs'[j].status
  BY DEF Told
<1>1. jobs'[j].status = jobs[j].status /\ jobs'[j].fencing = jobs[j].fencing
  BY DEF Steady
<1> QED
  BY <1>1 DEF Told

(* The others of a consumer that takes a step keep their claims.           *)
LEMMA OthersStay ==
  ASSUME QInv, NEW w \in Workers, Busy(w),
         \/ \E next : Continue(w, next)
         \/ \E message : Finish(w, message)
  PROVE  \A v \in Workers \ {w} :
           /\ worker'[v] = worker[v]
           /\ Busy(v) => JobOf(v)' = JobOf(v)
<1> SUFFICES ASSUME NEW v \in Workers \ {w}
             PROVE  /\ worker'[v] = worker[v]
                    /\ Busy(v) => JobOf(v)' = JobOf(v)
  OBVIOUS
<1>1. CASE \E next : Continue(w, next)
  BY <1>1 DEF Continue, JobOf, QInv, RuntimeTyped
<1>2. CASE \E message : Finish(w, message)
  <2>1. worker'[v] = worker[v]
    BY <1>2 DEF Finish, QInv, RuntimeTyped
  <2>2. ASSUME Busy(v) PROVE messages'[worker[v].slot] = messages[worker[v].slot]
    <3>1. worker[v].slot \in Slots /\ worker[v].slot # worker[w].slot
      BY <2>2 DEF QInv, Holds, Apart
    <3> QED
      BY <1>2, <3>1 DEF Finish, QInv, RuntimeTyped
  <2> QED
    BY <2>1, <2>2 DEF JobOf
<1> QED
  BY <1>1, <1>2

(* What a step of the consumer w changes is the row and the attempt of its *)
(* own claim, so that it has to be looked at for this claim only.          *)
LEMMA StepTells ==
  ASSUME QInv, AllTold, NEW w \in Workers, Busy(w),
         \/ \E next : Continue(w, next)
         \/ \E message : Finish(w, message),
         \A j \in Jobs \ {JobOf(w)} : Steady(j),
         \/ Steady(JobOf(w))
         \/ /\ Newest(w)
            /\ jobs'[JobOf(w)].fencing = jobs[JobOf(w)].fencing,
         \A j \in Jobs : \A n \in 1 .. jobs[j].fencing :
           attempts'[j][n] # attempts[j][n] =>
             Claimant(w) /\ j = JobOf(w) /\ n = worker[w].token,
         Claimant(w)' /\ Claimant(w) =>
           JobOf(w)' = JobOf(w) /\ worker'[w].token = worker[w].token,
         Newest(w) /\ ~Claimant(w)' /\ jobs'[JobOf(w)].status \in Settled =>
           attempts'[JobOf(w)][worker[w].token] = jobs'[JobOf(w)].status,
         jobs'[JobOf(w)].status = "retry_scheduled" =>
           jobs'[JobOf(w)].attempt_count < MaxAttempts,
         Tells(w)'
  PROVE  AllTold'
<1> DEFINE k == JobOf(w)
           f == worker[w].token
<1>0. /\ k \in Jobs /\ Inv
      /\ \A j \in Jobs : jobs[j].fencing \in Nat
      /\ \A v \in Workers \ {w} :
           /\ worker'[v] = worker[v]
           /\ Claimant(v)' <=> Claimant(v)
           /\ Claimant(v) => JobOf(v)' = JobOf(v) /\ Busy(v)
  BY RunnersJob, OthersStay, RowNumbers DEF QInv, Inv, Claimant, Busy
<1>1. ASSUME NEW v \in Workers \ {w} PROVE Tells(v)'
  <2> SUFFICES ASSUME Claimant(v)
               PROVE  /\ attempts'[JobOf(v)][worker[v].token] =
                           attempts[JobOf(v)][worker[v].token]
                      /\ \/ Steady(JobOf(v))
                         \/ /\ worker[v].token # jobs[JobOf(v)].fencing
                            /\ jobs'[JobOf(v)].fencing = jobs[JobOf(v)].fencing
    <3>1. Tells(v)
      BY DEF AllTold
    <3> QED
      BY <1>0, <3>1, OthersTell
  <2>1. /\ JobOf(v) \in Jobs /\ worker[v].token \in 1 .. jobs[JobOf(v)].fencing
        /\ Busy(v)
    BY <1>0 DEF QInv, Holds
  <2>2. Claimant(w) /\ JobOf(v) = k => worker[v].token # f
    BY <2>1 DEF QInv, Apart
  <2> QED
    BY <2>1, <2>2 DEF Newest
<1>2. ASSUME NEW j \in Jobs PROVE Told(j)'
  <2>s. \A v \in Workers \ {w} : Newest(v) /\ JobOf(v) = j
                                  /\ jobs'[j].fencing = jobs[j].fencing
                                => Newest(v)' /\ JobOf(v)' = j
    BY <1>0 DEF Newest
  <2> SUFFICES ASSUME jobs'[j].status \in Settled
               PROVE  /\ jobs'[j].fencing # 0
                      /\ \/ \E v \in Workers : Newest(v)' /\ JobOf(v)' = j
                         \/ attempts'[j][jobs'[j].fencing] = jobs'[j].status
    BY DEF Told
  <2>1. CASE j = k /\ Newest(w) /\ jobs'[k].fencing = jobs[k].fencing
    <3>1. f = jobs[k].fencing /\ f # 0
      BY <2>1 DEF Newest, QInv, Holds
    <3>2. CASE Claimant(w)'
      BY <2>1, <3>1, <3>2 DEF Newest
    <3>3. CASE ~Claimant(w)'
      BY <2>1, <3>1, <3>3
    <3> QED
      BY <3>2, <3>3
  <2>2. CASE ~(j = k /\ Newest(w) /\ jobs'[k].fencing = jobs[k].fencing)
    <3>1. Steady(j)
      BY <2>2
    <3>2. jobs'[j].status = jobs[j].status /\ jobs'[j].fencing = jobs[j].fencing
      BY <3>1 DEF Steady
    <3>3. Told(j) /\ jobs[j].fencing \in 1 .. jobs[j].fencing
      BY <1>0, <3>2 DEF AllTold, Told
    <3>4. attempts'[j][jobs[j].fencing] = attempts[j][jobs[j].fencing]
      BY <2>2, <3>2, <3>3 DEF Newest
    <3>5. ~(Newest(w) /\ JobOf(w) = j)
      BY <2>2, <3>2
    <3> QED
      BY <2>s, <3>2, <3>3, <3>4, <3>5 DEF Told
  <2> QED
    BY <2>1, <2>2
<1>3. ASSUME NEW j \in Jobs PROVE Budgeted(j)'
  <2>1. CASE j = k
    BY <2>1 DEF Budgeted
  <2>2. CASE j # k
    BY <2>2, SteadyBudget DEF AllTold
  <2> QED
    BY <2>1, <2>2
<1> QED
  BY <1>1, <1>2, <1>3 DEF AllTold

(* What the statement of a claim changes.                                  *)
OwnEffect(w) ==
  /\ \A j \in Jobs \ {JobOf(w)} : Steady(j)
  /\ Steady(JobOf(w)) \/ Newest(w)
  /\ jobs'[JobOf(w)].fencing = jobs[JobOf(w)].fencing
  /\ jobs'[JobOf(w)].attempt_count = jobs[JobOf(w)].attempt_count
  /\ \A j \in Jobs : \A n \in 1 .. jobs[j].fencing :
       attempts'[j][n] # attempts[j][n] =>
         Claimant(w) /\ j = JobOf(w) /\ n = worker[w].token

LEMMA FencedOwn ==
  ASSUME QInv, NEW w \in Workers, Claimant(w),
         FencedStatement(JobOf(w), worker[w].token)
  PROVE  OwnEffect(w) /\ Newest(w) /\ UNCHANGED attempts
<1>1. /\ JobOf(w) \in Jobs /\ Inv
      /\ worker[w].token \in 1 .. jobs[JobOf(w)].fencing
  BY RunnersJob DEF QInv, Holds, Busy, Claimant
<1> QED
  BY <1>1, FencedIsSteady DEF OwnEffect, Newest, Presents

LEMMA SameOwn ==
  ASSUME UNCHANGED <<jobs, attempts>>, NEW w
  PROVE  OwnEffect(w)
BY SameIsSteady DEF OwnEffect, Steady

LEMMA RecordOwn ==
  ASSUME QInv, NEW w \in Workers, Claimant(w), NEW outcome,
         RecordJobAttempt(JobOf(w), worker[w].token, outcome)
  PROVE  /\ OwnEffect(w) /\ UNCHANGED jobs
         /\ attempts'[JobOf(w)][worker[w].token] = outcome
<1>1. /\ JobOf(w) \in Jobs /\ TypeOK
      /\ worker[w].token \in 1 .. jobs[JobOf(w)].fencing
  BY RunnersJob DEF QInv, Holds, Busy, Claimant, Inv
<1>2. worker[w].token \in 1 .. MaxClaims
  BY <1>1, MaxClaimsAssumption DEF TypeOK, JobRow
<1>3. /\ UNCHANGED jobs
      /\ attempts' = [attempts EXCEPT ![JobOf(w)][worker[w].token] = outcome]
  BY DEF RecordJobAttempt
<1>4. attempts'[JobOf(w)][worker[w].token] = outcome
  BY <1>1, <1>2, <1>3 DEF TypeOK
<1>5. \A j \in Jobs : \A n \in 1 .. jobs[j].fencing :
        attempts'[j][n] # attempts[j][n] =>
          j = JobOf(w) /\ n = worker[w].token
  BY <1>1, <1>2, <1>3 DEF TypeOK
<1> QED
  BY <1>3, <1>4, <1>5, SameIsSteady DEF OwnEffect, Steady

(* The claimant goes on.                                                   *)
LEMMA GoingOnTells ==
  ASSUME QInv, AllTold, NEW w \in Workers, Claimant(w), OwnEffect(w),
         NEW next, Continue(w, next),
         next.pc \notin {"idle", "claim"},
         next.slot = worker[w].slot, next.token = worker[w].token,
         Newest(w) => StatusFits(next, jobs'[JobOf(w)].status),
         next.pc = "succeed" =>
           attempts'[JobOf(w)][worker[w].token] = "succeeded",
         /\ next.pc \in {"last_error", "release", "record"}
         /\ next.outcome = "retry_scheduled"
         => worker[w].token < MaxAttempts,
         jobs'[JobOf(w)].status = "retry_scheduled" =>
           jobs'[JobOf(w)].attempt_count < MaxAttempts
  PROVE  AllTold'
<1>1. worker'[w] = next /\ Busy(w)
  BY DEF Continue, QInv, RuntimeTyped, Busy, Claimant
<1>2. JobOf(w)' = JobOf(w)
  BY <1>1 DEF Continue, JobOf
<1>3. Claimant(w)' /\ worker'[w].token = worker[w].token
  BY <1>1 DEF Claimant
<1>4. Newest(w)' => Newest(w)
  BY <1>1, <1>2 DEF Newest, OwnEffect
<1>5. Tells(w)'
  BY <1>1, <1>2, <1>4 DEF Tells
<1> QED
  BY <1>1, <1>2, <1>3, <1>5, StepTells DEF OwnEffect

(* The claimant is done, and its attempt says what became of the job.      *)
LEMMA LeavingTells ==
  ASSUME QInv, AllTold, NEW w \in Workers, Busy(w), OwnEffect(w),
         Ack(w) \/ Retry(w),
         Newest(w) /\ jobs'[JobOf(w)].status \in Settled =>
           attempts'[JobOf(w)][worker[w].token] = jobs'[JobOf(w)].status,
         jobs'[JobOf(w)].status = "retry_scheduled" =>
           jobs'[JobOf(w)].attempt_count < MaxAttempts
  PROVE  AllTold'
<1>1. worker'[w] = Idle
  BY DEF Ack, Retry, Finish, QInv, RuntimeTyped
<1>2. ~Claimant(w)' /\ Tells(w)'
  BY <1>1 DEF Claimant, Newest, Tells, Idle
<1>3. \E message : Finish(w, message)
  BY DEF Ack, Retry
<1> QED
  BY <1>2, <1>3, StepTells DEF OwnEffect

LEMMA ClaimTells ==
  ASSUME QInv, AllTold, faults \in Nat, faults' = 0,
         NEW w \in Workers, Claim(w)
  PROVE  AllTold'
<1> DEFINE j == JobOf(w)
           next == [worker[w] EXCEPT !.pc = "confirm",
                                     !.token = jobs[j].fencing + 1]
<1>1. Busy(w) /\ ~Claimant(w) /\ j \in Jobs /\ Inv /\ ~Newest(w)
  BY RunnersJob DEF Claim, At, Busy, Claimant, Newest, QInv
<1>2. \/ ClaimJob(j) /\ Continue(w, next)
      \/ UNCHANGED storeVars /\ Ack(w)
  BY DEF Claim, Call
<1>3. CASE ClaimJob(j) /\ Continue(w, next)
  <2>1. (\A i \in Jobs : Steady(i)) /\ jobs'[j].status = "leased"
    BY <1>1, <1>3, ClaimIsSteady
  <2>2. UNCHANGED attempts
    BY <1>3 DEF ClaimJob
  <2>3. worker'[w].pc = "confirm" /\ JobOf(w)' = j
    BY <1>3 DEF Continue, QInv, RuntimeTyped, WorkerType, JobOf
  <2>4. Tells(w)'
    BY <2>1, <2>3 DEF Tells, StatusFits
  <2> HIDE DEF next
  <2> QED
    BY <1>1, <1>3, <2>1, <2>2, <2>4, StepTells
<1>4. CASE UNCHANGED storeVars /\ Ack(w)
  <2>1. OwnEffect(w) /\ UNCHANGED jobs
    BY <1>4, SameOwn DEF storeVars
  <2> QED
    BY <1>1, <1>4, <2>1, LeavingTells DEF AllTold, Budgeted
<1> QED
  BY <1>2, <1>3, <1>4

(* A handler that fails goes on to settle its job, as it is now.           *)
LEMMA FailingTells ==
  ASSUME QInv, AllTold, NEW w \in Workers, Claimant(w), NEW error,
         NEW expected, SettleFailure(w, expected, error), UNCHANGED storeVars,
         Newest(w) => jobs[JobOf(w)].status \in expected
  PROVE  AllTold'
<1> DEFINE next == [worker[w] EXCEPT !.pc = "limits", !.expected = expected,
                                     !.retryable = Retryable(error)]
<1>1. OwnEffect(w) /\ UNCHANGED jobs /\ JobOf(w) \in Jobs
  BY SameOwn, RunnersJob DEF storeVars, Busy, Claimant
<1>2. /\ next.pc = "limits" /\ next.expected = expected
      /\ next.slot = worker[w].slot /\ next.token = worker[w].token
  BY DEF QInv, RuntimeTyped, WorkerType
<1>3. Continue(w, next)
  BY DEF SettleFailure
<1> HIDE DEF next
<1>4. Newest(w) => StatusFits(next, jobs'[JobOf(w)].status)
  BY <1>1, <1>2 DEF StatusFits
<1>5. jobs'[JobOf(w)].status = "retry_scheduled" =>
        jobs'[JobOf(w)].attempt_count < MaxAttempts
  BY <1>1 DEF AllTold, Budgeted
<1> QED
  BY <1>1, <1>2, <1>3, <1>4, <1>5, GoingOnTells

LEMMA ConfirmTells ==
  ASSUME QInv, AllTold, faults \in Nat, faults' = 0,
         NEW w \in Workers, ConfirmOutbox(w)
  PROVE  AllTold'
<1> DEFINE next == [worker[w] EXCEPT !.pc = "mark"]
           j == JobOf(w)
<1>1. Claimant(w) /\ worker[w].pc = "confirm" /\ j \in Jobs
  BY RunnersJob DEF ConfirmOutbox, At, Claimant, Busy
<1>2. \/ ConfirmOutboxClaim(j, worker[w].token) /\ Continue(w, next)
      \/ UNCHANGED storeVars /\ SettleFailure(w, {"leased"}, D1Error)
  BY DEF ConfirmOutbox, Call
<1>3. Newest(w) => jobs[j].status = "leased"
  BY <1>1 DEF AllTold, Tells, StatusFits
<1>4. CASE ConfirmOutboxClaim(j, worker[w].token) /\ Continue(w, next)
  <2>1. UNCHANGED <<jobs, attempts>>
    BY <1>4 DEF ConfirmOutboxClaim
  <2>2. /\ next.pc = "mark"
        /\ next.slot = worker[w].slot /\ next.token = worker[w].token
    BY DEF QInv, RuntimeTyped, WorkerType
  <2> HIDE DEF next
  <2>3. Newest(w) => StatusFits(next, jobs'[j].status)
    BY <1>3, <2>1, <2>2 DEF StatusFits
  <2>4. jobs'[j].status = "retry_scheduled" =>
          jobs'[j].attempt_count < MaxAttempts
    BY <1>1, <2>1 DEF AllTold, Budgeted
  <2> QED
    BY <1>1, <1>4, <2>1, <2>2, <2>3, <2>4, SameOwn, GoingOnTells
<1>5. CASE UNCHANGED storeVars /\ SettleFailure(w, {"leased"}, D1Error)
  BY <1>1, <1>3, <1>5, FailingTells
<1> QED
  BY <1>2, <1>4, <1>5

LEMMA MarkTells ==
  ASSUME QInv, AllTold, faults \in Nat, faults' = 0,
         NEW w \in Workers, MarkRunning(w)
  PROVE  AllTold'
<1> DEFINE next == [worker[w] EXCEPT !.pc = "run"]
           j == JobOf(w)
           f == worker[w].token
<1>1. Claimant(w) /\ worker[w].pc = "mark" /\ j \in Jobs
  BY RunnersJob DEF MarkRunning, At, Claimant, Busy
<1>2. \/ TransitionClaimedJob(j, "leased", "running", f) /\ Continue(w, next)
      \/ UNCHANGED storeVars /\ SettleFailure(w, {"leased"}, D1Error)
  BY DEF MarkRunning, Call
<1>3. CASE TransitionClaimedJob(j, "leased", "running", f) /\ Continue(w, next)
  <2>1. OwnEffect(w)
    BY <1>1, <1>3, FencedOwn DEF FencedStatement
  <2>2. jobs'[j].status = "running"
    <3>1. jobs \in [Jobs -> JobRow]
      BY DEF QInv, Inv, TypeOK
    <3>2. jobs' = [jobs EXCEPT ![j] = [jobs[j] EXCEPT !.status = "running"]]
      BY <1>3 DEF TransitionClaimedJob, ReleasesLease, TerminalStatuses
    <3> QED
      BY <1>1, <3>1, <3>2 DEF JobRow
  <2>3. /\ next.pc = "run"
        /\ next.slot = worker[w].slot /\ next.token = worker[w].token
    BY DEF QInv, RuntimeTyped, WorkerType
  <2> HIDE DEF next
  <2>4. StatusFits(next, jobs'[j].status)
    BY <2>2, <2>3 DEF StatusFits
  <2> QED
    BY <1>1, <1>3, <2>1, <2>2, <2>3, <2>4, GoingOnTells
<1>4. CASE UNCHANGED storeVars /\ SettleFailure(w, {"leased"}, D1Error)
  <2>1. Newest(w) => jobs[j].status = "leased"
    BY <1>1 DEF AllTold, Tells, StatusFits
  <2> QED
    BY <1>1, <1>4, <2>1, FailingTells
<1> QED
  BY <1>2, <1>3, <1>4

(* A row that is given back has the status it is given back with.          *)
LEMMA BackWithStatus ==
  ASSUME QInv, NEW k \in Jobs, NEW status,
         jobs' = [jobs EXCEPT ![k] = GivenBack(k, status)]
  PROVE  jobs'[k].status = status
<1>1. jobs[k] \in JobRow /\ jobs \in [Jobs -> JobRow]
  BY DEF QInv, Inv, TypeOK
<1> QED
  BY <1>1 DEF GivenBack, JobRow

LEMMA RunTells ==
  ASSUME QInv, AllTold, faults \in Nat, faults' = 0,
         NEW w \in Workers, RunShadow(w)
  PROVE  AllTold'
<1> DEFINE j == JobOf(w)
           f == worker[w].token
           Ran(outcome) == [worker[w] EXCEPT !.pc = "finish",
                                             !.outcome = outcome]
<1>1. /\ Claimant(w) /\ worker[w].pc = "run" /\ j \in Jobs
      /\ jobs[j].status = "running"
  BY RunnersJob DEF RunShadow, At, Claimant, Busy, QInv, Holds, Runs
<1>2. \/ UNCHANGED storeVars /\ Continue(w, Ran("succeeded"))
      \/ CommitImportedJob(j, f) /\ Continue(w, Ran("committed"))
      \/ \E error : /\ SettleFailure(w, {"running", "leased"}, error)
                    /\ UNCHANGED storeVars
  BY DEF RunShadow, Call
<1>3. ASSUME NEW outcome, Continue(w, Ran(outcome)), OwnEffect(w),
             jobs'[j].status = IF outcome = "succeeded" THEN "running"
                               ELSE "committed"
      PROVE  AllTold'
  <2> DEFINE next == Ran(outcome)
  <2>1. /\ next.pc = "finish" /\ next.outcome = outcome
        /\ next.slot = worker[w].slot /\ next.token = worker[w].token
    BY DEF QInv, RuntimeTyped, WorkerType
  <2>2. Continue(w, next)
    BY <1>3
  <2> HIDE DEF next, Ran
  <2>3. StatusFits(next, jobs'[j].status)
    BY <1>3, <2>1 DEF StatusFits
  <2> QED
    BY <1>1, <1>3, <2>1, <2>2, <2>3, GoingOnTells
<1>4. CASE UNCHANGED storeVars /\ Continue(w, Ran("succeeded"))
  <2>1. OwnEffect(w) /\ jobs'[j].status = "running"
    BY <1>1, <1>4, SameOwn DEF storeVars
  <2> HIDE DEF Ran
  <2> QED
    BY <1>3, <1>4, <2>1
<1>5. CASE CommitImportedJob(j, f) /\ Continue(w, Ran("committed"))
  <2>1. OwnEffect(w)
    BY <1>1, <1>5, FencedOwn DEF FencedStatement
  <2>2. jobs'[j].status = "committed"
    BY <1>1, <1>5, BackWithStatus DEF CommitImportedJob
  <2> HIDE DEF Ran
  <2> QED
    BY <1>3, <1>5, <2>1, <2>2
<1>6. ASSUME NEW error, SettleFailure(w, {"running", "leased"}, error),
             UNCHANGED storeVars
      PROVE  AllTold'
  BY <1>1, <1>6, FailingTells
<1> HIDE DEF Ran
<1> QED
  BY <1>2, <1>4, <1>5, <1>6

LEMMA FinishTells ==
  ASSUME QInv, AllTold, faults \in Nat, faults' = 0,
         NEW w \in Workers, FinishAttempt(w)
  PROVE  AllTold'
<1> DEFINE j == JobOf(w)
           next == [worker[w] EXCEPT !.pc = "succeed"]
<1>1. /\ Claimant(w) /\ Busy(w) /\ worker[w].pc = "finish" /\ j \in Jobs
  BY RunnersJob DEF FinishAttempt, At, Claimant, Busy
<1>2. /\ RecordJobAttempt(j, worker[w].token, worker[w].outcome)
      /\ \/ worker[w].outcome = "succeeded" /\ Continue(w, next)
         \/ worker[w].outcome = "committed" /\ Ack(w)
  BY DEF FinishAttempt, Call
<1>3. /\ OwnEffect(w) /\ UNCHANGED jobs
      /\ attempts'[j][worker[w].token] = worker[w].outcome
  BY <1>1, <1>2, RecordOwn
<1>4. jobs'[j].status = "retry_scheduled" =>
        jobs'[j].attempt_count < MaxAttempts
  BY <1>1, <1>3 DEF AllTold, Budgeted
<1>5. Newest(w) => jobs'[j].status = IF worker[w].outcome = "succeeded"
                                     THEN "running" ELSE "committed"
  BY <1>1, <1>3 DEF AllTold, Tells, StatusFits
<1>6. CASE worker[w].outcome = "succeeded" /\ Continue(w, next)
  <2>1. /\ next.pc = "succeed"
        /\ next.slot = worker[w].slot /\ next.token = worker[w].token
    BY DEF QInv, RuntimeTyped, WorkerType
  <2> HIDE DEF next
  <2>2. Newest(w) => StatusFits(next, jobs'[j].status)
    BY <1>5, <1>6, <2>1 DEF StatusFits
  <2> QED
    BY <1>1, <1>3, <1>4, <1>6, <2>1, <2>2, GoingOnTells
<1>7. CASE worker[w].outcome = "committed" /\ Ack(w)
  BY <1>1, <1>3, <1>4, <1>5, <1>7, LeavingTells
<1> QED
  BY <1>2, <1>6, <1>7

(* The last transition of a claim that is still the newest one succeeds.   *)
LEMMA SucceedTells ==
  ASSUME QInv, AllTold, faults \in Nat, faults' = 0,
         NEW w \in Workers, Succeed(w)
  PROVE  AllTold'
<1> DEFINE j == JobOf(w)
           f == worker[w].token
<1>1. /\ Claimant(w) /\ Busy(w) /\ worker[w].pc = "succeed" /\ j \in Jobs
      /\ attempts[j][f] = "succeeded"
  BY RunnersJob DEF Succeed, At, Claimant, Busy, AllTold, Tells
<1>2. /\ Ack(w)
      /\ \/ TransitionClaimedJob(j, "running", "succeeded", f)
         \/ /\ ~TransitionMatches(j, "running", "succeeded", f)
            /\ UNCHANGED storeVars
  BY DEF Succeed, Call
<1>3. CASE TransitionClaimedJob(j, "running", "succeeded", f)
  <2>1. OwnEffect(w) /\ UNCHANGED attempts
    BY <1>1, <1>3, FencedOwn DEF FencedStatement
  <2>2. jobs'[j].status = "succeeded"
    BY <1>1, <1>3, BackWithStatus
       DEF TransitionClaimedJob, ReleasesLease, TerminalStatuses
  <2> QED
    BY <1>1, <1>2, <2>1, <2>2, LeavingTells
<1>4. CASE /\ ~TransitionMatches(j, "running", "succeeded", f)
           /\ UNCHANGED storeVars
  <2>1. OwnEffect(w) /\ UNCHANGED jobs
    BY <1>4, SameOwn DEF storeVars
  <2>2. CanTransition("running", "succeeded")
    BY DEF CanTransition, AllowedTransitions, TerminalStatuses, JobStatus
  <2>3. jobs[j].status = "running" /\ jobs[j].lease = f
    BY <1>1 DEF QInv, Holds, Runs, Fits
  <2>4. ~Newest(w)
    BY <1>4, <2>2, <2>3 DEF TransitionMatches, Presents, Newest
  <2>5. jobs'[j].status = "retry_scheduled" =>
          jobs'[j].attempt_count < MaxAttempts
    BY <1>1, <2>1 DEF AllTold, Budgeted
  <2> QED
    BY <1>1, <1>2, <2>1, <2>4, <2>5, LeavingTells
<1> QED
  BY <1>2, <1>3, <1>4

(* attempt_count counts the claims, so that a claim that is retried leaves *)
(* an attempt, however long ago it was made.                               *)
LEMMA LimitsTells ==
  ASSUME QInv, AllTold, faults \in Nat, faults' = 0,
         NEW w \in Workers, LoadLimits(w)
  PROVE  AllTold'
<1> DEFINE j == JobOf(w)
           To(outcome) == [worker[w] EXCEPT !.pc = "last_error",
                                            !.outcome = outcome]
<1>1. /\ Claimant(w) /\ Busy(w) /\ worker[w].pc = "limits" /\ j \in Jobs
      /\ UNCHANGED storeVars
  BY RunnersJob DEF LoadLimits, At, Claimant, Busy
<1>2. PICK outcome \in {"retry_scheduled", "dead_lettered"} :
        /\ Continue(w, To(outcome))
        /\ outcome = "retry_scheduled" =>
             ~(jobs[j].attempt_count >= MaxAttempts)
  <2> DEFINE retry == /\ worker[w].retryable
                      /\ ~(jobs[j].attempt_count >= MaxAttempts)
             outcome == IF retry THEN "retry_scheduled" ELSE "dead_lettered"
  <2>1. faults' # faults + 1
    OBVIOUS
  <2>2. Continue(w, To(outcome))
    BY <2>1, Zenon DEF LoadLimits
  <2>3. /\ outcome \in {"retry_scheduled", "dead_lettered"}
        /\ outcome = "retry_scheduled" =>
             ~(jobs[j].attempt_count >= MaxAttempts)
    OBVIOUS
  <2> HIDE DEF outcome, To
  <2> QED
    BY <2>2, <2>3
<1> DEFINE next == To(outcome)
<1>3. /\ next.pc = "last_error" /\ next.outcome = outcome
      /\ next.slot = worker[w].slot /\ next.token = worker[w].token
      /\ next.expected = worker[w].expected
  BY DEF QInv, RuntimeTyped, WorkerType
<1>4. Continue(w, next)
  BY <1>2
<1> HIDE DEF next, To
<1>5. OwnEffect(w) /\ UNCHANGED jobs
  BY <1>1, SameOwn DEF storeVars
<1>6. /\ worker[w].token \in 1 .. jobs[j].fencing
      /\ jobs[j].attempt_count = jobs[j].fencing /\ jobs[j].fencing \in Nat
  BY <1>1, RowNumbers DEF QInv, Holds, Inv, AttemptsWereClaimed
<1>7. outcome = "retry_scheduled" => worker[w].token < MaxAttempts
  BY <1>2, <1>6, LimitsAssumption
<1>8. Newest(w) => StatusFits(next, jobs'[j].status)
  BY <1>1, <1>3, <1>5 DEF AllTold, Tells, StatusFits
<1>9. jobs'[j].status = "retry_scheduled" =>
        jobs'[j].attempt_count < MaxAttempts
  BY <1>1, <1>5 DEF AllTold, Budgeted
<1> QED
  BY <1>1, <1>3, <1>4, <1>5, <1>7, <1>8, <1>9, GoingOnTells

LEMMA LastErrorTells ==
  ASSUME QInv, AllTold, faults \in Nat, faults' = 0,
         NEW w \in Workers, UpdateLastError(w)
  PROVE  AllTold'
<1> DEFINE j == JobOf(w)
           next == [worker[w] EXCEPT !.pc = "release"]
<1>1. /\ Claimant(w) /\ Busy(w) /\ worker[w].pc = "last_error" /\ j \in Jobs
  BY RunnersJob DEF UpdateLastError, At, Claimant, Busy
<1>2. UNCHANGED <<jobs, attempts>> /\ Continue(w, next)
  BY DEF UpdateLastError, Call, UpdateJobLastError
<1>3. /\ next.pc = "release" /\ next.outcome = worker[w].outcome
      /\ next.slot = worker[w].slot /\ next.token = worker[w].token
      /\ next.expected = worker[w].expected
  BY DEF QInv, RuntimeTyped, WorkerType
<1> HIDE DEF next
<1>4. OwnEffect(w)
  BY <1>2, SameOwn
<1>5. Newest(w) => StatusFits(next, jobs'[j].status)
  BY <1>1, <1>2, <1>3 DEF AllTold, Tells, StatusFits
<1>6. worker[w].outcome = "retry_scheduled" => worker[w].token < MaxAttempts
  BY <1>1 DEF AllTold, Tells
<1>7. jobs'[j].status = "retry_scheduled" =>
        jobs'[j].attempt_count < MaxAttempts
  BY <1>1, <1>2 DEF AllTold, Budgeted
<1> QED
  BY <1>1, <1>2, <1>3, <1>4, <1>5, <1>6, <1>7, GoingOnTells

(* A claim that is still the newest one gives its job up when it asks to.  *)
LEMMA ReleaseTells ==
  ASSUME QInv, AllTold, faults \in Nat, faults' = 0,
         NEW w \in Workers, ReleaseOutcome(w)
  PROVE  AllTold'
<1> DEFINE j == JobOf(w)
           f == worker[w].token
           exp == worker[w].expected
           to == worker[w].outcome
           To(b) == [worker[w] EXCEPT !.pc = "record", !.released = b]
<1>1. /\ Claimant(w) /\ Busy(w) /\ worker[w].pc = "release" /\ j \in Jobs
      /\ exp \in {{"leased"}, {"running", "leased"}}
      /\ to \in {"retry_scheduled", "dead_lettered"}
      /\ to = "retry_scheduled" => f < MaxAttempts
  BY RunnersJob
     DEF ReleaseOutcome, At, Claimant, Busy, QInv, Holds, Fits, AllTold, Tells
<1>2. \/ ReleaseClaimedJobOutcome(j, exp, to, f) /\ Continue(w, To(TRUE))
      \/ /\ ~ReleaseMatches(j, exp, to, f) /\ UNCHANGED storeVars
         /\ Continue(w, To(FALSE))
  BY DEF ReleaseOutcome, Call
<1>3. ASSUME NEW b, Continue(w, To(b)), OwnEffect(w),
             Newest(w) => jobs'[j].status = to,
             jobs'[j].status = "retry_scheduled" =>
               jobs'[j].attempt_count < MaxAttempts
      PROVE  AllTold'
  <2> DEFINE next == To(b)
  <2>1. /\ next.pc = "record" /\ next.outcome = to
        /\ next.slot = worker[w].slot /\ next.token = worker[w].token
    BY DEF QInv, RuntimeTyped, WorkerType
  <2>2. Continue(w, next)
    BY <1>3
  <2> HIDE DEF next, To
  <2>3. Newest(w) => StatusFits(next, jobs'[j].status)
    BY <1>1, <1>3, <2>1 DEF StatusFits
  <2> QED
    BY <1>1, <1>3, <2>1, <2>2, <2>3, GoingOnTells
<1>4. CASE ReleaseClaimedJobOutcome(j, exp, to, f) /\ Continue(w, To(TRUE))
  <2>1. OwnEffect(w) /\ Newest(w)
    BY <1>1, <1>4, FencedOwn DEF FencedStatement
  <2>2. jobs'[j].status = to
    BY <1>1, <1>4, BackWithStatus DEF ReleaseClaimedJobOutcome
  <2>3. jobs'[j].attempt_count = f
    BY <1>1, <2>1 DEF OwnEffect, Newest, QInv, Inv, AttemptsWereClaimed
  <2> HIDE DEF To
  <2> QED
    BY <1>1, <1>3, <1>4, <2>1, <2>2, <2>3
<1>5. CASE /\ ~ReleaseMatches(j, exp, to, f) /\ UNCHANGED storeVars
           /\ Continue(w, To(FALSE))
  <2>1. OwnEffect(w) /\ UNCHANGED jobs
    BY <1>5, SameOwn DEF storeVars
  <2>2. CanTransition("leased", to)
    BY <1>1 DEF CanTransition, AllowedTransitions, TerminalStatuses, JobStatus,
                GiveUp
  <2>3. ~Newest(w)
    <3>1. SUFFICES ASSUME Newest(w) PROVE FALSE
      OBVIOUS
    <3>2. jobs[j].status \in exp
      BY <1>1, <3>1 DEF AllTold, Tells, StatusFits
    <3>3. jobs[j].lease = f
      BY <1>1, <3>1, <3>2 DEF Newest, QInv, Inv, LeaseConsistent
    <3> QED
      BY <1>1, <1>5, <2>2, <3>1, <3>2, <3>3
         DEF ReleaseMatches, Presents, Newest
  <2>4. jobs'[j].status = "retry_scheduled" =>
          jobs'[j].attempt_count < MaxAttempts
    BY <1>1, <2>1 DEF AllTold, Budgeted
  <2> HIDE DEF To
  <2> QED
    BY <1>3, <1>5, <2>1, <2>3, <2>4
<1> HIDE DEF To
<1> QED
  BY <1>2, <1>4, <1>5

LEMMA RecordTells ==
  ASSUME QInv, AllTold, faults \in Nat, faults' = 0,
         NEW w \in Workers, RecordOutcome(w)
  PROVE  AllTold'
<1> DEFINE j == JobOf(w)
<1>1. /\ Claimant(w) /\ Busy(w) /\ worker[w].pc = "record" /\ j \in Jobs
  BY RunnersJob DEF RecordOutcome, At, Claimant, Busy
<1>2. /\ RecordJobAttempt(j, worker[w].token, worker[w].outcome)
      /\ Ack(w) \/ Retry(w)
  BY DEF RecordOutcome, Call
<1>3. /\ OwnEffect(w) /\ UNCHANGED jobs
      /\ attempts'[j][worker[w].token] = worker[w].outcome
  BY <1>1, <1>2, RecordOwn
<1>4. Newest(w) => jobs'[j].status = worker[w].outcome
  BY <1>1, <1>3 DEF AllTold, Tells, StatusFits
<1>5. jobs'[j].status = "retry_scheduled" =>
        jobs'[j].attempt_count < MaxAttempts
  BY <1>1, <1>3 DEF AllTold, Budgeted
<1> QED
  BY <1>1, <1>2, <1>3, <1>4, <1>5, LeavingTells

(* A step of somebody else, who changes no row under a claim.              *)
LEMMA ElsewhereTells ==
  ASSUME QInv, AllTold, UNCHANGED attempts, \A j \in Jobs : Steady(j),
         \A v \in Workers :
           /\ Claimant(v)' <=> Claimant(v)
           /\ Claimant(v) => worker'[v] = worker[v] /\ JobOf(v)' = JobOf(v)
  PROVE  AllTold'
<1>1. ASSUME NEW v \in Workers PROVE Tells(v)'
  <2>1. Claimant(v) => JobOf(v) \in Jobs
    BY RunnersJob DEF Claimant, Busy
  <2> QED
    BY <2>1, OthersTell DEF AllTold
<1>2. ASSUME NEW j \in Jobs PROVE Told(j)'
  <2>1. \A v \in Workers : Newest(v) /\ JobOf(v) = j
                             /\ jobs'[j].fencing = jobs[j].fencing
                           => Newest(v)' /\ JobOf(v)' = j
    BY DEF Newest
  <2>2. Told(j) /\ Steady(j)
    BY DEF AllTold
  <2> QED
    BY <2>1, <2>2, SteadyTold
<1>3. ASSUME NEW j \in Jobs PROVE Budgeted(j)'
  BY <1>3, SteadyBudget DEF AllTold
<1> QED
  BY <1>1, <1>2, <1>3 DEF AllTold

(* ... while the messages of the consumers stay where they are.            *)
LEMMA AsideTells ==
  ASSUME QInv, AllTold, UNCHANGED <<attempts, worker>>,
         \A j \in Jobs : Steady(j),
         \A m \in Slots : messages[m].place = "inflight" =>
                            messages'[m] = messages[m]
  PROVE  AllTold'
<1>1. ASSUME NEW v \in Workers, Claimant(v) PROVE JobOf(v)' = JobOf(v)
  <2>1. /\ worker[v].slot \in Slots
        /\ messages[worker[v].slot].place = "inflight"
    BY <1>1 DEF QInv, Holds, Busy, Claimant
  <2> QED
    BY <2>1 DEF JobOf
<1> QED
  BY <1>1, ElsewhereTells DEF Claimant

LEMMA DeliverTells ==
  ASSUME QInv, AllTold, NEW w \in Workers, NEW m \in Slots, Deliver(w, m)
  PROVE  AllTold'
<1>1. /\ UNCHANGED <<jobs, attempts>> /\ worker[w] = Idle
      /\ messages[m].place = "queue"
      /\ worker' = [worker EXCEPT ![w] = [worker[w] EXCEPT !.pc = "claim",
                                                           !.slot = m]]
  BY DEF Deliver, storeVars
<1>2. ~Claimant(w)
  BY <1>1 DEF Claimant, Idle
<1>3. worker'[w].pc = "claim"
  BY <1>1 DEF QInv, RuntimeTyped, WorkerType
<1>4. \A v \in Workers \ {w} : worker'[v] = worker[v]
  BY <1>1 DEF QInv, RuntimeTyped
<1>5. ASSUME NEW v \in Workers \ {w}, Claimant(v) PROVE JobOf(v)' = JobOf(v)
  <2>1. /\ worker[v].slot \in Slots
        /\ messages[worker[v].slot].place = "inflight"
    BY <1>5 DEF QInv, Holds, Busy, Claimant
  <2>2. worker[v].slot # m
    BY <1>1, <2>1
  <2> QED
    BY <1>4, <2>1, <2>2 DEF JobOf, Deliver, QInv, RuntimeTyped
<1>6. \A v \in Workers : Claimant(v)' <=> Claimant(v)
  BY <1>2, <1>3, <1>4 DEF Claimant
<1> QED
  BY <1>1, <1>2, <1>4, <1>5, <1>6, SameIsSteady, ElsewhereTells

LEMMA EnvironmentTells ==
  ASSUME QInv, AllTold, Environment
  PROVE  AllTold'
<1>1. UNCHANGED <<messages, worker>> /\ Inv
  BY DEF Environment, runtimeVars, QInv
<1>2. UNCHANGED attempts
  BY DEF Environment, GenerateShadowJob, LeaseExpires, CreateDlqReplayJob
<1>3. \A j \in Jobs : Steady(j)
  <2>1. ASSUME NEW j \in Jobs, GenerateShadowJob(j)
        PROVE  \A k \in Jobs : Steady(k)
    <3>1. jobs[j].status = "absent" /\ Wrote(j, NewRow("pending", NoJob))
      BY <1>1, <2>1, GenerateEffect DEF Inv, GenerateShadowJob
    <3> QED
      BY <1>1, <3>1, InsertIsSteady
  <2>2. ASSUME NEW j \in Jobs, NEW new \in Jobs, CreateDlqReplayJob(j, new)
        PROVE  \A k \in Jobs : Steady(k)
    <3>1. jobs[new].status = "absent" /\ Wrote(new, NewRow("pending", j))
      BY <1>1, <2>2, ReplayEffect DEF Inv, CreateDlqReplayJob
    <3> QED
      BY <1>1, <3>1, InsertIsSteady
  <2> QED
    BY <1>1, <2>1, <2>2, ExpiryIsSteady DEF Environment
<1> QED
  BY <1>1, <1>2, <1>3, AsideTells

LEMMA DispatchTells ==
  ASSUME QInv, AllTold, faults \in Nat, faults' = 0,
         \/ \E rows \in SUBSET Jobs : LoadDispatchable(rows)
         \/ DispatcherStep \/ DispatcherDies
  PROVE  AllTold'
<1>1. CASE \E rows \in SUBSET Jobs : LoadDispatchable(rows)
  BY <1>1, SameIsSteady, AsideTells DEF LoadDispatchable, storeVars
<1>2. ASSUME NEW j \in Jobs, NEW m \in Slots, Send(j, m) PROVE AllTold'
  <2>1. \A n \in Slots : messages[n].place = "inflight" =>
                           messages'[n] = messages[n]
    BY <1>2 DEF Send, QInv, RuntimeTyped
  <2> QED
    BY <1>2, <2>1, SameIsSteady, AsideTells DEF Send, storeVars
<1>3. ASSUME NEW j \in Jobs, MarkDispatched(j) PROVE AllTold'
  <2>1. UNCHANGED <<messages, worker>> /\ Inv
    BY <1>3 DEF MarkDispatched, QInv
  <2>2. MarkOutboxDispatched(j) \/ UNCHANGED storeVars
    BY <1>3 DEF MarkDispatched, Call
  <2>3. UNCHANGED attempts /\ \A k \in Jobs : Steady(k)
    BY <2>1, <2>2, MarkIsSteady, SameIsSteady
       DEF MarkOutboxDispatched, storeVars
  <2> QED
    BY <2>1, <2>3, AsideTells
<1>4. ~DispatcherDies
  BY DEF DispatcherDies
<1> QED
  BY <1>1, <1>2, <1>3, <1>4 DEF DispatcherStep

LEMMA DlqTells ==
  ASSUME QInv, AllTold, NEW m \in Slots, ConsumeDlq(m)
  PROVE  AllTold'
<1>1. UNCHANGED <<jobs, attempts, worker>>
  BY DEF ConsumeDlq, Call, RecordDlqReceipt, storeVars
<1>2. /\ messages[m].place = "dlq"
      /\ \E message : messages' = [messages EXCEPT ![m] = message]
  BY DEF ConsumeDlq
<1>3. \A n \in Slots : messages[n].place = "inflight" =>
                         messages'[n] = messages[n]
  BY <1>2 DEF QInv, RuntimeTyped
<1> QED
  BY <1>1, <1>3, SameIsSteady, AsideTells

-----------------------------------------------------------------------------
LEMMA FaultsCount ==
  ASSUME faults \in Nat, [QueueNext]_queueVars
  PROVE  faults' \in Nat /\ (faults' = 0 => faults = 0)
<1>1. faults' \in {faults, faults + 1}
  <2>1. CASE Environment
    BY <2>1 DEF Environment, runtimeVars
  <2>2. CASE \E rows \in SUBSET Jobs : LoadDispatchable(rows)
    BY <2>2 DEF LoadDispatchable
  <2>3. CASE DispatcherStep \/ DispatcherDies
    BY <2>3 DEF DispatcherStep, DispatcherDies, MarkDispatched, Send, Call
  <2>4. ASSUME NEW w \in Workers, WorkerStep(w) \/ WorkerDies(w)
        PROVE  faults' \in {faults, faults + 1}
    <3>1. CASE Claim(w) \/ ConfirmOutbox(w) \/ MarkRunning(w)
      BY <3>1 DEF Claim, ConfirmOutbox, MarkRunning, Call
    <3>2. CASE RunShadow(w) \/ FinishAttempt(w) \/ Succeed(w)
      BY <3>2 DEF RunShadow, FinishAttempt, Succeed, Call
    <3>3. CASE LoadLimits(w) \/ UpdateLastError(w) \/ ReleaseOutcome(w)
      BY <3>3 DEF LoadLimits, UpdateLastError, ReleaseOutcome, Call
    <3>4. CASE RecordOutcome(w) \/ WorkerDies(w)
      BY <3>4 DEF RecordOutcome, WorkerDies, Call
    <3> QED
      BY <2>4, <3>1, <3>2, <3>3, <3>4 DEF WorkerStep
  <2>5. CASE \E w \in Workers, m \in Slots : Deliver(w, m)
    BY <2>5 DEF Deliver
  <2>6. CASE \E m \in Slots : ConsumeDlq(m)
    BY <2>6 DEF ConsumeDlq, Call
  <2>7. CASE UNCHANGED queueVars
    BY <2>7 DEF queueVars, runtimeVars
  <2> QED
    BY <2>1, <2>2, <2>3, <2>4, <2>5, <2>6, <2>7 DEF QueueNext
<1> QED
  BY <1>1

LEMMA ToldStep ==
  ASSUME QInv, ToldInv, [QueueNext]_queueVars
  PROVE  ToldInv'
<1>1. faults \in Nat /\ faults' \in Nat /\ (faults' = 0 => faults = 0)
  BY FaultsCount DEF ToldInv
<1> SUFFICES ASSUME faults' = 0 PROVE AllTold'
  BY <1>1 DEF ToldInv
<1>2. AllTold
  BY <1>1 DEF ToldInv
<1>3. CASE Environment
  BY <1>2, <1>3, EnvironmentTells
<1>4. CASE \/ \E rows \in SUBSET Jobs : LoadDispatchable(rows)
           \/ DispatcherStep \/ DispatcherDies
  BY <1>1, <1>2, <1>4, DispatchTells
<1>5. ASSUME NEW w \in Workers, WorkerStep(w) PROVE AllTold'
  BY <1>1, <1>2, <1>5, ClaimTells, ConfirmTells, MarkTells, RunTells,
     FinishTells, SucceedTells, LimitsTells, LastErrorTells, ReleaseTells,
     RecordTells
     DEF WorkerStep
<1>6. ASSUME NEW w \in Workers PROVE ~WorkerDies(w)
  BY <1>1 DEF WorkerDies
<1>7. ASSUME NEW w \in Workers, NEW m \in Slots, Deliver(w, m)
      PROVE  AllTold'
  BY <1>2, <1>7, DeliverTells
<1>8. ASSUME NEW m \in Slots, ConsumeDlq(m) PROVE AllTold'
  BY <1>2, <1>8, DlqTells
<1>9. CASE UNCHANGED queueVars
  BY <1>2, <1>9, SameIsSteady, AsideTells
     DEF queueVars, storeVars, runtimeVars
<1> QED
  BY <1>3, <1>4, <1>5, <1>6, <1>7, <1>8, <1>9 DEF QueueNext

LEMMA ToldBegins == QueueInit => ToldInv
<1> SUFFICES ASSUME QueueInit PROVE ToldInv
  OBVIOUS
<1>1. \A w \in Workers : worker[w].pc = "idle"
  BY DEF QueueInit, Idle
<1>2. \A w \in Workers : Tells(w)
  BY <1>1 DEF Tells, Newest, Claimant
<1>3. \A j \in Jobs : jobs[j].status = "absent"
  BY DEF QueueInit, Init, NewRow
<1>4. \A j \in Jobs : Told(j) /\ Budgeted(j)
  BY <1>3 DEF Told, Budgeted, Settled, TerminalStatuses
<1> QED
  BY <1>2, <1>4 DEF ToldInv, AllTold, QueueInit

(* Without faults, what a handler knows of the job of its claim stays true *)
(* while the claim is the newest one, and a settled job tells how it ended *)
(* once that handler is gone: see ToldInv.                                 *)
THEOREM OutcomesAreKnown == QueueSpec => []ToldInv
<1>1. QInv /\ ToldInv /\ [QueueNext]_queueVars => ToldInv'
  BY ToldStep
<1> QED
  BY <1>1, ToldBegins, MemoryHolds, PTL DEF QueueSpec

(* A job waits for another attempt only while it has one left, although    *)
(* the limit is read one call before the release.                          *)
THEOREM BudgetIsKept == QueueSpec => []RetryBudget
<1>1. ToldInv => RetryBudget
  BY DEF ToldInv, AllTold, Budgeted, RetryBudget
<1> QED
  BY <1>1, OutcomesAreKnown, PTL

(* The attempt of the newest claim says how a settled job ended, as soon   *)
(* as the handler of that claim is done.                                   *)
THEOREM AttemptsTell == QueueSpec => []AttemptTellsOutcome
<1>1. \A w \in Workers : Newest(w) => worker[w] # Idle
  BY DEF Newest, Claimant, Idle
<1>2. ToldInv => AttemptTellsOutcome
  BY <1>1 DEF ToldInv, AllTold, Told, AttemptTellsOutcome, Working, Newest
<1> QED
  BY <1>2, OutcomesAreKnown, PTL
=============================================================================
