---------------------- MODULE DisposalDeclarationProofs ----------------------
(***************************************************************************)
(* What a closed task rests on, and what became of everything that was     *)
(* sent for it, for every number of tasks, requests, batches and issues.   *)
(***************************************************************************)
EXTENDS DisposalProofs

-----------------------------------------------------------------------------
(* Evidence: submissions that passed the gate together write one by one.   *)

(* A step that writes no batch decides or replaces the ones there are. *)
LEMMA BatchFrame ==
  ASSUME TypeOK, Next, \A s \in Sessions : ~WriteBatch(s),
         NEW t \in Tasks, NEW n \in BatchNumbers
  PROVE  /\ batch'[t][n].status = "absent" <=> batch[t][n].status = "absent"
         /\ batch'[t][n].status = "pending" => batch[t][n].status = "pending"
         /\ batch'[t][n].key = batch[t][n].key
<1> DEFINE Kept == /\ batch'[t][n].status = "absent" <=> batch[t][n].status = "absent"
                   /\ batch'[t][n].status = "pending" => batch[t][n].status = "pending"
                   /\ batch'[t][n].key = batch[t][n].key
<1>0. batch[t][n] \in BatchRow
  BY DEF TypeOK
<1>1. CASE UNCHANGED batch
  BY <1>1
<1>2. ASSUME NEW v \in Instructions, WithdrawInstruction(v) PROVE Kept
  <2>1. [batch[t][n] EXCEPT !.status = "superseded"].status = "superseded"
        /\ [batch[t][n] EXCEPT !.status = "superseded"].key = batch[t][n].key
    BY <1>0 DEF BatchRow
  <2> QED  BY <1>2, <2>1 DEF WithdrawInstruction
<1>3. ASSUME NEW u \in Tasks, NEW m \in BatchNumbers,
             NEW d \in {"accepted", "needs_resubmission"}, ReviewBatch(u, m, d)
      PROVE  Kept
  <2>1. CASE u = t /\ m = n
    <3>1. batch'[t][n] = [batch[t][n] EXCEPT !.status = d]
      BY <1>3, <2>1 DEF ReviewBatch, TypeOK
    <3>2. batch'[t][n].status = d /\ batch'[t][n].key = batch[t][n].key
      BY <1>0, <3>1 DEF BatchRow
    <3> QED  BY <1>3, <2>1, <3>2 DEF ReviewBatch
  <2>2. CASE ~(u = t /\ m = n)
    <3>1. batch'[t][n] = batch[t][n]
      BY <1>3, <2>2 DEF ReviewBatch, TypeOK
    <3> QED  BY <3>1
  <2> QED  BY <2>1, <2>2
<1> QED  BY <1>1, <1>2, <1>3, BatchWriters

(* What the insert of a batch does to the batches. *)
LEMMA BatchWritten ==
  ASSUME TypeOK, SessionsNameTheirTask, NEW s \in Sessions, WriteBatch(s),
         NEW t \in Tasks, t = session[s].task, NEW n, n = LatestBatch(t) + 1
  PROVE  /\ n \in BatchNumbers
         /\ batch[t][n].status = "absent"
         /\ BatchesOf(t)' = BatchesOf(t) \cup {n}
         /\ LatestBatch(t)' = n
         /\ batch'[t][n].status = "pending"
         /\ batch'[t][n].key = session[s].key
         /\ \A m \in BatchNumbers : m # n =>
              /\ batch'[t][m].key = batch[t][m].key
              /\ batch'[t][m].status = IF batch[t][m].status \in Replaced
                                       THEN "superseded" ELSE batch[t][m].status
         /\ \A u \in Tasks : u # t => batch'[u] = batch[u]
<1>1. n \in BatchNumbers
  BY DEF WriteBatch
<1>2. /\ LatestBatch(t) \in Nat
      /\ \A m \in BatchesOf(t) : m <= LatestBatch(t)
  BY <1>1, LatestBatchIsOne
<1>3. n \notin BatchesOf(t)
  BY <1>2
<1>4. batch[t][n].status = "absent"
  BY <1>1, <1>3 DEF BatchesOf
<1>5. \A m \in BatchNumbers :
        batch'[t][m] = IF m = n
                       THEN [status |-> "pending", key |-> session[s].key,
                             claims |-> session[s].claims]
                       ELSE IF batch[t][m].status \in Replaced
                            THEN [batch[t][m] EXCEPT !.status = "superseded"]
                            ELSE batch[t][m]
  BY <1>1 DEF WriteBatch, TypeOK
<1>6. \A m \in BatchNumbers : batch[t][m] \in BatchRow
  BY <1>1 DEF TypeOK
<1>7. \A row \in BatchRow : /\ [row EXCEPT !.status = "superseded"].status = "superseded"
                            /\ [row EXCEPT !.status = "superseded"].key = row.key
  BY DEF BatchRow
<1>8. \A m \in BatchNumbers : m # n =>
        /\ batch'[t][m].key = batch[t][m].key
        /\ batch'[t][m].status = IF batch[t][m].status \in Replaced
                                 THEN "superseded" ELSE batch[t][m].status
  <2> SUFFICES ASSUME NEW m \in BatchNumbers, m # n
               PROVE  /\ batch'[t][m].key = batch[t][m].key
                      /\ batch'[t][m].status = IF batch[t][m].status \in Replaced
                                               THEN "superseded" ELSE batch[t][m].status
    OBVIOUS
  <2> DEFINE row == batch[t][m]
             replaced == [row EXCEPT !.status = "superseded"]
  <2>1. replaced.status = "superseded" /\ replaced.key = row.key
    BY <1>6, <1>7
  <2>2. batch'[t][m] = IF row.status \in Replaced THEN replaced ELSE row
    BY <1>5
  <2> HIDE DEF replaced
  <2> QED  BY <2>1, <2>2
<1>9. batch'[t][n].status = "pending" /\ batch'[t][n].key = session[s].key
  <2>1. batch'[t][n] = [status |-> "pending", key |-> session[s].key,
                        claims |-> session[s].claims]
    BY <1>1, <1>5
  <2> QED  BY <2>1
<1>10. BatchesOf(t)' = BatchesOf(t) \cup {n}
  BY <1>1, <1>8, <1>9 DEF BatchesOf, Replaced
<1>11. LatestBatch(t)' = n
  <2> DEFINE S == {NoBatch} \cup BatchesOf(t)'
  <2>1. S \in SUBSET (0..MaxBatches) /\ S # {} /\ MaxBatches \in Nat
    BY BoundsAssumption DEF BatchesOf, BatchNumbers, NoBatch
  <2>2. Max(S) \in S /\ \A x \in S : Max(S) >= x
    <3> HIDE DEF S
    <3> QED  BY <2>1, MaxOfBounded
  <2>3. n \in Nat /\ n \in S /\ \A x \in S : x \in Nat /\ x <= n
    BY <1>1, <1>2, <1>10, BoundsAssumption DEF BatchesOf, BatchNumbers, NoBatch
  <2>4. Max(S) = n
    <3> HIDE DEF S
    <3>1. Max(S) \in Nat /\ Max(S) <= n /\ Max(S) >= n
      BY <2>2, <2>3
    <3> QED  BY <2>3, <3>1
  <2> QED  BY <2>4 DEF LatestBatch
<1>12. \A u \in Tasks : u # t => batch'[u] = batch[u]
  BY DEF WriteBatch, TypeOK
<1> QED  BY <1>1, <1>4, <1>8, <1>9, <1>10, <1>11, <1>12

LEMMA SerialStep ==
  ASSUME TypeOK, SessionsNameTheirTask, SubmissionsAreSerial, Next
  PROVE  SubmissionsAreSerial'
<1>1. CASE \A s \in Sessions : ~WriteBatch(s)
  <2>1. \A t \in Tasks : \A n \in BatchNumbers :
          /\ batch'[t][n].status = "absent" <=> batch[t][n].status = "absent"
          /\ batch'[t][n].status = "pending" => batch[t][n].status = "pending"
          /\ batch'[t][n].key = batch[t][n].key
    BY <1>1, BatchFrame
  <2>2. \A t \in Tasks : BatchesOf(t)' = BatchesOf(t)
    BY <2>1 DEF BatchesOf
  <2>3. \A t \in Tasks : LatestBatch(t)' = LatestBatch(t)
    BY <2>2 DEF LatestBatch
  <2>4. \A t \in Tasks : BatchesOf(t) \subseteq BatchNumbers
    BY DEF BatchesOf
  <2> QED  BY <2>1, <2>2, <2>3, <2>4 DEF SubmissionsAreSerial
<1>2. ASSUME NEW s \in Sessions, WriteBatch(s) PROVE SubmissionsAreSerial'
  <2>0. PICK t \in Tasks, n \in BatchNumbers :
          t = session[s].task /\ n = LatestBatch(t) + 1
    BY <1>2 DEF WriteBatch, SessionsNameTheirTask
  <2>1. /\ BatchesOf(t)' = BatchesOf(t) \cup {n}
        /\ LatestBatch(t)' = n
        /\ batch'[t][n].key = session[s].key
        /\ \A m \in BatchNumbers : m # n =>
             /\ batch'[t][m].key = batch[t][m].key
             /\ batch'[t][m].status = IF batch[t][m].status \in Replaced
                                      THEN "superseded" ELSE batch[t][m].status
        /\ \A u \in Tasks : u # t => batch'[u] = batch[u]
    BY <1>2, <2>0, BatchWritten
  <2>2. \A u \in Tasks : \A m \in BatchesOf(u) : batch[u][m].key # session[s].key
    BY <1>2 DEF WriteBatch, KeyUsed
  <2>3. \A u \in Tasks : u # t => /\ BatchesOf(u)' = BatchesOf(u)
                                  /\ LatestBatch(u)' = LatestBatch(u)
    BY <2>1 DEF BatchesOf, LatestBatch
  <2>4. ASSUME NEW u \in Tasks, NEW m \in BatchesOf(u)', batch'[u][m].status = "pending"
        PROVE  m = LatestBatch(u)'
    <3>1. CASE u = t
      BY <2>1, <2>4, <3>1 DEF Replaced, BatchesOf
    <3>2. CASE u # t
      BY <2>1, <2>3, <2>4, <3>2 DEF SubmissionsAreSerial
    <3> QED  BY <3>1, <3>2
  <2>5. \A u \in Tasks : \A m \in BatchesOf(u)' :
          \/ u = t /\ m = n
          \/ /\ m \in BatchesOf(u) /\ batch'[u][m].key = batch[u][m].key
             /\ batch'[u][m].key # session[s].key
    BY <2>1, <2>2, <2>3 DEF BatchesOf
  <2>6. ASSUME NEW u \in Tasks, NEW v \in Tasks,
               NEW l \in BatchesOf(u)', NEW m \in BatchesOf(v)',
               batch'[u][l].key = batch'[v][m].key
        PROVE  u = v /\ l = m
    BY <2>1, <2>5, <2>6 DEF SubmissionsAreSerial
  <2> QED  BY <2>4, <2>6 DEF SubmissionsAreSerial
<1> QED  BY <1>1, <1>2

(* However submissions overlap, a task has at most its newest batch        *)
(* undecided, and an Idempotency-Key makes one batch (submitEvidenceBatch).*)
THEOREM SubmissionsStaySerial == Spec => []SubmissionsAreSerial
<1>1. Init => SubmissionsAreSerial
  BY DEF Init, SubmissionsAreSerial, BatchesOf, AbsentBatch
<1>2. TypeOK /\ SessionsNameTheirTask /\ SubmissionsAreSerial /\ [Next]_vars
        => SubmissionsAreSerial'
  <2>1. ASSUME SubmissionsAreSerial, UNCHANGED vars PROVE SubmissionsAreSerial'
    BY <2>1 DEF vars, SubmissionsAreSerial, BatchesOf, LatestBatch
  <2> QED  BY <2>1, SerialStep
<1>3. PermissionInv => TypeOK /\ SessionsNameTheirTask
  BY DEF PermissionInv
<1> QED  BY <1>1, <1>2, <1>3, PermissionInvHolds, PTL DEF Spec
-----------------------------------------------------------------------------
(* Eligibility: a page that is out of date decides nothing.                *)

(* A page shows a version of the row that was; if it still is the version, *)
(* the page shows the row.                                                 *)
PagesAreCurrent ==
  \A s \in Sessions :
    session[s].at = "eligibility_page" =>
      LET t == session[s].task
          seen == session[s].seen
      IN  /\ Exists(t)
          /\ seen.version <= task[t].version
          /\ seen.version = task[t].version =>
               seen.status = task[t].status /\ seen.eligibility = task[t].eligibility

(* Whatever changes the status or the eligibility of a task that is there  *)
(* changes its version.                                                    *)
LEMMA RowVersionMoves ==
  ASSUME TypeOK, Next, NEW t \in Tasks, Exists(t)
  PROVE  \/ /\ task'[t].version = task[t].version
            /\ task'[t].status = task[t].status
            /\ task'[t].eligibility = task[t].eligibility
         \/ /\ task'[t].version = task[t].version + 1
            /\ task'[t].status # "absent"
<1> DEFINE Same == /\ task'[t].version = task[t].version
                   /\ task'[t].status = task[t].status
                   /\ task'[t].eligibility = task[t].eligibility
           Moved == /\ task'[t].version = task[t].version + 1
                    /\ task'[t].status # "absent"
<1>0. task[t] \in TaskRow /\ task[t].status # "absent"
  BY DEF TypeOK, Exists
<1>1. ASSUME task'[t] = task[t] PROVE Same
  BY <1>1
<1>2. ASSUME NEW u \in Tasks, TaskSteps(u), u # t PROVE task'[t] = task[t]
  BY <1>2 DEF TaskSteps, CreateTaskForSubmission, ExpireToken, ConfirmProductAffected,
     PlaceHold, ReleaseHold, ReviewBatch, RevokeAuthorization, TypeOK
<1>3. ASSUME NEW hasIncident \in BOOLEAN, CreateTaskForSubmission(t, hasIncident)
      PROVE  FALSE
  BY <1>3, <1>0 DEF CreateTaskForSubmission, Exists
<1>4. ASSUME ExpireToken(t) PROVE Same
  <2>1. task'[t] = [task[t] EXCEPT !.tokenLive = FALSE]
    BY <1>4 DEF ExpireToken, TypeOK
  <2> QED  BY <1>0, <2>1 DEF TaskRow
<1>5. ASSUME NEW p \in Products, NEW q \in Quantities, ConfirmProductAffected(t, p, q)
      PROVE  Same
  <2>1. task'[t] = [task[t] EXCEPT !.confirmed[p] = q]
    BY <1>5 DEF ConfirmProductAffected, TypeOK
  <2> QED  BY <1>0, <2>1 DEF TaskRow
<1>6. ASSUME NEW held \in BOOLEAN, task' = [task EXCEPT ![t].hold = held] PROVE Same
  <2>1. task'[t] = [task[t] EXCEPT !.hold = held]
    BY <1>6 DEF TypeOK
  <2> QED  BY <1>0, <2>1 DEF TaskRow
<1>7. ASSUME NEW u \in Sessions, NEW d \in EligibilityStatuses, ConfirmEligibility(u, d)
      PROVE  Same \/ Moved
  <2>1. CASE session[u].task = t
    <3>1. task'[t] = [task[t] EXCEPT !.eligibility = d, !.version = @ + 1]
      BY <1>7, <2>1 DEF ConfirmEligibility, TypeOK
    <3> QED  BY <1>0, <3>1 DEF TaskRow
  <2>2. CASE session[u].task # t
    BY <1>1, <1>7, <2>2 DEF ConfirmEligibility, TypeOK
  <2> QED  BY <2>1, <2>2
<1>8. ASSUME NEW u \in Sessions, WriteDeclaration(u) PROVE Same \/ Moved
  <2>1. CASE session[u].task = t
    <3>1. task'[t] = Closed(t, session[u].basis)
      BY <1>8, <2>1 DEF WriteDeclaration, TypeOK
    <3> QED  BY <1>0, <3>1 DEF Closed, TaskRow
  <2>2. CASE session[u].task # t
    BY <1>1, <1>8, <2>2 DEF WriteDeclaration, TypeOK
  <2> QED  BY <2>1, <2>2
<1>10. CASE \E u \in Tasks : TaskSteps(u)
  <2>1. CASE TaskSteps(t)
    BY <1>1, <1>3, <1>4, <1>5, <1>6, <2>1
    DEF TaskSteps, PlaceHold, ReleaseHold, ReviewBatch, RevokeAuthorization
  <2>2. CASE ~TaskSteps(t)
    BY <1>1, <1>2, <1>10, <2>2
  <2> QED  BY <2>1, <2>2
<1> QED  BY <1>1, <1>7, <1>8, <1>10, TaskWriters

(* A page that is acted on ends in a decision or in nothing. *)
LEMMA PagesEnd ==
  ASSUME TypeOK, Next, NEW s \in Sessions, session[s].at = "eligibility_page",
         session'[s] # session[s]
  PROVE  (\E d \in EligibilityStatuses : ConfirmEligibility(s, d)) \/ UNCHANGED task
<1>1. ASSUME Authoring \/ \E v \in Tasks : TaskSteps(v) PROVE session' = session
  BY <1>1
  DEF Authoring, CreateInstructionVersion, PublishInstructionVersion,
      WithdrawInstruction, RecordInstructionApproval, AdvanceTime,
      TaskSteps, CreateTaskForSubmission, ExpireToken, ConfirmProductAffected,
      PlaceHold, ReleaseHold, ReviewBatch, RevokeAuthorization
<1>2. ASSUME NEW u \in Sessions, SessionSteps(u), u # s PROVE session'[s] = session[s]
  BY <1>2
  DEF SessionSteps, OpenEligibilityPage, BeginIssue, GateSubmission, GateDeclaration,
      ConfirmEligibility, WriteBatch, ReplayBatch, GateIssue, WriteIssue,
      WriteDeclaration, Abort, Leave, Enter, TypeOK
<1>3. SessionSteps(s)
  BY <1>1, <1>2 DEF Next
<1> QED
  BY <1>3
  DEF SessionSteps, OpenEligibilityPage, BeginIssue, GateSubmission, GateDeclaration,
      WriteBatch, ReplayBatch, GateIssue, WriteIssue, WriteDeclaration, Abort

LEMMA PagesStep ==
  ASSUME TypeOK, SessionsNameTheirTask, PagesAreCurrent, Next
  PROVE  PagesAreCurrent'
<1> SUFFICES ASSUME NEW s \in Sessions, session'[s].at = "eligibility_page",
                    NEW t \in Tasks, t = session'[s].task
             PROVE  LET seen == session'[s].seen IN
                    /\ task'[t].status # "absent"
                    /\ seen.version <= task'[t].version
                    /\ seen.version = task'[t].version =>
                         /\ seen.status = task'[t].status
                         /\ seen.eligibility = task'[t].eligibility
  BY SessionsStep DEF PagesAreCurrent, Exists, SessionsNameTheirTask
<1>0. task[t].version \in Nat /\ session[s].seen.version \in Nat
  <2>1. task[t] \in TaskRow /\ session[s] \in Session
    BY DEF TypeOK
  <2> QED  BY <2>1 DEF TaskRow, Session
<1>1. CASE session'[s] = session[s]
  <2>1. /\ Exists(t)
        /\ session[s].seen.version <= task[t].version
        /\ session[s].seen.version = task[t].version =>
             /\ session[s].seen.status = task[t].status
             /\ session[s].seen.eligibility = task[t].eligibility
    BY <1>1 DEF PagesAreCurrent
  <2>2. \/ /\ task'[t].version = task[t].version
           /\ task'[t].status = task[t].status
           /\ task'[t].eligibility = task[t].eligibility
        \/ task'[t].version = task[t].version + 1 /\ task'[t].status # "absent"
    BY <2>1, RowVersionMoves
  <2> QED  BY <1>0, <1>1, <2>1, <2>2 DEF Exists
<1>2. CASE session'[s] # session[s]
  <2>1. /\ OpenEligibilityPage(s, t)
        /\ session'[s].seen = [version |-> task[t].version,
                               status |-> task[t].status,
                               eligibility |-> task[t].eligibility]
    <3>1. session'[s] # Idle
      BY DEF Idle
    <3> QED  BY <1>2, <3>1, SessionMoves
  <2> QED  BY <1>0, <2>1 DEF OpenEligibilityPage, Exists
<1> QED  BY <1>1, <1>2

(* Staff decide eligibility on the status and the eligibility their page   *)
(* showed, whoever decided or declared meanwhile: the row version of the   *)
(* page is compared under the lock (confirmEligibility).                   *)
THEOREM EligibilityIsInformed == Spec => EligibilityDecidedOnWhatWasSeen
<1>1. Init => PagesAreCurrent
  BY DEF Init, PagesAreCurrent, Idle
<1>2. TypeOK /\ SessionsNameTheirTask /\ PagesAreCurrent /\ [Next]_vars => PagesAreCurrent'
  <2>1. ASSUME PagesAreCurrent, UNCHANGED vars PROVE PagesAreCurrent'
    BY <2>1 DEF vars, PagesAreCurrent, Exists
  <2> QED  BY <2>1, PagesStep
<1>3. ASSUME TypeOK, SessionsNameTheirTask, PagesAreCurrent, Next, NEW s \in Sessions,
             session[s].at = "eligibility_page", task' # task, session'[s] = Idle
      PROVE  /\ task[session[s].task].status = session[s].seen.status
             /\ task[session[s].task].eligibility = session[s].seen.eligibility
  <2>1. session'[s] # session[s]
    BY <1>3 DEF Idle
  <2>2. \E d \in EligibilityStatuses : ConfirmEligibility(s, d)
    BY <1>3, <2>1, PagesEnd
  <2> QED  BY <1>3, <2>2 DEF ConfirmEligibility, PagesAreCurrent
<1>4. TypeOK /\ SessionsNameTheirTask /\ PagesAreCurrent /\ [Next]_vars =>
        [\A s \in Sessions :
           session[s].at = "eligibility_page" /\ task' # task /\ session'[s] = Idle =>
             /\ task[session[s].task].status = session[s].seen.status
             /\ task[session[s].task].eligibility = session[s].seen.eligibility]_vars
  BY <1>3
<1>5. PermissionInv => TypeOK /\ SessionsNameTheirTask
  BY DEF PermissionInv
<1> QED
  BY <1>1, <1>2, <1>4, <1>5, PermissionInvHolds, PTL
  DEF EligibilityDecidedOnWhatWasSeen, Spec
-----------------------------------------------------------------------------
(* Issues: a row is written once, at a number that was fresh, and what it  *)
(* names stays what it was.                                                *)

Issuing(s) == session[s].at \in {"issue_begun", "issue_gated"}

StartsAreFresh ==
  /\ \A s \in Sessions : Issuing(s) =>
       session[s].start <= begun /\ issue[session[s].start].status = "absent"
  /\ \A s, u \in Sessions :
       Issuing(s) /\ Issuing(u) /\ session[s].start = session[u].start => s = u
  /\ \A i \in Issues : i > begun => issue[i].status = "absent"

(* A permission rests on a batch that passed review, for good. *)
IssuesNameEvidence ==
  \A i \in Issues :
    /\ issue[i].status = "absent" <=> issue[i].task = Null
    /\ issue[i].task \in Tasks =>
         /\ issue[i].batch \in BatchNumbers
         /\ batch[issue[i].task][issue[i].batch].status = "accepted"

(* Nothing takes back an acceptance. *)
LEMMA AcceptedStays ==
  ASSUME TypeOK, SessionsNameTheirTask, Next, NEW t \in Tasks, NEW n \in BatchNumbers,
         batch[t][n].status = "accepted"
  PROVE  batch'[t][n].status = "accepted"
<1>1. CASE \A s \in Sessions : WriteBatch(s) => session[s].task # t
  BY <1>1, EvidenceFrame DEF EvidenceKept
<1>2. ASSUME NEW s \in Sessions, WriteBatch(s), session[s].task = t
      PROVE  batch'[t][n].status = "accepted"
  <2>1. PICK m \in BatchNumbers : m = LatestBatch(t) + 1
    BY <1>2 DEF WriteBatch
  <2>2. batch[t][m].status = "absent"
    BY <1>2, <2>1, BatchWritten
  <2>3. n # m
    BY <2>2
  <2>4. batch'[t][n].status = IF batch[t][n].status \in Replaced
                              THEN "superseded" ELSE batch[t][n].status
    BY <1>2, <2>1, <2>3, BatchWritten
  <2> QED  BY <2>4 DEF Replaced
<1> QED  BY <1>1, <1>2

(* Only WriteIssue writes a row, and the others change its status at most. *)
LEMMA IssueFrame ==
  ASSUME TypeOK, IssuesNameEvidence, Next, \A s \in Sessions : ~WriteIssue(s),
         NEW i \in Issues
  PROVE  /\ issue'[i].task = issue[i].task
         /\ issue'[i].batch = issue[i].batch
         /\ issue'[i].status = "absent" <=> issue[i].status = "absent"
         /\ issue'[i].status = "revoked" /\ issue[i].status # "revoked" =>
              \E t \in Tasks : LockFree(t) /\ issue[i].task = t
<1> DEFINE Kept == /\ issue'[i].task = issue[i].task
                   /\ issue'[i].batch = issue[i].batch
                   /\ issue'[i].status = "absent" <=> issue[i].status = "absent"
                   /\ issue'[i].status = "revoked" /\ issue[i].status # "revoked" =>
                        \E t \in Tasks : LockFree(t) /\ issue[i].task = t
<1>0. issue[i] \in IssueRow
  BY DEF TypeOK
<1>1. CASE UNCHANGED issue
  BY <1>1
<1>2. ASSUME NEW chosen, SuspendLive(chosen) PROVE Kept
  <2>1. LET row == [issue[i] EXCEPT !.status = "suspended"] IN
        row.status = "suspended" /\ row.task = issue[i].task /\ row.batch = issue[i].batch
    BY <1>0 DEF IssueRow
  <2> QED  BY <1>2, <2>1 DEF SuspendLive, Live
<1>3. ASSUME NEW t \in Tasks, RevokeAuthorization(t) PROVE Kept
  <2>1. CASE i = LatestIssue(t)
    <3>1. issue'[i] = [issue[i] EXCEPT !.status = "revoked"]
      BY <1>3, <2>1 DEF RevokeAuthorization, TypeOK
    <3>2. /\ issue'[i].status = "revoked"
          /\ issue'[i].task = issue[i].task /\ issue'[i].batch = issue[i].batch
      BY <1>0, <3>1 DEF IssueRow
    <3>3. issue[i].task = t /\ LockFree(t)
      BY <1>3, <2>1, LatestIssueIsOne DEF RevokeAuthorization, IssuesOf
    <3>4. issue[i].status # "absent"
      BY <3>3, InputAssumption DEF IssuesNameEvidence
    <3> QED  BY <3>2, <3>3, <3>4
  <2>2. CASE i # LatestIssue(t)
    BY <1>1, <1>3, <2>2 DEF RevokeAuthorization, TypeOK
  <2> QED  BY <2>1, <2>2
<1> QED  BY <1>1, <1>2, <1>3, IssueWriters DEF WithdrawInstruction, WriteBatch

(* Who issues began once, with the next number, and keeps it. *)
LEMMA IssuersMove ==
  ASSUME TypeOK, Next, NEW s \in Sessions, Issuing(s)'
  PROVE  \/ /\ Issuing(s) /\ ~WriteIssue(s)
            /\ session'[s].start = session[s].start
         \/ /\ \E t \in Tasks : BeginIssue(s, t)
            /\ session'[s].start = begun + 1
<1>1. /\ session'[s] # Idle
      /\ session'[s].at \in {"issue_begun", "issue_gated"}
  BY DEF Issuing, Idle
<1>2. ASSUME WriteIssue(s) PROVE session'[s] = Idle
  BY <1>2 DEF WriteIssue, Leave, TypeOK
<1>3. CASE session'[s] = session[s]
  BY <1>1, <1>2, <1>3 DEF Issuing
<1>4. CASE GateIssue(s) /\ session'[s].start = session[s].start
  BY <1>1, <1>2, <1>4 DEF GateIssue, Issuing
<1> QED  BY <1>1, <1>3, <1>4, SessionMoves

LEMMA BegunMoves ==
  ASSUME Next
  PROVE  \/ begun' = begun
         \/ /\ \E s \in Sessions, t \in Tasks : BeginIssue(s, t)
            /\ begun' = begun + 1
<1>1. ASSUME Authoring PROVE begun' = begun
  BY <1>1 DEF Authoring, CreateInstructionVersion, PublishInstructionVersion,
              WithdrawInstruction, RecordInstructionApproval, AdvanceTime
<1>2. ASSUME NEW t \in Tasks, TaskSteps(t) PROVE begun' = begun
  BY <1>2 DEF TaskSteps, CreateTaskForSubmission, ExpireToken, ConfirmProductAffected,
              PlaceHold, ReleaseHold, ReviewBatch, RevokeAuthorization
<1>3. ASSUME NEW s \in Sessions, SessionSteps(s)
      PROVE  begun' = begun \/ \E t \in Tasks : BeginIssue(s, t) /\ begun' = begun + 1
  BY <1>3 DEF SessionSteps, OpenEligibilityPage, BeginIssue, GateSubmission,
              GateDeclaration, ConfirmEligibility, WriteBatch, ReplayBatch, GateIssue,
              WriteIssue, WriteDeclaration, Abort
<1> QED  BY <1>1, <1>2, <1>3 DEF Next

(* The row an issue writes is at its own number. *)
LEMMA IssueWritten ==
  ASSUME TypeOK, SessionsNameTheirTask, NEW s \in Sessions, WriteIssue(s)
  PROVE  /\ session[s].start \in Issues /\ session[s].task \in Tasks /\ Issuing(s)
         /\ issue'[session[s].start].status = "active"
         /\ issue'[session[s].start].task = session[s].task
         /\ issue'[session[s].start].batch = LatestBatch(session[s].task)
         /\ \A i \in Issues : i # session[s].start => issue'[i] = issue[i]
<1>1. session[s].start \in Issues /\ session[s].task \in Tasks /\ Issuing(s)
  BY DEF WriteIssue, SessionsNameTheirTask, Issuing
<1> QED  BY <1>1 DEF WriteIssue, TypeOK

(* A number nobody uses stays unused until its owner writes. *)
LEMMA AbsentStays ==
  ASSUME TypeOK, SessionsNameTheirTask, IssuesNameEvidence, Next, NEW i \in Issues,
         issue[i].status = "absent",
         \A s \in Sessions : WriteIssue(s) => session[s].start # i
  PROVE  issue'[i].status = "absent"
<1>1. CASE \A s \in Sessions : ~WriteIssue(s)
  BY <1>1, IssueFrame
<1>2. ASSUME NEW s \in Sessions, WriteIssue(s) PROVE issue'[i] = issue[i]
  BY <1>2, IssueWritten
<1> QED  BY <1>1, <1>2

LEMMA StartsStep ==
  ASSUME TypeOK, SessionsNameTheirTask, IssuesNameEvidence, StartsAreFresh, Next
  PROVE  StartsAreFresh'
<1>0. begun \in 0..MaxIssues /\ MaxIssues \in Nat
  BY BoundsAssumption DEF TypeOK
<1>1. begun <= begun' /\ begun' \in Nat
  BY <1>0, BegunMoves
<1>2. \A s \in Sessions : Issuing(s) => session[s].start \in Issues
  BY DEF Issuing, SessionsNameTheirTask
<1>3. ASSUME NEW s \in Sessions, NEW t \in Tasks, BeginIssue(s, t)
      PROVE  /\ begun' = begun + 1 /\ begun + 1 \in Issues /\ issue' = issue
             /\ \A u \in Sessions : u # s => session'[u] = session[u]
             /\ ~Issuing(s)
  BY <1>0, <1>3 DEF BeginIssue, Enter, TypeOK, Issues, Idle, Issuing
<1>4. ASSUME NEW s \in Sessions, Issuing(s)'
      PROVE  /\ session'[s].start <= begun'
             /\ issue'[session'[s].start].status = "absent"
  <2>1. CASE /\ Issuing(s) /\ ~WriteIssue(s)
             /\ session'[s].start = session[s].start
    <3>1. /\ session[s].start <= begun /\ issue[session[s].start].status = "absent"
          /\ session[s].start \in Issues
      BY <1>2, <2>1 DEF StartsAreFresh
    <3>2. ASSUME NEW u \in Sessions, WriteIssue(u) PROVE session[u].start # session[s].start
      BY <2>1, <3>2, IssueWritten DEF StartsAreFresh
    <3>3. issue'[session[s].start].status = "absent"
      BY <3>1, <3>2, AbsentStays
    <3> QED  BY <1>0, <1>1, <2>1, <3>1, <3>3 DEF Issues
  <2>2. CASE /\ \E t \in Tasks : BeginIssue(s, t)
             /\ session'[s].start = begun + 1
    <3>1. begun' = begun + 1 /\ begun + 1 \in Issues /\ issue' = issue
      BY <1>3, <2>2
    <3>2. issue[begun + 1].status = "absent"
      BY <1>0, <3>1 DEF StartsAreFresh
    <3> QED  BY <1>0, <2>2, <3>1, <3>2
  <2> QED  BY <1>4, <2>1, <2>2, IssuersMove
<1>5. ASSUME NEW s \in Sessions, NEW u \in Sessions, Issuing(s)', Issuing(u)',
             session'[s].start = session'[u].start
      PROVE  s = u
  <2>1. ASSUME NEW v \in Sessions, NEW w \in Sessions, v # w, Issuing(v)', Issuing(w)',
               NEW t \in Tasks, BeginIssue(v, t), session'[v].start = begun + 1
        PROVE  session'[w].start # session'[v].start
    <3>1. session'[w] = session[w]
      BY <1>3, <2>1
    <3>2. Issuing(w)
      BY <2>1, <3>1 DEF Issuing
    <3>3. session[w].start <= begun /\ session[w].start \in Issues
      BY <1>2, <3>2 DEF StartsAreFresh
    <3> QED  BY <1>0, <2>1, <3>1, <3>3 DEF Issues
  <2>2. CASE /\ Issuing(s) /\ session'[s].start = session[s].start
             /\ Issuing(u) /\ session'[u].start = session[u].start
    BY <1>5, <2>2 DEF StartsAreFresh
  <2> QED  BY <1>5, <2>1, <2>2, IssuersMove
<1>6. ASSUME NEW i \in Issues, i > begun' PROVE issue'[i].status = "absent"
  <2>1. i > begun
    BY <1>0, <1>1, <1>6 DEF Issues
  <2>2. issue[i].status = "absent"
    BY <2>1 DEF StartsAreFresh
  <2>3. ASSUME NEW s \in Sessions, WriteIssue(s) PROVE session[s].start # i
    <3>1. session[s].start <= begun /\ session[s].start \in Issues
      BY <2>3, IssueWritten DEF StartsAreFresh
    <3> QED  BY <1>0, <2>1, <3>1 DEF Issues
  <2> QED  BY <2>2, <2>3, AbsentStays
<1> QED
  <2>1. (\A s \in Sessions : Issuing(s) =>
           session[s].start <= begun /\ issue[session[s].start].status = "absent")'
    BY <1>4
  <2>2. (\A s, u \in Sessions :
           Issuing(s) /\ Issuing(u) /\ session[s].start = session[u].start => s = u)'
    BY <1>5
  <2> QED  BY <1>6, <2>1, <2>2 DEF StartsAreFresh

(* What a row names is final. *)
LEMMA IssueRowStands ==
  ASSUME TypeOK, SessionsNameTheirTask, IssuesNameEvidence, StartsAreFresh, Next,
         NEW i \in Issues, issue[i].task \in Tasks
  PROVE  issue'[i].task = issue[i].task /\ issue'[i].batch = issue[i].batch
<1>1. CASE \A s \in Sessions : ~WriteIssue(s)
  BY <1>1, IssueFrame
<1>2. ASSUME NEW s \in Sessions, WriteIssue(s) PROVE issue'[i] = issue[i]
  <2>1. issue[session[s].start].status = "absent" /\ session[s].start \in Issues
    BY <1>2, IssueWritten DEF StartsAreFresh
  <2>2. issue[session[s].start].task = Null
    BY <2>1 DEF IssuesNameEvidence
  <2> QED  BY <1>2, <2>2, IssueWritten, InputAssumption
<1> QED  BY <1>1, <1>2

LEMMA NamesStep ==
  ASSUME PermissionInv, IssuesNameEvidence, StartsAreFresh, Next
  PROVE  IssuesNameEvidence'
<1>0. TypeOK /\ SessionsNameTheirTask
  BY DEF PermissionInv
<1> SUFFICES ASSUME NEW i \in Issues
             PROVE  /\ issue'[i].status = "absent" <=> issue'[i].task = Null
                    /\ issue'[i].task \in Tasks =>
                         /\ issue'[i].batch \in BatchNumbers
                         /\ batch'[issue'[i].task][issue'[i].batch].status = "accepted"
  BY DEF IssuesNameEvidence
<1>1. ASSUME issue'[i].task = issue[i].task, issue'[i].batch = issue[i].batch,
             issue'[i].task \in Tasks
      PROVE  /\ issue'[i].batch \in BatchNumbers
             /\ batch'[issue'[i].task][issue'[i].batch].status = "accepted"
  BY <1>0, <1>1, AcceptedStays DEF IssuesNameEvidence
<1>2. CASE \A s \in Sessions : ~WriteIssue(s)
  BY <1>0, <1>1, <1>2, IssueFrame DEF IssuesNameEvidence
<1>3. ASSUME NEW s \in Sessions, WriteIssue(s), i # session[s].start
      PROVE  issue'[i] = issue[i]
  BY <1>0, <1>3, IssueWritten
<1>4. ASSUME NEW s \in Sessions, WriteIssue(s), i = session[s].start
      PROVE  /\ issue'[i].status = "active" /\ issue'[i].task \in Tasks
             /\ issue'[i].batch \in BatchNumbers
             /\ batch'[issue'[i].task][issue'[i].batch].status = "accepted"
  <2>1. NewestAccepted(session[s].task) /\ UNCHANGED batch
    BY <1>4, IssuerGate DEF WriteIssue
  <2> QED  BY <1>0, <1>4, <2>1, IssueWritten DEF NewestAccepted
<1>5. CASE issue'[i] = issue[i]
  BY <1>1, <1>5 DEF IssuesNameEvidence
<1> QED  BY <1>2, <1>3, <1>4, <1>5, InputAssumption
-----------------------------------------------------------------------------
(* Declarations: what the gate read is still so when the task closes.      *)

DeclarationStands ==
  \A s \in Sessions : session[s].at = "declare_gated" =>
    LET t == session[s].task
        i == LatestIssue(t)
    IN  /\ session[s].basis \in {"authorization", "exception"}
        /\ session[s].basis = "authorization" =>
             /\ task[t].eligibility = "confirmed_eligible"
             /\ ~task[t].hold
             /\ NewestAccepted(t)
             /\ i \in IssuesOf(t)
             /\ issue[i].batch = LatestBatch(t)
             /\ issue[i].status # "revoked"

(* The tie between how a task was closed and what it cites. *)
CitationsAreTrue ==
  \A t \in Tasks :
    /\ task[t].status = "completed" <=> task[t].basis # "none"
    /\ task[t].basis = "authorization" <=> task[t].cited # NoIssue
    /\ task[t].cited # NoIssue => issue[task[t].cited].task = t

DeclarationInv ==
  /\ PermissionInv
  /\ StartsAreFresh /\ IssuesNameEvidence
  /\ DeclarationStands /\ CitationsAreTrue

(* Who declares holds the task, so its permissions stay as they were,      *)
(* except that a withdrawal may suspend them.                              *)
LEMMA DeclaredIssuesKept ==
  ASSUME PermissionInv, IssuesNameEvidence, StartsAreFresh, Next,
         NEW s \in Sessions, NEW t \in Tasks,
         session[s].at = "declare_gated", session[s].task = t
  PROVE  /\ LatestIssue(t)' = LatestIssue(t)
         /\ \A i \in IssuesOf(t) :
              /\ i \in IssuesOf(t)'
              /\ issue'[i].batch = issue[i].batch
              /\ issue'[i].status = "revoked" => issue[i].status = "revoked"
<1>0. TypeOK /\ SessionsNameTheirTask /\ HoldsTask(s, t)
  BY DEF PermissionInv, HoldsTask
<1>1. ASSUME NEW u \in Sessions, WriteIssue(u)
      PROVE  /\ session[u].task # t
             /\ issue[session[u].start].task = Null
  <2>1. HoldsTask(u, session[u].task) /\ session[u].at = "issue_gated"
    BY <1>1 DEF WriteIssue, HoldsTask
  <2>2. session[u].task # t
    BY <1>0, <2>1 DEF PermissionInv, LockExclusive
  <2>3. Issuing(u) /\ session[u].start \in Issues
    BY <1>0, <1>1, IssueWritten
  <2> QED  BY <2>2, <2>3 DEF StartsAreFresh, IssuesNameEvidence
<1>2. ASSUME NEW i \in Issues
      PROVE  /\ issue'[i].task = t <=> issue[i].task = t
             /\ issue[i].task = t =>
                  /\ issue'[i].batch = issue[i].batch
                  /\ issue'[i].status = "revoked" => issue[i].status = "revoked"
  <2>1. CASE \A u \in Sessions : ~WriteIssue(u)
    <3>1. /\ issue'[i].task = issue[i].task /\ issue'[i].batch = issue[i].batch
          /\ issue'[i].status = "revoked" /\ issue[i].status # "revoked" =>
               \E u \in Tasks : LockFree(u) /\ issue[i].task = u
      BY <1>0, <2>1, IssueFrame
    <3>2. ~LockFree(t)
      BY <1>0 DEF LockFree
    <3> QED  BY <3>1, <3>2
  <2>2. ASSUME NEW u \in Sessions, WriteIssue(u), i # session[u].start
        PROVE  issue'[i] = issue[i]
    BY <1>0, <2>2, IssueWritten
  <2>3. ASSUME NEW u \in Sessions, WriteIssue(u), i = session[u].start
        PROVE  issue'[i].task # t /\ issue[i].task # t
    BY <1>0, <1>1, <2>3, IssueWritten, InputAssumption
  <2> QED  BY <2>1, <2>2, <2>3
<1>3. IssuesOf(t)' = IssuesOf(t)
  BY <1>2 DEF IssuesOf
<1>4. LatestIssue(t)' = LatestIssue(t)
  BY <1>3 DEF LatestIssue
<1> QED  BY <1>2, <1>3, <1>4 DEF IssuesOf

(* What a gate that lets a consumer declare completion has seen. *)
LEMMA CompletionGatePasses ==
  ASSUME NEW t \in Tasks, MayDeclareCompletion(StateOf(t)), TypeOK,
         LivePermissionRestsOnAcceptedEvidence
  PROVE  /\ task[t].eligibility = "confirmed_eligible"
         /\ ~task[t].hold
         /\ NewestAccepted(t)
         /\ LatestIssue(t) \in IssuesOf(t)
         /\ issue[LatestIssue(t)].batch = LatestBatch(t)
         /\ issue[LatestIssue(t)].status # "revoked"
<1>1. /\ StateOf(t).authorization = "active"
      /\ CanIssueAuthorization(StateOf(t))
  BY DEF MayDeclareCompletion
<1>2. StateOf(t).authorization = IF LatestIssue(t) = NoIssue THEN Null
                                 ELSE issue[LatestIssue(t)].status
  BY DEF StateOf
<1>3. LatestIssue(t) # NoIssue /\ Live(LatestIssue(t))
  BY <1>1, <1>2 DEF Null, Live
<1>4. LatestIssue(t) \in IssuesOf(t)
  BY <1>3, LatestIssueIsOne
<1>5. issue[LatestIssue(t)].batch = LatestBatch(t)
  BY <1>3, <1>4 DEF LivePermissionRestsOnAcceptedEvidence
<1> QED  BY <1>1, <1>3, <1>4, <1>5, IssueGatePasses DEF Live

LEMMA DeclarationStep ==
  ASSUME DeclarationInv, Next PROVE DeclarationStands'
<1>0. TypeOK /\ SessionsNameTheirTask /\ SessionsNameTheirTask'
  BY SessionsStep DEF DeclarationInv, PermissionInv
<1> SUFFICES ASSUME NEW s \in Sessions, session'[s].at = "declare_gated",
                    NEW t \in Tasks, session'[s].task = t
             PROVE  /\ session'[s].basis \in {"authorization", "exception"}
                    /\ session'[s].basis = "authorization" =>
                         /\ task'[t].eligibility = "confirmed_eligible"
                         /\ ~task'[t].hold
                         /\ NewestAccepted(t)'
                         /\ LatestIssue(t)' \in IssuesOf(t)'
                         /\ issue'[LatestIssue(t)'].batch = LatestBatch(t)'
                         /\ issue'[LatestIssue(t)'].status # "revoked"
  BY <1>0 DEF DeclarationStands, SessionsNameTheirTask, NewestAccepted, LatestBatch,
     BatchesOf, LatestIssue, IssuesOf
<1>1. HoldsTask(s, t)'
  BY DEF HoldsTask
<1>2. CASE ~HoldsTask(s, t)
  <2>1. /\ UNCHANGED <<task, batch, issue>>
        /\ \/ session'[s].basis = "authorization" /\ MayDeclareCompletion(StateOf(t))
           \/ session'[s].basis = "exception"
    BY <1>0, <1>1, <1>2, LockTaken
  <2>2. EvidenceKept(t) /\ IssuesOf(t)' = IssuesOf(t) /\ LatestIssue(t)' = LatestIssue(t)
    BY <2>1 DEF EvidenceKept, IssuesOf, LatestIssue
  <2>3. LatestBatch(t)' = LatestBatch(t) /\ (NewestAccepted(t) => NewestAccepted(t)')
    BY <2>2, NewestKept
  <2>4. CASE session'[s].basis = "authorization"
    <3>1. /\ task[t].eligibility = "confirmed_eligible"
          /\ ~task[t].hold
          /\ NewestAccepted(t)
          /\ LatestIssue(t) \in IssuesOf(t)
          /\ issue[LatestIssue(t)].batch = LatestBatch(t)
          /\ issue[LatestIssue(t)].status # "revoked"
      BY <1>0, <2>1, <2>4, CompletionGatePasses DEF DeclarationInv, PermissionInv
    <3> QED  BY <2>1, <2>2, <2>3, <2>4, <3>1
  <2> QED  BY <2>1, <2>4
<1>3. CASE HoldsTask(s, t)
  <2>1. session'[s] = session[s]
    BY <1>0, <1>1, <1>3, HolderKeepsItsGate
  <2>2. Exists(t)
    BY <2>1 DEF DeclarationInv, PermissionInv, GateStands, Exists
  <2>3. /\ task'[t].eligibility = task[t].eligibility
        /\ task'[t].hold = task[t].hold
        /\ EvidenceKept(t)
    BY <1>0, <1>1, <1>3, <2>2, LockedTaskKept DEF DeclarationInv, PermissionInv
  <2>4. LatestBatch(t)' = LatestBatch(t) /\ (NewestAccepted(t) => NewestAccepted(t)')
    BY <2>3, NewestKept
  <2>5. /\ LatestIssue(t)' = LatestIssue(t)
        /\ \A i \in IssuesOf(t) :
             /\ i \in IssuesOf(t)'
             /\ issue'[i].batch = issue[i].batch
             /\ issue'[i].status = "revoked" => issue[i].status = "revoked"
    BY <2>1, DeclaredIssuesKept DEF DeclarationInv
  <2> QED  BY <2>1, <2>3, <2>4, <2>5 DEF DeclarationInv, DeclarationStands
<1> QED  BY <1>2, <1>3

LEMMA CitationStep ==
  ASSUME DeclarationInv, Next PROVE CitationsAreTrue'
<1>0. TypeOK /\ SessionsNameTheirTask
  BY DEF DeclarationInv, PermissionInv
<1> SUFFICES ASSUME NEW t \in Tasks
             PROVE  /\ task'[t].status = "completed" <=> task'[t].basis # "none"
                    /\ task'[t].basis = "authorization" <=> task'[t].cited # NoIssue
                    /\ task'[t].cited # NoIssue => issue'[task'[t].cited].task = t
  BY DEF CitationsAreTrue
<1>1. CASE /\ task'[t].status = task[t].status
           /\ task'[t].basis = task[t].basis
           /\ task'[t].cited = task[t].cited
  <2>1. CASE task[t].cited # NoIssue
    <3>1. task[t].cited \in Issues /\ issue[task[t].cited].task = t
      <4>1. task[t] \in TaskRow
        BY <1>0 DEF TypeOK
      <4> QED  BY <2>1, <4>1 DEF TaskRow, DeclarationInv, CitationsAreTrue
    <3>2. issue'[task[t].cited].task = t
      BY <1>0, <3>1, IssueRowStands DEF DeclarationInv
    <3> QED  BY <1>1, <3>2 DEF DeclarationInv, CitationsAreTrue
  <2>2. CASE task[t].cited = NoIssue
    BY <1>1, <2>2 DEF DeclarationInv, CitationsAreTrue
  <2> QED  BY <2>1, <2>2
<1>2. CASE /\ task'[t].status = "open" /\ task'[t].basis = "none"
           /\ task'[t].cited = NoIssue
  BY <1>2
<1>3. ASSUME NEW s \in Sessions,
             session[s].at = "declare_gated", session[s].task = t, WriteDeclaration(s),
             task'[t].status = "completed", task'[t].basis = session[s].basis,
             task'[t].cited = IF session[s].basis = "authorization"
                              THEN LatestIssue(t) ELSE NoIssue
      PROVE  /\ task'[t].status = "completed" <=> task'[t].basis # "none"
             /\ task'[t].basis = "authorization" <=> task'[t].cited # NoIssue
             /\ task'[t].cited # NoIssue => issue'[task'[t].cited].task = t
  <2>1. /\ session[s].basis \in {"authorization", "exception"}
        /\ session[s].basis = "authorization" => LatestIssue(t) \in IssuesOf(t)
    BY <1>3 DEF DeclarationInv, DeclarationStands
  <2>2. UNCHANGED issue
    BY <1>3 DEF WriteDeclaration
  <2>3. \A i \in IssuesOf(t) : i # NoIssue /\ issue[i].task = t
    BY BoundsAssumption DEF IssuesOf, Issues, NoIssue
  <2> QED  BY <1>3, <2>1, <2>2, <2>3
<1> QED  BY <1>0, <1>1, <1>2, <1>3, TaskRowMoves

LEMMA DeclarationInvInductive ==
  /\ Init => DeclarationInv
  /\ DeclarationInv /\ [Next]_vars => DeclarationInv'
<1>1. ASSUME Init PROVE DeclarationInv
  <2>1. PermissionInv
    BY <1>1, PermissionInvInductive
  <2>2. StartsAreFresh /\ DeclarationStands
    BY <1>1 DEF Init, StartsAreFresh, DeclarationStands, Issuing, Idle, AbsentIssue
  <2>3. IssuesNameEvidence
    BY <1>1, InputAssumption DEF Init, IssuesNameEvidence, AbsentIssue
  <2>4. CitationsAreTrue
    BY <1>1 DEF Init, CitationsAreTrue, AbsentTask
  <2> QED  BY <2>1, <2>2, <2>3, <2>4 DEF DeclarationInv
<1>2. ASSUME DeclarationInv, Next PROVE DeclarationInv'
  <2>1. PermissionInv'
    BY <1>2, PermissionInvInductive DEF DeclarationInv
  <2>2. StartsAreFresh' /\ IssuesNameEvidence'
    BY <1>2, StartsStep, NamesStep DEF DeclarationInv, PermissionInv
  <2>3. DeclarationStands' /\ CitationsAreTrue'
    BY <1>2, DeclarationStep, CitationStep
  <2> QED  BY <2>1, <2>2, <2>3 DEF DeclarationInv
<1>3. ASSUME DeclarationInv, UNCHANGED vars PROVE DeclarationInv'
  <2>1. PermissionInv'
    BY <1>3, PermissionInvInductive DEF DeclarationInv
  <2>2. StartsAreFresh' /\ IssuesNameEvidence' /\ CitationsAreTrue'
    BY <1>3 DEF vars, DeclarationInv, StartsAreFresh, Issuing, IssuesNameEvidence,
       CitationsAreTrue
  <2>3. DeclarationStands'
    <3>1. \A t \in Tasks : /\ IssuesOf(t)' = IssuesOf(t)
                           /\ BatchesOf(t)' = BatchesOf(t)
      BY <1>3 DEF vars, IssuesOf, BatchesOf
    <3>2. \A t \in Tasks : /\ LatestIssue(t)' = LatestIssue(t)
                           /\ LatestBatch(t)' = LatestBatch(t)
      BY <3>1 DEF LatestIssue, LatestBatch
    <3>3. \A t \in Tasks : NewestAccepted(t)' <=> NewestAccepted(t)
      BY <1>3, <3>2 DEF vars, NewestAccepted
    <3>4. SessionsNameTheirTask'
      BY <2>1 DEF PermissionInv
    <3> SUFFICES ASSUME NEW s \in Sessions, session'[s].at = "declare_gated",
                        NEW t \in Tasks, session'[s].task = t
                 PROVE  /\ session'[s].basis \in {"authorization", "exception"}
                        /\ session'[s].basis = "authorization" =>
                             /\ task'[t].eligibility = "confirmed_eligible"
                             /\ ~task'[t].hold
                             /\ NewestAccepted(t)'
                             /\ LatestIssue(t)' \in IssuesOf(t)'
                             /\ issue'[LatestIssue(t)'].batch = LatestBatch(t)'
                             /\ issue'[LatestIssue(t)'].status # "revoked"
      BY <3>4 DEF DeclarationStands, SessionsNameTheirTask, NewestAccepted, LatestBatch,
         BatchesOf, LatestIssue, IssuesOf
    <3> QED  BY <1>3, <3>1, <3>2, <3>3 DEF vars, DeclarationInv, DeclarationStands
  <2> QED  BY <2>1, <2>2, <2>3 DEF DeclarationInv
<1> QED  BY <1>1, <1>2, <1>3

LEMMA DeclarationInvHolds == Spec => []DeclarationInv
BY DeclarationInvInductive, PTL DEF Spec

(* A task is completed exactly when it carries a declaration, and the      *)
(* evidence under the permission it cites was accepted and stays so,       *)
(* whatever was sent before the closing and written after it               *)
(* (recordDeclaration, submitEvidenceBatch).                               *)
THEOREM DeclarationsRestOnEvidence == Spec => []DeclarationKeepsItsEvidence
<1>1. ASSUME DeclarationInv PROVE DeclarationKeepsItsEvidence
  <2> SUFFICES ASSUME NEW t \in Tasks, task[t].cited # NoIssue
               PROVE  batch[t][issue[task[t].cited].batch].status = "accepted"
    BY <1>1 DEF DeclarationInv, CitationsAreTrue, DeclarationKeepsItsEvidence
  <2>1. task[t] \in TaskRow
    BY <1>1 DEF DeclarationInv, PermissionInv, TypeOK
  <2>2. task[t].cited \in Issues /\ issue[task[t].cited].task = t
    BY <1>1, <2>1 DEF TaskRow, DeclarationInv, CitationsAreTrue
  <2> QED  BY <1>1, <2>2 DEF DeclarationInv, IssuesNameEvidence
<1> QED  BY <1>1, DeclarationInvHolds, PTL

(* A task closes on a permission only while everything the gate asked for  *)
(* still holds, and the permission it cites rests on the newest evidence   *)
(* and was not revoked: whatever commits between the gate and the          *)
(* declaration waits for the row (recordDeclaration).                      *)
THEOREM CompletionIsPermitted == Spec => CompletionNeedsPermission
<1>1. ASSUME DeclarationInv, Next, NEW t \in Tasks,
             task[t].basis = "none", task'[t].basis = "authorization"
      PROVE  /\ task[t].eligibility = "confirmed_eligible"
             /\ ~task[t].hold
             /\ batch[t][LatestBatch(t)].status = "accepted"
             /\ issue[task'[t].cited].batch = LatestBatch(t)
             /\ issue[task'[t].cited].status # "revoked"
  <2>1. PICK s \in Sessions :
          /\ session[s].at = "declare_gated" /\ session[s].task = t
          /\ task'[t].basis = session[s].basis
          /\ task'[t].cited = IF session[s].basis = "authorization"
                              THEN LatestIssue(t) ELSE NoIssue
    BY <1>1, TaskRowMoves DEF DeclarationInv, PermissionInv
  <2> QED  BY <1>1, <2>1 DEF DeclarationInv, DeclarationStands, NewestAccepted
<1>2. DeclarationInv /\ [Next]_vars =>
        [\A t \in Tasks :
           task[t].basis = "none" /\ task'[t].basis = "authorization" =>
             /\ task[t].eligibility = "confirmed_eligible"
             /\ ~task[t].hold
             /\ batch[t][LatestBatch(t)].status = "accepted"
             /\ issue[task'[t].cited].batch = LatestBatch(t)
             /\ issue[task'[t].cited].status # "revoked"]_vars
  BY <1>1
<1> QED  BY <1>2, DeclarationInvHolds, PTL DEF CompletionNeedsPermission, Spec
-----------------------------------------------------------------------------
(* The refinement: what each step does to the stage, the verdict and the   *)
(* permission of each task.                                                *)

(* Who submits has a task, for tasks are never deleted. *)
SubmittersHaveTask ==
  \A s \in Sessions : session[s].at = "submit_gated" => Exists(session[s].task)

PromiseInv == DeclarationInv /\ SubmissionsAreSerial /\ SubmittersHaveTask

LEMMA SubmittersStep ==
  ASSUME TypeOK, SessionsNameTheirTask, SubmittersHaveTask, Next
  PROVE  SubmittersHaveTask'
<1>1. \A t \in Tasks : Exists(t) => task'[t].status # "absent"
  BY RowVersionMoves DEF Exists
<1> SUFFICES ASSUME NEW s \in Sessions, session'[s].at = "submit_gated",
                    NEW t \in Tasks, session'[s].task = t
             PROVE  task'[t].status # "absent"
  BY SessionsStep DEF SubmittersHaveTask, SessionsNameTheirTask, Exists
<1>2. CASE session'[s] = session[s]
  BY <1>1, <1>2 DEF SubmittersHaveTask
<1>3. CASE \E key \in Keys, claims \in Submissions : GateSubmission(s, t, key, claims)
  BY <1>1, <1>3 DEF GateSubmission
<1>4. session'[s] # Idle
  BY DEF Idle
<1> QED  BY <1>2, <1>3, <1>4, SessionMoves

LEMMA PromiseInvHolds == Spec => []PromiseInv
<1>1. Init => SubmittersHaveTask
  BY DEF Init, SubmittersHaveTask, Idle
<1>2. DeclarationInv /\ SubmittersHaveTask /\ [Next]_vars => SubmittersHaveTask'
  <2>1. ASSUME SubmittersHaveTask, UNCHANGED vars PROVE SubmittersHaveTask'
    BY <2>1 DEF vars, SubmittersHaveTask, Exists
  <2> QED  BY <2>1, SubmittersStep DEF DeclarationInv, PermissionInv
<1> QED
  BY <1>1, <1>2, DeclarationInvHolds, SubmissionsStaySerial, PTL DEF Spec, PromiseInv

(* The permissions that rest on the newest batch of a task. *)
Resting(t) == {i \in IssuesOf(t) : issue[i].batch = LatestBatch(t)}

LEMMA PermissionIs ==
  ASSUME NEW t \in Tasks
  PROVE  /\ PermissionOf(t) = IF Resting(t) = {} THEN "none"
                              ELSE IF \E i \in Resting(t) : Live(i) THEN "live" ELSE "ended"
         /\ PermissionOf(t)' = IF Resting(t)' = {} THEN "none"
                               ELSE IF \E i \in Resting(t)' : Live(i)' THEN "live"
                               ELSE "ended"
BY DEF PermissionOf, Resting

LEMMA VerdictIs ==
  ASSUME NEW t \in Tasks
  PROVE  /\ VerdictOn(t) =
              IF LatestBatch(t) = NoBatch THEN "none"
              ELSE IF batch[t][LatestBatch(t)].status = "pending" THEN "pending"
              ELSE IF batch[t][LatestBatch(t)].status = "accepted" THEN "accepted"
              ELSE "refused"
         /\ VerdictOn(t)' =
              IF LatestBatch(t)' = NoBatch THEN "none"
              ELSE IF batch'[t][LatestBatch(t)'].status = "pending" THEN "pending"
              ELSE IF batch'[t][LatestBatch(t)'].status = "accepted" THEN "accepted"
              ELSE "refused"
BY DEF VerdictOn

(* Tasks whose rows a step leaves alone. *)
VerdictKept(t) == VerdictOn(t)' = VerdictOn(t) /\ LatestBatch(t)' = LatestBatch(t)
PermissionKept(t) == PermissionOf(t)' = PermissionOf(t)
StageKept(t) == StageOf(t)' = StageOf(t)

LEMMA SameBatches ==
  ASSUME NEW t \in Tasks, batch'[t] = batch[t]
  PROVE  VerdictKept(t)
<1>1. BatchesOf(t)' = BatchesOf(t)
  BY DEF BatchesOf
<1>2. LatestBatch(t)' = LatestBatch(t)
  BY <1>1 DEF LatestBatch
<1> QED  BY <1>2 DEF VerdictKept, VerdictOn

LEMMA SameIssues ==
  ASSUME NEW t \in Tasks, LatestBatch(t)' = LatestBatch(t),
         \A i \in Issues :
           /\ issue'[i].task = t <=> issue[i].task = t
           /\ issue[i].task = t =>
                /\ issue'[i].batch = issue[i].batch
                /\ issue'[i].status = "active" <=> issue[i].status = "active"
  PROVE  PermissionKept(t)
<1>1. IssuesOf(t)' = IssuesOf(t)
  BY DEF IssuesOf
<1>2. Resting(t)' = Resting(t)
  BY <1>1 DEF Resting, IssuesOf
<1>3. \A i \in Resting(t) : Live(i)' <=> Live(i)
  BY DEF Resting, IssuesOf, Live
<1>4. PermissionOf(t)' = IF Resting(t)' = {} THEN "none"
                         ELSE IF \E i \in Resting(t)' : Live(i)' THEN "live" ELSE "ended"
  BY PermissionIs
<1> QED  BY <1>2, <1>3, <1>4, PermissionIs DEF PermissionKept

LEMMA SameStage ==
  ASSUME NEW t \in Tasks, task'[t].status = task[t].status, task'[t].basis = task[t].basis
  PROVE  StageKept(t)
BY DEF StageKept, StageOf, Exists

LEMMA SameTasks ==
  ASSUME UNCHANGED task PROVE \A t \in Tasks : StageKept(t)
BY DEF StageKept, StageOf, Exists

LEMMA PromiseStutters ==
  ASSUME \A t \in Tasks : StageKept(t) /\ VerdictKept(t) /\ PermissionKept(t)
  PROVE  UNCHANGED Promise!avars
BY DEF StageKept, VerdictKept, PermissionKept, Promise!avars

LEMMA CreateMaps ==
  ASSUME PromiseInv, NEW t \in Tasks, NEW hasIncident \in BOOLEAN,
         CreateTaskForSubmission(t, hasIncident)
  PROVE  Promise!Open(t)
<1>0. TypeOK /\ DeclaredIsCompleted
  BY DEF PromiseInv, DeclarationInv, PermissionInv
<1>1. StageOf(t) = "none"
  BY <1>0 DEF CreateTaskForSubmission, DeclaredIsCompleted, Exists, StageOf
<1>2. StageOf(t)' = "open"
  <2> DEFINE row == [AbsentTask EXCEPT !.status = "open",
                                       !.pinned = Max(OpeningVersions),
                                       !.tokenLive = TRUE,
                                       !.hold = hasIncident]
  <2>1. task'[t] = row
    BY <1>0 DEF CreateTaskForSubmission, TypeOK
  <2>2. row.status = "open" /\ row.basis = "none"
    BY DEF AbsentTask
  <2> QED  BY <2>1, <2>2 DEF StageOf, Exists
<1>3. \A u \in Tasks : u # t => StageKept(u)
  BY <1>0, SameStage DEF CreateTaskForSubmission, TypeOK
<1>4. \A u \in Tasks : VerdictKept(u) /\ PermissionKept(u)
  <2>1. \A u \in Tasks : VerdictKept(u)
    BY SameBatches DEF CreateTaskForSubmission
  <2> QED  BY <2>1, SameIssues DEF CreateTaskForSubmission, VerdictKept
<1> QED
  BY <1>1, <1>2, <1>3, <1>4
  DEF Promise!Open, StageKept, VerdictKept, PermissionKept

LEMMA WithdrawMaps ==
  ASSUME PromiseInv, NEW v \in Instructions, WithdrawInstruction(v)
  PROVE  \E affected \in SUBSET Tasks : Promise!Withdraw(affected)
<1> DEFINE affected == {t \in Tasks : task[t].pinned = v}
           suspended == {i \in Issues : \E t \in Tasks : /\ issue[i].task = t
                                                        /\ task[t].pinned = v}
<1>0. TypeOK
  BY DEF PromiseInv, DeclarationInv, PermissionInv
<1>1. \A t \in Tasks : StageKept(t)
  BY SameTasks DEF WithdrawInstruction
<1>2. ASSUME NEW t \in Tasks, NEW n \in BatchNumbers
      PROVE  batch'[t][n].status = IF t \in affected /\ batch[t][n].status = "pending"
                                   THEN "superseded" ELSE batch[t][n].status
  <2>1. batch[t][n] \in BatchRow
    BY <1>0 DEF TypeOK
  <2>2. [batch[t][n] EXCEPT !.status = "superseded"].status = "superseded"
    BY <2>1 DEF BatchRow
  <2> QED  BY <2>2 DEF WithdrawInstruction
<1>3. \A t \in Tasks : BatchesOf(t)' = BatchesOf(t)
  BY <1>2 DEF BatchesOf
<1>4. \A t \in Tasks : LatestBatch(t)' = LatestBatch(t)
  BY <1>3 DEF LatestBatch
<1>5. ASSUME NEW t \in Tasks
      PROVE  VerdictOn(t)' = IF t \in affected /\ VerdictOn(t) = "pending"
                             THEN "refused" ELSE VerdictOn(t)
  <2>1. CASE LatestBatch(t) = NoBatch
    BY <1>4, <2>1, VerdictIs
  <2>2. CASE LatestBatch(t) # NoBatch
    <3>1. LatestBatch(t) \in BatchNumbers
      BY <2>2, LatestBatchIsOne DEF BatchesOf
    <3>2. batch'[t][LatestBatch(t)].status =
            IF t \in affected /\ batch[t][LatestBatch(t)].status = "pending"
            THEN "superseded" ELSE batch[t][LatestBatch(t)].status
      BY <1>2, <3>1
    <3> HIDE DEF affected
    <3> QED  BY <1>4, <2>2, <3>2, VerdictIs
  <2> QED  BY <2>1, <2>2
<1>6. ASSUME NEW i \in Issues
      PROVE  /\ issue'[i].task = issue[i].task /\ issue'[i].batch = issue[i].batch
             /\ issue'[i].status = "active" <=> Live(i) /\ i \notin suspended
  <2>1. issue[i] \in IssueRow
    BY <1>0 DEF TypeOK
  <2>2. LET row == [issue[i] EXCEPT !.status = "suspended"] IN
        row.status = "suspended" /\ row.task = issue[i].task /\ row.batch = issue[i].batch
    BY <2>1 DEF IssueRow
  <2>3. issue'[i] = IF i \in suspended /\ Live(i)
                    THEN [issue[i] EXCEPT !.status = "suspended"] ELSE issue[i]
    BY DEF WithdrawInstruction, SuspendLive
  <2> QED  BY <2>2, <2>3 DEF Live
<1>7. ASSUME NEW t \in Tasks
      PROVE  PermissionOf(t)' = IF t \in affected /\ PermissionOf(t) = "live"
                                THEN "ended" ELSE PermissionOf(t)
  <2>1. CASE t \notin affected
    <3>1. \A i \in Issues : issue[i].task = t => i \notin suspended
      BY <2>1
    <3>2. PermissionKept(t)
      BY <1>4, <1>6, <3>1, SameIssues DEF Live
    <3> QED  BY <2>1, <3>2 DEF PermissionKept
  <2>2. CASE t \in affected
    <3>1. \A i \in Issues : issue[i].task = t => i \in suspended
      BY <2>2
    <3>2. Resting(t)' = Resting(t)
      BY <1>4, <1>6 DEF Resting, IssuesOf
    <3>3. \A i \in Resting(t)' : ~Live(i)'
      BY <1>6, <3>1, <3>2 DEF Resting, IssuesOf, Live
    <3> HIDE DEF affected
    <3> QED  BY <2>2, <3>2, <3>3, PermissionIs
  <2> QED  BY <2>1, <2>2
<1>8. affected \in SUBSET Tasks
  OBVIOUS
<1> HIDE DEF affected
<1>9. Promise!Withdraw(affected)
  BY <1>1, <1>5, <1>7 DEF Promise!Withdraw, StageKept
<1> QED  BY <1>8, <1>9

LEMMA ReviewMaps ==
  ASSUME PromiseInv, NEW t \in Tasks, NEW n \in BatchNumbers,
         NEW d \in {"accepted", "needs_resubmission"}, ReviewBatch(t, n, d)
  PROVE  \E verdict \in {"accepted", "refused"} : Promise!Decide(t, verdict)
<1>0. TypeOK /\ SubmissionsAreSerial
  BY DEF PromiseInv, DeclarationInv, PermissionInv
<1>1. n = LatestBatch(t) /\ n # NoBatch /\ batch[t][n].status = "pending"
  <2>1. n \in BatchesOf(t) /\ batch[t][n].status = "pending"
    BY DEF ReviewBatch, BatchesOf
  <2> QED  BY <1>0, <2>1, BoundsAssumption
           DEF SubmissionsAreSerial, BatchNumbers, NoBatch
<1>2. batch'[t] = [batch[t] EXCEPT ![n].status = d]
  BY <1>0 DEF ReviewBatch, TypeOK
<1>3. \A m \in BatchNumbers :
        batch'[t][m].status = IF m = n THEN d ELSE batch[t][m].status
  <2>1. batch[t] \in [BatchNumbers -> BatchRow]
    BY <1>0 DEF TypeOK
  <2>2. [batch[t][n] EXCEPT !.status = d].status = d
    BY <2>1 DEF BatchRow
  <2> QED  BY <1>2, <2>1, <2>2
<1>4. BatchesOf(t)' = BatchesOf(t)
  BY <1>1, <1>3 DEF BatchesOf
<1>5. LatestBatch(t)' = LatestBatch(t)
  BY <1>4 DEF LatestBatch
<1>6. VerdictOn(t) = "pending"
  BY <1>1, VerdictIs
<1>7. VerdictOn(t)' = IF d = "accepted" THEN "accepted" ELSE "refused"
  BY <1>1, <1>3, <1>5, VerdictIs
<1>8. \A u \in Tasks : u # t => VerdictKept(u)
  BY <1>0, SameBatches DEF ReviewBatch, TypeOK
<1>9. \A u \in Tasks : StageKept(u) /\ PermissionKept(u)
  <2>1. \A u \in Tasks : LatestBatch(u)' = LatestBatch(u)
    BY <1>5, <1>8 DEF VerdictKept
  <2> QED  BY <2>1, SameIssues, SameTasks DEF ReviewBatch
<1>10. Promise!Decide(t, IF d = "accepted" THEN "accepted" ELSE "refused")
  BY <1>6, <1>7, <1>8, <1>9
  DEF Promise!Decide, StageKept, VerdictKept, PermissionKept
<1> QED  BY <1>10

LEMMA SendMaps ==
  ASSUME PromiseInv, NEW s \in Sessions, WriteBatch(s)
  PROVE  \E t \in Tasks : Promise!Send(t)
<1>0. /\ TypeOK /\ SessionsNameTheirTask /\ IssuesNameEvidence /\ DeclaredIsCompleted
      /\ SubmittersHaveTask
  BY DEF PromiseInv, DeclarationInv, PermissionInv
<1>1. PICK t \in Tasks, n \in BatchNumbers :
        t = session[s].task /\ n = LatestBatch(t) + 1
  BY <1>0 DEF WriteBatch, SessionsNameTheirTask
<1>2. /\ batch[t][n].status = "absent"
      /\ LatestBatch(t)' = n /\ batch'[t][n].status = "pending"
      /\ \A u \in Tasks : u # t => batch'[u] = batch[u]
  BY <1>0, <1>1, BatchWritten
<1>3. n # NoBatch
  BY BoundsAssumption DEF BatchNumbers, NoBatch
<1>4. VerdictOn(t)' = "pending"
  BY <1>2, <1>3, VerdictIs
<1>5. \A u \in Tasks : u # t => VerdictKept(u)
  BY <1>2, SameBatches
<1>6. StageOf(t) # "none"
  <2>1. Exists(t)
    BY <1>0, <1>1 DEF WriteBatch, SubmittersHaveTask
  <2> QED  BY <2>1 DEF StageOf
<1>7. \A u \in Tasks : StageKept(u)
  BY SameTasks DEF WriteBatch
<1>8. ASSUME NEW i \in Issues
      PROVE  /\ issue'[i].task = issue[i].task /\ issue'[i].batch = issue[i].batch
             /\ issue[i].task # t => issue'[i] = issue[i]
  <2>1. issue[i] \in IssueRow
    BY <1>0 DEF TypeOK
  <2>2. LET row == [issue[i] EXCEPT !.status = "suspended"] IN
        row.task = issue[i].task /\ row.batch = issue[i].batch
    BY <2>1 DEF IssueRow
  <2>3. issue'[i] = IF i \in IssuesOf(t) /\ Live(i)
                    THEN [issue[i] EXCEPT !.status = "suspended"] ELSE issue[i]
    BY <1>1 DEF WriteBatch, SuspendLive
  <2> QED  BY <2>2, <2>3 DEF IssuesOf
<1>9. PermissionOf(t)' = "none"
  <2>1. \A i \in Issues : issue[i].task = t => issue[i].batch # n
    BY <1>0, <1>2 DEF IssuesNameEvidence
  <2>2. Resting(t)' = {}
    BY <1>2, <1>8, <2>1 DEF Resting, IssuesOf
  <2> QED  BY <2>2, PermissionIs
<1>10. \A u \in Tasks : u # t => PermissionKept(u)
  BY <1>5, <1>8, SameIssues DEF VerdictKept
<1>11. Promise!Send(t)
  BY <1>4, <1>5, <1>6, <1>7, <1>9, <1>10
  DEF Promise!Send, StageKept, VerdictKept, PermissionKept
<1> QED  BY <1>11

LEMMA PermitMaps ==
  ASSUME PromiseInv, NEW s \in Sessions, WriteIssue(s)
  PROVE  \E t \in Tasks : Promise!Permit(t)
<1>0. /\ TypeOK /\ SessionsNameTheirTask /\ IssuesNameEvidence /\ StartsAreFresh
      /\ DeclaredIsCompleted /\ GateStands
  BY DEF PromiseInv, DeclarationInv, PermissionInv
<1>1. PICK t \in Tasks, k \in Issues : t = session[s].task /\ k = session[s].start
  BY <1>0, IssueWritten
<1>2. /\ issue'[k].status = "active" /\ issue'[k].task = t
      /\ issue'[k].batch = LatestBatch(t)
      /\ \A i \in Issues : i # k => issue'[i] = issue[i]
  BY <1>0, <1>1, IssueWritten
<1>3. issue[k].task = Null
  <2>1. issue[k].status = "absent"
    BY <1>0, <1>1, IssueWritten DEF StartsAreFresh
  <2> QED  BY <1>0, <2>1 DEF IssuesNameEvidence
<1>4. task[t].status = "open" /\ NewestAccepted(t) /\ ~Permitted(t, LatestBatch(t))
  BY <1>0, <1>1 DEF GateStands, WriteIssue
<1>5. StageOf(t) = "open"
  <2>1. task[t].basis = "none"
    BY <1>0, <1>4 DEF DeclaredIsCompleted
  <2> QED  BY <1>4, <2>1 DEF StageOf, Exists
<1>6. VerdictOn(t) = "accepted"
  <2>1. LatestBatch(t) # NoBatch
    BY <1>4, BoundsAssumption DEF NewestAccepted, BatchNumbers, NoBatch
  <2> QED  BY <1>4, <2>1, VerdictIs DEF NewestAccepted
<1>7. PermissionOf(t) # "live"
  <2>1. \A i \in Resting(t) : ~Live(i)
    BY <1>4 DEF Resting, Permitted
  <2> QED  BY <2>1, PermissionIs
<1>8. \A u \in Tasks : StageKept(u) /\ VerdictKept(u)
  <2>1. \A u \in Tasks : VerdictKept(u)
    BY SameBatches DEF WriteIssue
  <2> QED  BY <2>1, SameTasks DEF WriteIssue
<1>9. PermissionOf(t)' = "live"
  <2>1. LatestBatch(t)' = LatestBatch(t)
    BY <1>8 DEF VerdictKept
  <2>2. k \in Resting(t)' /\ Live(k)'
    BY <1>2, <2>1 DEF Resting, IssuesOf, Live
  <2> QED  BY <2>2, PermissionIs
<1>10. ASSUME NEW u \in Tasks, u # t PROVE PermissionKept(u)
  <2>1. LatestBatch(u)' = LatestBatch(u)
    BY <1>8 DEF VerdictKept
  <2>2. \A i \in Issues :
          /\ issue'[i].task = u <=> issue[i].task = u
          /\ issue[i].task = u => issue'[i] = issue[i]
    BY <1>2, <1>3, <1>10, InputAssumption
  <2> QED  BY <2>1, <2>2, SameIssues
<1>11. Promise!Permit(t)
  BY <1>5, <1>6, <1>7, <1>8, <1>9, <1>10
  DEF Promise!Permit, StageKept, VerdictKept, PermissionKept
<1> QED  BY <1>11

(* What is revoked may be suspended already: then nothing is seen of it. *)
LEMMA RevokeMaps ==
  ASSUME PromiseInv, NEW t \in Tasks, RevokeAuthorization(t)
  PROVE  Promise!Retire(t) \/ UNCHANGED Promise!avars
<1>0. TypeOK /\ LivePermissionRestsOnAcceptedEvidence /\ OneLivePermission
  BY DEF PromiseInv, DeclarationInv, PermissionInv
<1>1. PICK k \in Issues : k = LatestIssue(t) /\ k \in IssuesOf(t)
  BY LatestIssueIsOne DEF RevokeAuthorization, IssuesOf
<1>2. /\ issue'[k].status = "revoked"
      /\ issue'[k].task = issue[k].task /\ issue'[k].batch = issue[k].batch
      /\ \A i \in Issues : i # k => issue'[i] = issue[i]
  <2>1. issue[k] \in IssueRow
    BY <1>0 DEF TypeOK
  <2>2. /\ issue'[k] = [issue[k] EXCEPT !.status = "revoked"]
        /\ \A i \in Issues : i # k => issue'[i] = issue[i]
    BY <1>0, <1>1 DEF RevokeAuthorization, TypeOK
  <2> QED  BY <2>1, <2>2 DEF IssueRow
<1>3. \A u \in Tasks : StageKept(u) /\ VerdictKept(u)
  <2>1. \A u \in Tasks : VerdictKept(u)
    BY SameBatches DEF RevokeAuthorization
  <2> QED  BY <2>1, SameTasks DEF RevokeAuthorization
<1>4. \A u \in Tasks : LatestBatch(u)' = LatestBatch(u)
  BY <1>3 DEF VerdictKept
<1>5. \A u \in Tasks : u # t => PermissionKept(u)
  <2>1. issue[k].task = t
    BY <1>1 DEF IssuesOf
  <2> QED  BY <1>2, <1>4, <2>1, SameIssues
<1>6. CASE Live(k)
  <2>1. k \in Resting(t)
    BY <1>0, <1>1, <1>6 DEF LivePermissionRestsOnAcceptedEvidence, Resting
  <2>2. PermissionOf(t) = "live"
    BY <1>6, <2>1, PermissionIs
  <2>3. Resting(t)' = Resting(t)
    BY <1>2, <1>4 DEF Resting, IssuesOf
  <2>4. \A i \in Resting(t) : ~Live(i)'
    BY <1>0, <1>1, <1>2, <1>6 DEF OneLivePermission, Resting, IssuesOf, Live
  <2>5. PermissionOf(t)' = "ended"
    BY <2>1, <2>3, <2>4, PermissionIs
  <2>6. Promise!Retire(t)
    BY <1>3, <1>5, <2>2, <2>5
    DEF Promise!Retire, StageKept, VerdictKept, PermissionKept
  <2> QED  BY <2>6
<1>7. CASE ~Live(k)
  <2>1. \A u \in Tasks : PermissionKept(u)
    BY <1>2, <1>4, <1>7, SameIssues DEF Live
  <2> QED  BY <1>3, <2>1, PromiseStutters
<1> QED  BY <1>6, <1>7

LEMMA DeclareMaps ==
  ASSUME PromiseInv, NEW s \in Sessions, WriteDeclaration(s)
  PROVE  \E t \in Tasks : Promise!Complete(t) \/ Promise!Except(t)
<1>0. /\ TypeOK /\ SessionsNameTheirTask /\ GateStands /\ DeclarationStands
  BY DEF PromiseInv, DeclarationInv, PermissionInv
<1>1. PICK t \in Tasks : t = session[s].task
  BY <1>0 DEF WriteDeclaration, SessionsNameTheirTask
<1>2. StageOf(t) = "open"
  BY <1>0, <1>1 DEF WriteDeclaration, GateStands, StageOf
<1>3. task'[t].basis = session[s].basis
  <2>1. task'[t] = Closed(t, session[s].basis) /\ task[t] \in TaskRow
    BY <1>0, <1>1 DEF WriteDeclaration, TypeOK
  <2> QED  BY <2>1 DEF Closed, TaskRow
<1>4. \A u \in Tasks : u # t => StageKept(u)
  BY <1>0, <1>1, SameStage DEF WriteDeclaration, TypeOK
<1>5. \A u \in Tasks : VerdictKept(u) /\ PermissionKept(u)
  <2>1. \A u \in Tasks : VerdictKept(u)
    BY SameBatches DEF WriteDeclaration
  <2> QED  BY <2>1, SameIssues DEF WriteDeclaration, VerdictKept
<1>6. session[s].basis \in {"authorization", "exception"}
  BY <1>0 DEF WriteDeclaration, DeclarationStands
<1>7. CASE session[s].basis = "exception"
  <2>1. StageOf(t)' = "excepted"
    BY <1>3, <1>7 DEF StageOf
  <2>2. Promise!Except(t)
    BY <1>2, <1>4, <1>5, <2>1
    DEF Promise!Except, StageKept, VerdictKept, PermissionKept
  <2> QED  BY <2>2
<1>8. CASE session[s].basis = "authorization"
  <2>1. StageOf(t)' = "permitted"
    BY <1>3, <1>8 DEF StageOf
  <2>2. NewestAccepted(t) /\ LatestIssue(t) \in Resting(t)
    BY <1>0, <1>1, <1>8 DEF WriteDeclaration, DeclarationStands, Resting
  <2>3. VerdictOn(t) = "accepted"
    <3>1. LatestBatch(t) # NoBatch
      BY <2>2, BoundsAssumption DEF NewestAccepted, BatchNumbers, NoBatch
    <3> QED  BY <2>2, <3>1, VerdictIs DEF NewestAccepted
  <2>4. PermissionOf(t) # "none"
    BY <2>2, PermissionIs
  <2>5. Promise!Complete(t)
    BY <1>2, <1>4, <1>5, <2>1, <2>3, <2>4
    DEF Promise!Complete, StageKept, VerdictKept, PermissionKept
  <2> QED  BY <2>5
<1> QED  BY <1>6, <1>7, <1>8

(* Everything else is not seen from outside. *)
LEMMA OthersStutter ==
  ASSUME PromiseInv, Next,
         \A t \in Tasks, hasIncident \in BOOLEAN : ~CreateTaskForSubmission(t, hasIncident),
         \A v \in Instructions : ~WithdrawInstruction(v),
         \A t \in Tasks, n \in BatchNumbers, d \in {"accepted", "needs_resubmission"} :
           ~ReviewBatch(t, n, d),
         \A t \in Tasks : ~RevokeAuthorization(t),
         \A s \in Sessions : ~WriteBatch(s) /\ ~WriteIssue(s) /\ ~WriteDeclaration(s)
  PROVE  UNCHANGED Promise!avars
<1>1. UNCHANGED <<batch, issue>>
  BY BatchWriters, IssueWriters
<1>2. \A t \in Tasks : StageKept(t)
  BY TaskRowMoves, SameStage DEF PromiseInv, DeclarationInv, PermissionInv
<1>3. \A t \in Tasks : VerdictKept(t)
  BY <1>1, SameBatches
<1>4. \A t \in Tasks : PermissionKept(t)
  BY <1>1, <1>3, SameIssues DEF VerdictKept
<1> QED  BY <1>2, <1>3, <1>4, PromiseStutters

(* The service implements DisposalPermission: whatever overlaps, evidence  *)
(* is judged once, only accepted evidence carries a permission, new        *)
(* evidence drops it, and a task closes once (the whole of                 *)
(* drizzle-disposal-service.ts).                                           *)
THEOREM ServiceKeepsPromise == Spec => KeepsPromise
<1>1. ASSUME Init PROVE Promise!AInit
  <2>1. TypeOK
    BY <1>1, InitTypeOK
  <2> SUFFICES ASSUME NEW t \in Tasks
               PROVE  StageOf(t) = "none" /\ VerdictOn(t) = "none" /\ PermissionOf(t) = "none"
    BY DEF Promise!AInit
  <2>2. StageOf(t) = "none"
    BY <1>1 DEF Init, StageOf, Exists, AbsentTask
  <2>3. LatestBatch(t) = NoBatch
    <3>1. BatchesOf(t) = {}
      BY <1>1 DEF Init, BatchesOf, AbsentBatch
    <3> QED  BY <3>1, LatestBatchIsOne
  <2>4. Resting(t) = {}
    BY <1>1, InputAssumption DEF Init, Resting, IssuesOf, AbsentIssue
  <2> QED  BY <2>2, <2>3, <2>4, VerdictIs, PermissionIs
<1>2. ASSUME PromiseInv, Next PROVE [Promise!ANext]_(Promise!avars)
  <2>1. CASE \E t \in Tasks, hasIncident \in BOOLEAN :
               CreateTaskForSubmission(t, hasIncident)
    BY <1>2, <2>1, CreateMaps DEF Promise!ANext
  <2>2. CASE \E v \in Instructions : WithdrawInstruction(v)
    BY <1>2, <2>2, WithdrawMaps DEF Promise!ANext
  <2>3. CASE \E t \in Tasks, n \in BatchNumbers, d \in {"accepted", "needs_resubmission"} :
               ReviewBatch(t, n, d)
    BY <1>2, <2>3, ReviewMaps DEF Promise!ANext
  <2>4. CASE \E t \in Tasks : RevokeAuthorization(t)
    BY <1>2, <2>4, RevokeMaps DEF Promise!ANext
  <2>5. CASE \E s \in Sessions : WriteBatch(s)
    BY <1>2, <2>5, SendMaps DEF Promise!ANext
  <2>6. CASE \E s \in Sessions : WriteIssue(s)
    BY <1>2, <2>6, PermitMaps DEF Promise!ANext
  <2>7. CASE \E s \in Sessions : WriteDeclaration(s)
    BY <1>2, <2>7, DeclareMaps DEF Promise!ANext
  <2> QED
    BY <1>2, <2>1, <2>2, <2>3, <2>4, <2>5, <2>6, <2>7, OthersStutter
<1>3. ASSUME UNCHANGED vars PROVE UNCHANGED Promise!avars
  <2>1. \A t \in Tasks : StageKept(t) /\ VerdictKept(t)
    BY <1>3, SameTasks, SameBatches DEF vars
  <2>2. \A t \in Tasks : PermissionKept(t)
    BY <1>3, <2>1, SameIssues DEF vars, VerdictKept
  <2> QED  BY <2>1, <2>2, PromiseStutters
<1>4. PromiseInv /\ [Next]_vars => [Promise!ANext]_(Promise!avars)
  BY <1>2, <1>3
<1> QED
  BY <1>1, <1>4, PromiseInvHolds, PTL DEF Spec, KeepsPromise, Promise!ASpec
=============================================================================
