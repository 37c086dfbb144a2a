--------------------------- MODULE DisposalProofs ---------------------------
(***************************************************************************)
(* Theorems about module Disposal, for every value of its constants: its    *)
(* types, and which permissions it lets live.                              *)
(***************************************************************************)
EXTENDS Disposal, DisposalCoverageProofs

(* The newest batch and the newest permission of a task are rows of it, if *)
(* it has any.                                                             *)
LEMMA LatestBatchIsOne ==
  ASSUME NEW t \in Tasks
  PROVE  /\ LatestBatch(t) \in {NoBatch} \cup BatchesOf(t)
         /\ LatestBatch(t) \in Nat
         /\ \A n \in BatchesOf(t) : n <= LatestBatch(t)
<1> DEFINE S == {NoBatch} \cup BatchesOf(t)
<1>1. S \in SUBSET (0..MaxBatches) /\ S # {} /\ MaxBatches \in Nat
  BY BoundsAssumption DEF BatchesOf, BatchNumbers, NoBatch
<1>2. Max(S) \in S /\ \A x \in S : Max(S) >= x
  <2> HIDE DEF S
  <2> QED  BY <1>1, MaxOfBounded
<1>3. LatestBatch(t) = Max(S)
  BY DEF LatestBatch
<1> QED  BY <1>1, <1>2, <1>3

LEMMA LatestIssueIsOne ==
  ASSUME NEW t \in Tasks
  PROVE  /\ LatestIssue(t) \in {NoIssue} \cup IssuesOf(t)
         /\ LatestIssue(t) \in {NoIssue} \cup Issues
<1> DEFINE S == {NoIssue} \cup IssuesOf(t)
<1>1. S \in SUBSET (0..MaxIssues) /\ S # {} /\ MaxIssues \in Nat
  BY BoundsAssumption DEF IssuesOf, Issues, NoIssue
<1>2. Max(S) \in S
  <2> HIDE DEF S
  <2> QED  BY <1>1, MaxOfBounded
<1>3. LatestIssue(t) = Max(S)
  BY DEF LatestIssue
<1> QED  BY <1>2, <1>3 DEF IssuesOf

-----------------------------------------------------------------------------
(* Type correctness.                                                       *)

(* What the type of a session alone does not say: a transaction knows its  *)
(* task, and one that issues knows when it began.                          *)
SessionsNameTheirTask ==
  \A s \in Sessions :
    /\ session[s].at # "idle" => session[s].task \in Tasks
    /\ session[s].at \in {"issue_begun", "issue_gated"} => session[s].start \in Issues

LEMMA InitTypeOK == Init => TypeOK
<1> SUFFICES ASSUME Init PROVE TypeOK
  OBVIOUS
<1>1. AbsentTask \in TaskRow
  BY BoundsAssumption, CoverageAssumption
  DEF AbsentTask, TaskRow, TaskStatuses, EligibilityStatuses, Bases, NoIssue,
      Unconfirmed
<1>2. AbsentBatch \in BatchRow
  BY DEF AbsentBatch, BatchRow
<1>3. AbsentIssue \in IssueRow
  BY DEF AbsentIssue, IssueRow
<1>4. Idle \in Session
  BY BoundsAssumption
  DEF Idle, Session, NothingSeen, Bases, EligibilityStatuses, NoIssue
<1> QED
  BY <1>1, <1>2, <1>3, <1>4, BoundsAssumption DEF Init, TypeOK

(* Suspending permissions changes their status only. *)
LEMMA SuspendType ==
  ASSUME issue \in [Issues -> IssueRow], NEW chosen, SuspendLive(chosen)
  PROVE  issue' \in [Issues -> IssueRow]
BY DEF SuspendLive, IssueRow, AuthorizationStatuses

LEMMA AuthoringTypeOK ==
  ASSUME TypeOK, Authoring PROVE TypeOK'
<1>1. ASSUME NEW v \in Instructions, CreateInstructionVersion(v) PROVE TypeOK'
  BY <1>1 DEF CreateInstructionVersion, TypeOK, InstructionStatuses
<1>2. ASSUME NEW v \in Instructions, PublishInstructionVersion(v) PROVE TypeOK'
  BY <1>2 DEF PublishInstructionVersion, TypeOK, InstructionStatuses
<1>3. ASSUME NEW v \in Instructions, WithdrawInstruction(v) PROVE TypeOK'
  <2>1. issue' \in [Issues -> IssueRow]
    BY <1>3, SuspendType DEF WithdrawInstruction, TypeOK
  <2>2. batch' \in [Tasks -> [BatchNumbers -> BatchRow]]
    <3>1. \A t \in Tasks, n \in BatchNumbers : batch[t][n] \in BatchRow
      BY DEF TypeOK
    <3>2. \A row \in BatchRow : [row EXCEPT !.status = "superseded"] \in BatchRow
      BY DEF BatchRow, BatchReviewStatuses
    <3> QED  BY <1>3, <3>1, <3>2 DEF WithdrawInstruction
  <2>3. instruction' \in [Instructions -> InstructionStatuses \cup {"absent"}]
    BY <1>3 DEF WithdrawInstruction, TypeOK, InstructionStatuses
  <2> QED  BY <1>3, <2>1, <2>2, <2>3 DEF WithdrawInstruction, TypeOK
<1>4. ASSUME NEW v \in Instructions, NEW a \in Approvals,
             RecordInstructionApproval(v, a)
      PROVE  TypeOK'
  BY <1>4, InputAssumption DEF RecordInstructionApproval, TypeOK
<1>5. ASSUME AdvanceTime PROVE TypeOK'
  BY <1>5, BoundsAssumption DEF AdvanceTime, TypeOK
<1> QED  BY <1>1, <1>2, <1>3, <1>4, <1>5 DEF Authoring

LEMMA TaskStepsTypeOK ==
  ASSUME TypeOK, NEW t \in Tasks, TaskSteps(t) PROVE TypeOK'
<1>0. task[t] \in TaskRow
  BY DEF TypeOK
<1>1. ASSUME NEW hasIncident \in BOOLEAN, CreateTaskForSubmission(t, hasIncident)
      PROVE  TypeOK'
  <2>1. OpeningVersions \in SUBSET (0..MaxInstructions) /\ OpeningVersions # {}
    BY <1>1, BoundsAssumption
    DEF CreateTaskForSubmission, OpeningVersions, Instructions
  <2>2. Max(OpeningVersions) \in Instructions
    BY <2>1, MaxOfBounded, BoundsAssumption DEF OpeningVersions
  <2>. DEFINE none == [p \in Products |-> Unconfirmed]
  <2>4. none \in [Products -> 0..MaxQuantity]
    BY CoverageAssumption DEF Unconfirmed
  <2>5. AbsentTask.confirmed = none
    BY DEF AbsentTask
  <2>6. AbsentTask \in TaskRow
    <3> HIDE DEF none
    <3>1. AbsentTask = [status |-> "absent", eligibility |-> "pending_confirmation",
                        version |-> 1, pinned |-> 0, tokenLive |-> FALSE,
                        hold |-> FALSE, confirmed |-> none,
                        basis |-> "none", cited |-> NoIssue]
      BY DEF AbsentTask, none
    <3> QED
      BY <2>4, <3>1, BoundsAssumption
      DEF TaskRow, TaskStatuses, EligibilityStatuses, Bases, NoIssue
  <2>3. [AbsentTask EXCEPT !.status = "open", !.pinned = Max(OpeningVersions),
                           !.tokenLive = TRUE, !.hold = hasIncident] \in TaskRow
    BY <2>2, <2>6 DEF TaskRow, TaskStatuses
  <2> QED  BY <1>1, <2>3 DEF CreateTaskForSubmission, TypeOK
<1>2. ASSUME ExpireToken(t) PROVE TypeOK'
  BY <1>0, <1>2 DEF ExpireToken, TypeOK, TaskRow
<1>3. ASSUME NEW p \in Products, NEW q \in Quantities,
             ConfirmProductAffected(t, p, q)
      PROVE  TypeOK'
  <2>1. q \in 0..MaxQuantity
    BY CoverageAssumption DEF Quantities
  <2>2. [task[t] EXCEPT !.confirmed[p] = q] \in TaskRow
    <3>1. [task[t].confirmed EXCEPT ![p] = q] \in [Products -> 0..MaxQuantity]
      BY <1>0, <2>1 DEF TaskRow
    <3> QED  BY <1>0, <3>1 DEF TaskRow
  <2> QED  BY <1>3, <2>2 DEF ConfirmProductAffected, TypeOK
<1>4. ASSUME PlaceHold(t) PROVE TypeOK'
  BY <1>0, <1>4 DEF PlaceHold, TypeOK, TaskRow
<1>5. ASSUME ReleaseHold(t) PROVE TypeOK'
  BY <1>0, <1>5 DEF ReleaseHold, TypeOK, TaskRow
<1>6. ASSUME NEW n \in BatchNumbers, NEW d \in {"accepted", "needs_resubmission"},
             ReviewBatch(t, n, d)
      PROVE  TypeOK'
  <2>1. [batch[t][n] EXCEPT !.status = d] \in BatchRow
    <3>1. batch[t][n] \in BatchRow
      BY DEF TypeOK
    <3> QED  BY <3>1 DEF BatchRow, BatchReviewStatuses
  <2>2. batch' \in [Tasks -> [BatchNumbers -> BatchRow]]
    BY <1>6, <2>1 DEF ReviewBatch, TypeOK
  <2> QED  BY <1>6, <2>2 DEF ReviewBatch, TypeOK
<1>7. ASSUME RevokeAuthorization(t) PROVE TypeOK'
  BY <1>7 DEF RevokeAuthorization, TypeOK, IssueRow, AuthorizationStatuses
<1> QED  BY <1>1, <1>2, <1>3, <1>4, <1>5, <1>6, <1>7 DEF TaskSteps

LEMMA SessionStepsTypeOK ==
  ASSUME TypeOK, SessionsNameTheirTask, NEW s \in Sessions, SessionSteps(s)
  PROVE  TypeOK'
<1>0. session[s] \in Session /\ Idle \in Session
  BY BoundsAssumption
  DEF TypeOK, Idle, Session, NothingSeen, Bases, EligibilityStatuses, NoIssue
<1>a. (session' = [session EXCEPT ![s] = Idle]) => session' \in [Sessions -> Session]
  BY <1>0 DEF TypeOK
<1>b. \A entry \in Session : Enter(s, entry) => session' \in [Sessions -> Session]
  BY DEF TypeOK, Enter
<1>1. ASSUME NEW t \in Tasks, OpenEligibilityPage(s, t) PROVE TypeOK'
  <2>1. task[t] \in TaskRow
    BY DEF TypeOK
  <2>2. [Idle EXCEPT !.at = "eligibility_page", !.task = t,
                     !.seen = [version |-> task[t].version,
                               status |-> task[t].status,
                               eligibility |-> task[t].eligibility]] \in Session
    <3> DEFINE seen == [version |-> task[t].version, status |-> task[t].status,
                        eligibility |-> task[t].eligibility]
    <3>1. seen \in [version : Nat,
                    status : TaskStatuses \cup {"absent"},
                    eligibility : EligibilityStatuses]
      <4>1. /\ task[t].version \in Nat \ {0}
            /\ task[t].status \in TaskStatuses \cup {"absent"}
            /\ task[t].eligibility \in EligibilityStatuses
        BY <2>1 DEF TaskRow
      <4>2. task[t].version \in Nat
        BY <4>1
      <4> QED  BY <4>1, <4>2
    <3> HIDE DEF seen
    <3>2. [Idle EXCEPT !.at = "eligibility_page", !.task = t, !.seen = seen]
            \in Session
      BY <1>0, <3>1 DEF Session
    <3> QED  BY <3>2 DEF seen
  <2> QED  BY <1>1, <1>b, <2>2 DEF OpenEligibilityPage, TypeOK
<1>2. ASSUME NEW t \in Tasks, BeginIssue(s, t) PROVE TypeOK'
  <2>1. begun + 1 \in Issues
    BY <1>2, BoundsAssumption DEF BeginIssue, TypeOK, Issues
  <2>2. [Idle EXCEPT !.at = "issue_begun", !.task = t, !.start = begun + 1] \in Session
    BY <1>0, <2>1 DEF Session
  <2> QED  BY <1>2, <1>b, <2>1, <2>2, BoundsAssumption DEF BeginIssue, TypeOK, Issues
<1>3. ASSUME NEW t \in Tasks, NEW key \in Keys, NEW claims \in Submissions,
             GateSubmission(s, t, key, claims)
      PROVE  TypeOK'
  <2>1. [Idle EXCEPT !.at = "submit_gated", !.task = t, !.key = key,
                     !.claims = claims] \in Session
    BY <1>0, InputAssumption DEF Session
  <2> QED  BY <1>3, <1>b, <2>1 DEF GateSubmission, TypeOK
<1>4. ASSUME NEW t \in Tasks, NEW basis \in {"authorization", "exception"},
             GateDeclaration(s, t, basis)
      PROVE  TypeOK'
  <2>1. [Idle EXCEPT !.at = "declare_gated", !.task = t, !.basis = basis] \in Session
    BY <1>0 DEF Session, Bases
  <2> QED  BY <1>4, <1>b, <2>1 DEF GateDeclaration, TypeOK
<1>5. ASSUME NEW d \in EligibilityStatuses, ConfirmEligibility(s, d) PROVE TypeOK'
  <2> DEFINE t == session[s].task
  <2>1. t \in Tasks
    BY <1>5 DEF SessionsNameTheirTask, ConfirmEligibility
  <2>2. task[t] \in TaskRow /\ task[t].version + 1 \in Nat \ {0}
    <3>1. task[t] \in TaskRow
      BY <2>1 DEF TypeOK
    <3>2. task[t].version \in Nat \ {0}
      BY <3>1 DEF TaskRow
    <3> QED  BY <3>1, <3>2
  <2>3. [task[t] EXCEPT !.eligibility = d, !.version = @ + 1] \in TaskRow
    BY <2>2 DEF TaskRow
  <2>4. task' \in [Tasks -> TaskRow]
    <3>1. task' = [task EXCEPT ![t] = [task[t] EXCEPT !.eligibility = d,
                                                      !.version = @ + 1]]
      BY <1>5, <2>1 DEF ConfirmEligibility, TypeOK
    <3> HIDE DEF t
    <3> QED  BY <2>3, <3>1 DEF TypeOK
  <2> QED  BY <1>5, <1>a, <2>4 DEF ConfirmEligibility, Leave, TypeOK
<1>6. ASSUME WriteBatch(s) PROVE TypeOK'
  <2> DEFINE t == session[s].task
             n == LatestBatch(t) + 1
             new == [status |-> "pending", key |-> session[s].key,
                     claims |-> session[s].claims]
  <2>1. new \in BatchRow
    BY <1>0 DEF Session, BatchRow, BatchReviewStatuses
  <2>2. \A u \in Tasks, m \in BatchNumbers : batch[u][m] \in BatchRow
    BY DEF TypeOK
  <2>3. \A row \in BatchRow : [row EXCEPT !.status = "superseded"] \in BatchRow
    BY DEF BatchRow, BatchReviewStatuses
  <2> DEFINE rows == [m \in BatchNumbers |->
                IF m = n THEN new
                ELSE IF batch[t][m].status \in Replaced
                     THEN [batch[t][m] EXCEPT !.status = "superseded"]
                     ELSE batch[t][m]]
  <2>4. batch' = [batch EXCEPT ![t] = rows]
    BY <1>6 DEF WriteBatch
  <2>5. t \in Tasks => rows \in [BatchNumbers -> BatchRow]
    BY <2>1, <2>2, <2>3
  <2>6. batch' \in [Tasks -> [BatchNumbers -> BatchRow]]
    <3> HIDE DEF rows, t
    <3> QED  BY <2>4, <2>5 DEF TypeOK
  <2>7. issue' \in [Issues -> IssueRow]
    BY <1>6, SuspendType DEF WriteBatch, TypeOK
  <2> QED  BY <1>6, <1>a, <2>6, <2>7 DEF WriteBatch, Leave, TypeOK
<1>7. ASSUME ReplayBatch(s) PROVE TypeOK'
  BY <1>7, <1>a DEF ReplayBatch, Leave, TypeOK
<1>8. ASSUME GateIssue(s) PROVE TypeOK'
  <2>1. [session[s] EXCEPT !.at = "issue_gated"] \in Session
    BY <1>0 DEF Session
  <2> QED  BY <1>8, <1>b, <2>1 DEF GateIssue, TypeOK
<1>9. ASSUME WriteIssue(s) PROVE TypeOK'
  <2> DEFINE t == session[s].task
             n == LatestBatch(t)
             items == CoverageFor(batch[t][n].claims, task[t].confirmed)
             new == [status |-> "active", task |-> t, batch |-> n, items |-> items]
  <2>1. t \in Tasks /\ session[s].start \in Issues
    BY <1>9 DEF SessionsNameTheirTask, WriteIssue
  <2>2. n \in BatchNumbers
    BY <1>9, <2>1, LatestBatchIsOne DEF WriteIssue, BatchesOf
  <2>3. items \subseteq CoveredItem
    <3>1. batch[t][n].claims \in SUBSET Claim
      <4>1. batch[t][n] \in BatchRow
        BY <2>1, <2>2 DEF TypeOK
      <4> QED  BY <4>1 DEF BatchRow
    <3>2. task[t].confirmed \in [Products -> 0..MaxQuantity]
      BY <2>1 DEF TypeOK, TaskRow
    <3> QED  BY <3>1, <3>2, CoverageWithinConfirmed
  <2>4. new \in IssueRow
    <3> HIDE DEF items, n, t
    <3> QED  BY <2>1, <2>2, <2>3 DEF IssueRow, AuthorizationStatuses
  <2>5. issue' = [issue EXCEPT ![session[s].start] = new]
    BY <1>9 DEF WriteIssue
  <2>6. issue' \in [Issues -> IssueRow]
    <3> HIDE DEF new
    <3> QED  BY <2>1, <2>4, <2>5 DEF TypeOK
  <2> QED  BY <1>9, <1>a, <2>6 DEF WriteIssue, Leave, TypeOK
<1>10. ASSUME WriteDeclaration(s) PROVE TypeOK'
  <2> DEFINE t == session[s].task
             basis == session[s].basis
  <2>1. t \in Tasks
    BY <1>10 DEF SessionsNameTheirTask, WriteDeclaration
  <2>2. task[t] \in TaskRow /\ task[t].version + 1 \in Nat \ {0}
    <3>1. task[t] \in TaskRow
      BY <2>1 DEF TypeOK
    <3>2. task[t].version \in Nat \ {0}
      BY <3>1 DEF TaskRow
    <3> QED  BY <3>1, <3>2
  <2>3. basis \in Bases
    BY <1>0 DEF Session
  <2>4. LatestIssue(t) \in {NoIssue} \cup Issues
    BY <2>1, LatestIssueIsOne
  <2>5. Closed(t, basis) \in TaskRow
    <3> DEFINE cited == IF basis = "authorization" THEN LatestIssue(t) ELSE NoIssue
    <3>1. cited \in {NoIssue} \cup Issues
      BY <2>4
    <3> HIDE DEF cited, t, basis
    <3>2. [task[t] EXCEPT !.status = "completed", !.basis = basis,
                          !.version = @ + 1, !.cited = cited] \in TaskRow
      BY <2>2, <2>3, <3>1 DEF TaskRow, TaskStatuses
    <3> QED  BY <3>2 DEF Closed, cited
  <2>6. task' = [task EXCEPT ![t] = Closed(t, basis)]
    BY <1>10 DEF WriteDeclaration
  <2>7. task' \in [Tasks -> TaskRow]
    <3> HIDE DEF t, basis
    <3> QED  BY <2>1, <2>5, <2>6 DEF TypeOK
  <2> QED  BY <1>10, <1>a, <2>7 DEF WriteDeclaration, Leave, TypeOK
<1>11. ASSUME Abort(s) PROVE TypeOK'
  BY <1>11, <1>a DEF Abort, Leave, TypeOK
<1> QED
  BY <1>1, <1>2, <1>3, <1>4, <1>5, <1>6, <1>7, <1>8, <1>9, <1>10, <1>11
  DEF SessionSteps

LEMMA SessionsStep ==
  ASSUME TypeOK, SessionsNameTheirTask, Next PROVE SessionsNameTheirTask'
<1>0. \A s \in Sessions : session[s] \in Session
  BY DEF TypeOK
<1>1. CASE Authoring
  BY <1>1 DEF SessionsNameTheirTask, Authoring, CreateInstructionVersion,
     PublishInstructionVersion, WithdrawInstruction, RecordInstructionApproval,
     AdvanceTime
<1>2. ASSUME NEW t \in Tasks, TaskSteps(t) PROVE SessionsNameTheirTask'
  BY <1>2 DEF SessionsNameTheirTask, TaskSteps, CreateTaskForSubmission, ExpireToken,
     ConfirmProductAffected, PlaceHold, ReleaseHold, ReviewBatch, RevokeAuthorization
<1>3. ASSUME NEW s \in Sessions, SessionSteps(s) PROVE SessionsNameTheirTask'
  <2>1. ASSUME Leave(s) PROVE SessionsNameTheirTask'
    BY <2>1 DEF Leave, SessionsNameTheirTask, TypeOK, Idle
  <2>2. ASSUME NEW entry, Enter(s, entry), entry.task \in Tasks,
               entry.at \in {"issue_begun", "issue_gated"} => entry.start \in Issues
        PROVE  SessionsNameTheirTask'
    BY <2>2 DEF Enter, SessionsNameTheirTask, TypeOK
  <2>3. ASSUME NEW t \in Tasks, OpenEligibilityPage(s, t) PROVE SessionsNameTheirTask'
    <3> DEFINE entry == [Idle EXCEPT !.at = "eligibility_page", !.task = t,
                                     !.seen = [version |-> task[t].version,
                                               status |-> task[t].status,
                                               eligibility |-> task[t].eligibility]]
    <3>1. entry.task = t /\ entry.at = "eligibility_page"
      BY DEF Idle
    <3> QED  BY <2>2, <2>3, <3>1 DEF OpenEligibilityPage
  <2>4. ASSUME NEW t \in Tasks, BeginIssue(s, t) PROVE SessionsNameTheirTask'
    <3> DEFINE entry == [Idle EXCEPT !.at = "issue_begun", !.task = t,
                                     !.start = begun + 1]
    <3>1. entry.task = t /\ entry.start = begun + 1
      BY DEF Idle
    <3>2. begun + 1 \in Issues
      BY <2>4, BoundsAssumption DEF BeginIssue, TypeOK, Issues
    <3> QED  BY <2>2, <2>4, <3>1, <3>2 DEF BeginIssue
  <2>5. ASSUME NEW t \in Tasks, NEW key \in Keys, NEW claims \in Submissions,
               GateSubmission(s, t, key, claims)
        PROVE  SessionsNameTheirTask'
    <3> DEFINE entry == [Idle EXCEPT !.at = "submit_gated", !.task = t, !.key = key,
                                     !.claims = claims]
    <3>1. entry.task = t /\ entry.at = "submit_gated"
      BY DEF Idle
    <3> QED  BY <2>2, <2>5, <3>1 DEF GateSubmission
  <2>6. ASSUME NEW t \in Tasks, NEW basis \in {"authorization", "exception"},
               GateDeclaration(s, t, basis)
        PROVE  SessionsNameTheirTask'
    <3> DEFINE entry == [Idle EXCEPT !.at = "declare_gated", !.task = t,
                                     !.basis = basis]
    <3>1. entry.task = t /\ entry.at = "declare_gated"
      BY DEF Idle
    <3> QED  BY <2>2, <2>6, <3>1 DEF GateDeclaration
  <2>7. ASSUME GateIssue(s) PROVE SessionsNameTheirTask'
    <3> DEFINE entry == [session[s] EXCEPT !.at = "issue_gated"]
    <3>1. entry.task = session[s].task /\ entry.start = session[s].start
      BY <1>0 DEF Session
    <3>2. session[s].task \in Tasks /\ session[s].start \in Issues
      BY <2>7 DEF GateIssue, SessionsNameTheirTask
    <3> QED  BY <2>2, <2>7, <3>1, <3>2 DEF GateIssue
  <2> QED
    BY <1>3, <2>1, <2>3, <2>4, <2>5, <2>6, <2>7
    DEF SessionSteps, ConfirmEligibility, WriteBatch, ReplayBatch, WriteIssue,
        WriteDeclaration, Abort
<1> QED  BY <1>1, <1>2, <1>3 DEF Next

LEMMA TypeStep ==
  ASSUME TypeOK, SessionsNameTheirTask, Next
  PROVE  TypeOK' /\ SessionsNameTheirTask'
BY SessionsStep, AuthoringTypeOK, TaskStepsTypeOK, SessionStepsTypeOK DEF Next

(* Every state the service reaches is typed: rows keep their columns'      *)
(* domains, and a permission's items are products with a quantity between  *)
(* one unit and the most there can be.                                     *)
THEOREM TypeCorrect == Spec => []TypeOK
<1>1. Init => TypeOK /\ SessionsNameTheirTask
  BY InitTypeOK DEF Init, SessionsNameTheirTask, Idle
<1>2. TypeOK /\ SessionsNameTheirTask /\ [Next]_vars
        => (TypeOK /\ SessionsNameTheirTask)'
  <2>1. ASSUME TypeOK, SessionsNameTheirTask, Next
        PROVE  (TypeOK /\ SessionsNameTheirTask)'
    BY <2>1, TypeStep
  <2>2. ASSUME TypeOK, SessionsNameTheirTask, UNCHANGED vars
        PROVE  (TypeOK /\ SessionsNameTheirTask)'
    BY <2>2 DEF vars, TypeOK, SessionsNameTheirTask
  <2> QED  BY <2>1, <2>2
<1> QED  BY <1>1, <1>2, PTL DEF Spec

-----------------------------------------------------------------------------
(* Who writes which table.                                                 *)

LEMMA BatchWriters ==
  ASSUME Next
  PROVE  \/ UNCHANGED batch
         \/ \E v \in Instructions : WithdrawInstruction(v)
         \/ \E t \in Tasks, n \in BatchNumbers, d \in {"accepted", "needs_resubmission"} :
              ReviewBatch(t, n, d)
         \/ \E s \in Sessions : WriteBatch(s)
<1>1. ASSUME Authoring
      PROVE  UNCHANGED batch \/ \E v \in Instructions : WithdrawInstruction(v)
  BY <1>1 DEF Authoring, CreateInstructionVersion, PublishInstructionVersion,
              RecordInstructionApproval, AdvanceTime
<1>2. ASSUME NEW t \in Tasks, TaskSteps(t)
      PROVE  \/ UNCHANGED batch
             \/ \E n \in BatchNumbers, d \in {"accepted", "needs_resubmission"} :
                  ReviewBatch(t, n, d)
  BY <1>2 DEF TaskSteps, CreateTaskForSubmission, ExpireToken, ConfirmProductAffected,
              PlaceHold, ReleaseHold, RevokeAuthorization
<1>3. ASSUME NEW s \in Sessions, SessionSteps(s)
      PROVE  UNCHANGED batch \/ WriteBatch(s)
  BY <1>3 DEF SessionSteps, OpenEligibilityPage, BeginIssue, GateSubmission,
              GateDeclaration, ConfirmEligibility, ReplayBatch, GateIssue, WriteIssue,
              WriteDeclaration, Abort
<1> QED  BY <1>1, <1>2, <1>3 DEF Next

LEMMA IssueWriters ==
  ASSUME Next
  PROVE  \/ UNCHANGED issue
         \/ \E v \in Instructions : WithdrawInstruction(v)
         \/ \E t \in Tasks : RevokeAuthorization(t)
         \/ \E s \in Sessions : WriteBatch(s) \/ WriteIssue(s)
<1>1. ASSUME Authoring
      PROVE  UNCHANGED issue \/ \E v \in Instructions : WithdrawInstruction(v)
  BY <1>1 DEF Authoring, CreateInstructionVersion, PublishInstructionVersion,
              RecordInstructionApproval, AdvanceTime
<1>2. ASSUME NEW t \in Tasks, TaskSteps(t)
      PROVE  UNCHANGED issue \/ RevokeAuthorization(t)
  BY <1>2 DEF TaskSteps, CreateTaskForSubmission, ExpireToken, ConfirmProductAffected,
              PlaceHold, ReleaseHold, ReviewBatch
<1>3. ASSUME NEW s \in Sessions, SessionSteps(s)
      PROVE  UNCHANGED issue \/ WriteBatch(s) \/ WriteIssue(s)
  BY <1>3 DEF SessionSteps, OpenEligibilityPage, BeginIssue, GateSubmission,
              GateDeclaration, ConfirmEligibility, ReplayBatch, GateIssue,
              WriteDeclaration, Abort
<1> QED  BY <1>1, <1>2, <1>3 DEF Next

LEMMA TaskWriters ==
  ASSUME Next
  PROVE  \/ UNCHANGED task
         \/ \E t \in Tasks : TaskSteps(t)
         \/ \E s \in Sessions, d \in EligibilityStatuses : ConfirmEligibility(s, d)
         \/ \E s \in Sessions : WriteDeclaration(s)
<1>1. ASSUME Authoring PROVE UNCHANGED task
  BY <1>1 DEF Authoring, CreateInstructionVersion, PublishInstructionVersion,
              WithdrawInstruction, RecordInstructionApproval, AdvanceTime
<1>2. ASSUME NEW s \in Sessions, SessionSteps(s)
      PROVE  \/ UNCHANGED task \/ WriteDeclaration(s)
             \/ \E d \in EligibilityStatuses : ConfirmEligibility(s, d)
  BY <1>2 DEF SessionSteps, OpenEligibilityPage, BeginIssue, GateSubmission,
              GateDeclaration, WriteBatch, ReplayBatch, GateIssue, WriteIssue, Abort
<1> QED  BY <1>1, <1>2 DEF Next

-----------------------------------------------------------------------------
(* Which permissions the service lets live.                                *)
(*                                                                         *)
(* A permission is written in two steps, so what the gate read has to hold *)
(* until the insert.  The argument: whoever is between the two steps holds *)
(* the task row, no two hold the same one (LockExclusive), nothing the     *)
(* gate read changes while the row is held (LockedTaskKept), hence the     *)
(* gate's answer still stands at the insert (GateStands).                  *)

LockExclusive ==
  \A s, u \in Sessions : \A t \in Tasks : HoldsTask(s, t) /\ HoldsTask(u, t) => s = u

NewestAccepted(t) ==
  /\ LatestBatch(t) \in BatchNumbers
  /\ batch[t][LatestBatch(t)].status = "accepted"

(* What the gate read is still so. *)
GateStands ==
  \A s \in Sessions : \A t \in Tasks : session[s].task = t =>
    /\ session[s].at = "issue_gated" =>
         /\ task[t].status = "open"
         /\ task[t].eligibility = "confirmed_eligible"
         /\ ~task[t].hold
         /\ NewestAccepted(t)
    /\ session[s].at = "declare_gated" => task[t].basis = "none" /\ Exists(t)

LivePermissionsNameEvidence ==
  \A i \in Issues : Live(i) => issue[i].task \in Tasks /\ issue[i].batch \in BatchNumbers

DeclaredIsCompleted == \A t \in Tasks : task[t].basis # "none" => task[t].status = "completed"

PermissionInv ==
  /\ TypeOK /\ SessionsNameTheirTask
  /\ LockExclusive
  /\ GateStands
  /\ LivePermissionsNameEvidence
  /\ DeclaredIsCompleted
  /\ LivePermissionRestsOnAcceptedEvidence
  /\ OneLivePermission

-----------------------------------------------------------------------------
(* What the steps leave alone.                                             *)

(* No batch of the task appears or goes, and accepted ones stay accepted. *)
EvidenceKept(t) ==
  \A n \in BatchNumbers :
    /\ batch'[t][n].status = "absent" <=> batch[t][n].status = "absent"
    /\ batch[t][n].status = "accepted" => batch'[t][n].status = "accepted"

NothingNewLive ==
  \A i \in Issues :
    issue'[i].status = "active" => /\ issue[i].status = "active"
                                   /\ issue'[i].task = issue[i].task
                                   /\ issue'[i].batch = issue[i].batch

(* Only WriteBatch adds a batch, and nothing takes back an acceptance. *)
LEMMA EvidenceFrame ==
  ASSUME TypeOK, Next, NEW t \in Tasks,
         \A s \in Sessions : WriteBatch(s) => session[s].task # t
  PROVE  EvidenceKept(t)
<1>1. CASE UNCHANGED batch
  BY <1>1 DEF EvidenceKept
<1>2. ASSUME NEW v \in Instructions, WithdrawInstruction(v) PROVE EvidenceKept(t)
  <2>1. \A n \in BatchNumbers : batch[t][n] \in BatchRow
    BY DEF TypeOK
  <2>2. \A row \in BatchRow : [row EXCEPT !.status = "superseded"].status = "superseded"
    BY DEF BatchRow
  <2> QED  BY <1>2, <2>1, <2>2 DEF WithdrawInstruction, EvidenceKept
<1>3. ASSUME NEW u \in Tasks, NEW n \in BatchNumbers,
             NEW d \in {"accepted", "needs_resubmission"}, ReviewBatch(u, n, d)
      PROVE  EvidenceKept(t)
  <2>1. batch[u][n] \in BatchRow /\ batch[u] \in [BatchNumbers -> BatchRow]
    BY DEF TypeOK
  <2>2. [batch[u][n] EXCEPT !.status = d].status = d
    BY <2>1 DEF BatchRow
  <2>3. \A m \in BatchNumbers :
          batch'[t][m].status = IF t = u /\ m = n THEN d ELSE batch[t][m].status
    BY <1>3, <2>1, <2>2 DEF ReviewBatch, TypeOK
  <2> QED  BY <1>3, <2>3 DEF ReviewBatch, EvidenceKept
<1>4. ASSUME NEW s \in Sessions, WriteBatch(s) PROVE EvidenceKept(t)
  BY <1>4 DEF WriteBatch, EvidenceKept, TypeOK
<1> QED  BY <1>1, <1>2, <1>3, <1>4, BatchWriters

(* A task whose evidence is kept keeps its newest batch. *)
LEMMA NewestKept ==
  ASSUME NEW t \in Tasks, EvidenceKept(t)
  PROVE  /\ LatestBatch(t)' = LatestBatch(t)
         /\ NewestAccepted(t) => NewestAccepted(t)'
<1>1. BatchesOf(t)' = BatchesOf(t)
  BY DEF BatchesOf, EvidenceKept
<1>2. LatestBatch(t)' = LatestBatch(t)
  BY <1>1 DEF LatestBatch
<1> QED  BY <1>2 DEF NewestAccepted, EvidenceKept

LEMMA SuspendFrame ==
  ASSUME TypeOK, NEW chosen, SuspendLive(chosen)
  PROVE  /\ NothingNewLive
         /\ \A i \in Issues : i \in chosen => issue'[i].status # "active"
<1>1. \A i \in Issues : issue[i] \in IssueRow
  BY DEF TypeOK
<1>2. \A row \in IssueRow : [row EXCEPT !.status = "suspended"].status = "suspended"
  BY DEF IssueRow
<1> QED  BY <1>1, <1>2 DEF SuspendLive, NothingNewLive, Live

(* Only WriteIssue puts a permission in force. *)
LEMMA PermissionFrame ==
  ASSUME TypeOK, Next, \A s \in Sessions : ~WriteIssue(s)
  PROVE  NothingNewLive
<1>1. CASE UNCHANGED issue
  BY <1>1 DEF NothingNewLive
<1>2. ASSUME NEW v \in Instructions, WithdrawInstruction(v) PROVE NothingNewLive
  BY <1>2, SuspendFrame DEF WithdrawInstruction
<1>3. ASSUME NEW t \in Tasks, RevokeAuthorization(t) PROVE NothingNewLive
  <2>1. \A i \in Issues : issue[i] \in IssueRow
    BY DEF TypeOK
  <2>2. \A row \in IssueRow : [row EXCEPT !.status = "revoked"].status = "revoked"
    BY DEF IssueRow
  <2> QED  BY <1>3, <2>1, <2>2 DEF RevokeAuthorization, NothingNewLive, TypeOK
<1>4. ASSUME NEW s \in Sessions, WriteBatch(s) PROVE NothingNewLive
  BY <1>4, SuspendFrame DEF WriteBatch
<1> QED  BY <1>1, <1>2, <1>3, <1>4, IssueWriters

(* What a gate that passes has seen. *)
LEMMA IssueGatePasses ==
  ASSUME NEW t \in Tasks, CanIssueAuthorization(StateOf(t)), TypeOK
  PROVE  /\ task[t].status = "open"
         /\ task[t].eligibility = "confirmed_eligible"
         /\ ~task[t].hold
         /\ NewestAccepted(t)
<1> DEFINE st == StateOf(t)
<1>1. /\ st.taskStatus = task[t].status
      /\ st.eligibility = task[t].eligibility
      /\ st.holdActive = task[t].hold
      /\ st.latestBatch = IF LatestBatch(t) = NoBatch THEN Null
                          ELSE batch[t][LatestBatch(t)].status
  BY DEF StateOf
<1>2. BlockingReasons(st) = {}
  BY DEF CanIssueAuthorization
<1>3. task[t].eligibility \in EligibilityStatuses
  BY DEF TypeOK, TaskRow
<1> HIDE DEF st
<1>4. TaskOpen(st) /\ ~st.holdActive
  BY <1>2 DEF BlockingReasons
<1>5. EligibilityReasons(st) = {} /\ EvidenceReasons(st) = {}
  BY <1>2 DEF BlockingReasons
<1>6. st.eligibility = "confirmed_eligible"
  BY <1>1, <1>3, <1>5 DEF EligibilityReasons, EligibilityStatuses
<1>7. st.latestBatch = "accepted"
  BY <1>5 DEF EvidenceReasons
<1>8. LatestBatch(t) # NoBatch
  BY <1>1, <1>7 DEF Null
<1>9. LatestBatch(t) \in BatchNumbers
  BY <1>8, LatestBatchIsOne DEF BatchesOf
<1> QED  BY <1>1, <1>4, <1>6, <1>7, <1>8, <1>9 DEF TaskOpen, NewestAccepted

(* How a transaction or a page can come to remember what it remembers. *)
LEMMA SessionMoves ==
  ASSUME TypeOK, Next, NEW s \in Sessions
  PROVE  \/ session'[s] = session[s]
         \/ session'[s] = Idle
         \/ \E t \in Tasks :
              /\ OpenEligibilityPage(s, t)
              /\ session'[s].at = "eligibility_page" /\ session'[s].task = t
              /\ session'[s].seen = [version |-> task[t].version,
                                     status |-> task[t].status,
                                     eligibility |-> task[t].eligibility]
         \/ \E t \in Tasks :
              /\ BeginIssue(s, t)
              /\ session'[s].at = "issue_begun" /\ session'[s].task = t
              /\ session'[s].start = begun + 1
         \/ \E t \in Tasks, key \in Keys, claims \in Submissions :
              /\ GateSubmission(s, t, key, claims)
              /\ session'[s].at = "submit_gated" /\ session'[s].task = t
         \/ \E t \in Tasks, basis \in {"authorization", "exception"} :
              /\ GateDeclaration(s, t, basis)
              /\ session'[s].at = "declare_gated" /\ session'[s].task = t
              /\ session'[s].basis = basis
         \/ /\ GateIssue(s)
            /\ session'[s].at = "issue_gated" /\ session'[s].task = session[s].task
            /\ session'[s].start = session[s].start
<1> DEFINE
      Paged == \E t \in Tasks :
        /\ OpenEligibilityPage(s, t)
        /\ session'[s].at = "eligibility_page" /\ session'[s].task = t
        /\ session'[s].seen = [version |-> task[t].version,
                               status |-> task[t].status,
                               eligibility |-> task[t].eligibility]
      Began == \E t \in Tasks :
        /\ BeginIssue(s, t)
        /\ session'[s].at = "issue_begun" /\ session'[s].task = t
        /\ session'[s].start = begun + 1
      Submits == \E t \in Tasks, key \in Keys, claims \in Submissions :
        /\ GateSubmission(s, t, key, claims)
        /\ session'[s].at = "submit_gated" /\ session'[s].task = t
      Declares == \E t \in Tasks, basis \in {"authorization", "exception"} :
        /\ GateDeclaration(s, t, basis)
        /\ session'[s].at = "declare_gated" /\ session'[s].task = t
        /\ session'[s].basis = basis
      Gated == /\ GateIssue(s)
                 /\ session'[s].at = "issue_gated" /\ session'[s].task = session[s].task
                 /\ session'[s].start = session[s].start
<1>0. session[s] \in Session
  BY DEF TypeOK
<1>1. ASSUME NEW entry, Enter(s, entry) PROVE session'[s] = entry
  BY <1>1 DEF Enter, TypeOK
<1>2. ASSUME Leave(s) PROVE session'[s] = Idle
  BY <1>2 DEF Leave, TypeOK
<1>3. ASSUME NEW t \in Tasks, OpenEligibilityPage(s, t) PROVE Paged
  <2> DEFINE entry == [Idle EXCEPT !.at = "eligibility_page", !.task = t,
                                   !.seen = [version |-> task[t].version,
                                             status |-> task[t].status,
                                             eligibility |-> task[t].eligibility]]
  <2>1. session'[s] = entry
    BY <1>1, <1>3 DEF OpenEligibilityPage
  <2>2. /\ entry.at = "eligibility_page" /\ entry.task = t
        /\ entry.seen = [version |-> task[t].version, status |-> task[t].status,
                         eligibility |-> task[t].eligibility]
    BY DEF Idle
  <2> QED  BY <1>3, <2>1, <2>2
<1>4. ASSUME NEW t \in Tasks, BeginIssue(s, t) PROVE Began
  <2> DEFINE entry == [Idle EXCEPT !.at = "issue_begun", !.task = t,
                                   !.start = begun + 1]
  <2>1. session'[s] = entry
    BY <1>1, <1>4 DEF BeginIssue
  <2>2. entry.at = "issue_begun" /\ entry.task = t /\ entry.start = begun + 1
    BY DEF Idle
  <2> QED  BY <1>4, <2>1, <2>2
<1>5. ASSUME NEW t \in Tasks, NEW key \in Keys, NEW claims \in Submissions,
             GateSubmission(s, t, key, claims)
      PROVE  Submits
  <2> DEFINE entry == [Idle EXCEPT !.at = "submit_gated", !.task = t, !.key = key,
                                   !.claims = claims]
  <2>1. session'[s] = entry
    BY <1>1, <1>5 DEF GateSubmission
  <2>2. entry.at = "submit_gated" /\ entry.task = t
    BY DEF Idle
  <2> QED  BY <1>5, <2>1, <2>2
<1>6. ASSUME NEW t \in Tasks, NEW basis \in {"authorization", "exception"},
             GateDeclaration(s, t, basis)
      PROVE  Declares
  <2> DEFINE entry == [Idle EXCEPT !.at = "declare_gated", !.task = t, !.basis = basis]
  <2>1. session'[s] = entry
    BY <1>1, <1>6 DEF GateDeclaration
  <2>2. entry.at = "declare_gated" /\ entry.task = t /\ entry.basis = basis
    BY DEF Idle
  <2> QED  BY <1>6, <2>1, <2>2
<1>7. ASSUME GateIssue(s) PROVE Gated
  <2>1. session'[s] = [session[s] EXCEPT !.at = "issue_gated"]
    BY <1>1, <1>7 DEF GateIssue
  <2> QED  BY <1>0, <1>7, <2>1 DEF Session
<1>8. CASE SessionSteps(s)
  <2> HIDE DEF Paged, Began, Submits, Declares, Gated
  <2>1. session'[s] = Idle \/ Paged \/ Began \/ Submits \/ Declares \/ Gated
    BY <1>2, <1>3, <1>4, <1>5, <1>6, <1>7, <1>8
    DEF SessionSteps, ConfirmEligibility, WriteBatch, ReplayBatch, WriteIssue,
        WriteDeclaration, Abort
  <2> QED  BY <2>1 DEF Paged, Began, Submits, Declares, Gated
<1>9. ASSUME Authoring \/ \E v \in Tasks : TaskSteps(v) PROVE session' = session
  BY <1>9
  DEF Authoring, CreateInstructionVersion, PublishInstructionVersion,
      WithdrawInstruction, RecordInstructionApproval, AdvanceTime,
      TaskSteps, CreateTaskForSubmission, ExpireToken, ConfirmProductAffected,
      PlaceHold, ReleaseHold, ReviewBatch, RevokeAuthorization
<1>10. ASSUME NEW u \in Sessions, SessionSteps(u), u # s PROVE session'[s] = session[s]
  BY <1>10
  DEF SessionSteps, OpenEligibilityPage, BeginIssue, GateSubmission, GateDeclaration,
      ConfirmEligibility, WriteBatch, ReplayBatch, GateIssue, WriteIssue,
      WriteDeclaration, Abort, Leave, Enter, TypeOK
<1> QED  BY <1>8, <1>9, <1>10 DEF Next

(* A transaction that comes to hold a task found the row free and its gate *)
(* open, and nothing else happened at that step.                           *)
LEMMA LockTaken ==
  ASSUME TypeOK, SessionsNameTheirTask, Next,
         NEW s \in Sessions, NEW t \in Tasks, HoldsTask(s, t)', ~HoldsTask(s, t)
  PROVE  /\ LockFree(t)
         /\ \A u \in Sessions : u # s => session'[u] = session[u]
         /\ UNCHANGED <<task, batch, issue>>
         /\ session'[s].at = "issue_gated" => CanIssueAuthorization(StateOf(t))
         /\ session'[s].at = "declare_gated" =>
              /\ task[t].basis = "none" /\ Exists(t)
              /\ \/ session'[s].basis = "authorization" /\ MayDeclareCompletion(StateOf(t))
                 \/ session'[s].basis = "exception"
<1>0. /\ session'[s] # session[s] /\ session'[s] # Idle
      /\ session'[s].at \in {"issue_gated", "declare_gated"} /\ session'[s].task = t
  BY DEF HoldsTask, Idle
<1>1. \/ \E basis \in {"authorization", "exception"} :
           /\ GateDeclaration(s, t, basis)
           /\ session'[s].at = "declare_gated" /\ session'[s].basis = basis
      \/ /\ GateIssue(s)
         /\ session'[s].at = "issue_gated" /\ session[s].task = t
  BY <1>0, SessionMoves
<1>2. ASSUME NEW entry, Enter(s, entry)
      PROVE  \A u \in Sessions : u # s => session'[u] = session[u]
  BY <1>2 DEF Enter, TypeOK
<1>3. CASE \E basis \in {"authorization", "exception"} :
             /\ GateDeclaration(s, t, basis)
             /\ session'[s].at = "declare_gated" /\ session'[s].basis = basis
  BY <1>2, <1>3 DEF GateDeclaration
<1>4. CASE /\ GateIssue(s)
           /\ session'[s].at = "issue_gated" /\ session[s].task = t
  BY <1>2, <1>4 DEF GateIssue
<1> QED  BY <1>1, <1>3, <1>4

(* The row of a task that is held changes only when its holder is done. *)
LEMMA LockedTaskKept ==
  ASSUME TypeOK, SessionsNameTheirTask, LockExclusive, Next, NEW t \in Tasks,
         NEW s \in Sessions, HoldsTask(s, t), HoldsTask(s, t)', Exists(t)
  PROVE  /\ task'[t].status = task[t].status
         /\ task'[t].eligibility = task[t].eligibility
         /\ task'[t].hold = task[t].hold
         /\ task'[t].basis = task[t].basis
         /\ EvidenceKept(t)
<1> DEFINE Same == /\ task'[t].status = task[t].status
                   /\ task'[t].eligibility = task[t].eligibility
                   /\ task'[t].hold = task[t].hold
                   /\ task'[t].basis = task[t].basis
<1>0. ~LockFree(t) /\ \A u \in Tasks : task[u] \in TaskRow
  BY DEF LockFree, TypeOK
<1>1. ASSUME UNCHANGED task PROVE Same
  BY <1>1
<1>2. ASSUME NEW u \in Tasks, TaskSteps(u), u # t PROVE task'[t] = task[t]
  BY <1>2 DEF TaskSteps, CreateTaskForSubmission, ExpireToken, ConfirmProductAffected,
     PlaceHold, ReleaseHold, ReviewBatch, RevokeAuthorization, TypeOK
<1>3. ASSUME TaskSteps(t) PROVE Same
  <2>1. ASSUME ExpireToken(t) PROVE Same
    <3>1. task'[t] = [task[t] EXCEPT !.tokenLive = FALSE]
      BY <2>1 DEF ExpireToken, TypeOK
    <3> QED  BY <1>0, <3>1 DEF TaskRow
  <2>2. \A hasIncident \in BOOLEAN : ~CreateTaskForSubmission(t, hasIncident)
    BY DEF CreateTaskForSubmission
  <2> QED
    BY <1>0, <1>3, <2>1, <2>2
    DEF TaskSteps, ConfirmProductAffected, PlaceHold, ReleaseHold, ReviewBatch,
        RevokeAuthorization
<1>4. ASSUME NEW u \in Sessions, NEW d \in EligibilityStatuses, ConfirmEligibility(u, d)
      PROVE  task'[t] = task[t]
  <2>1. session[u].task # t
    BY <1>0, <1>4 DEF ConfirmEligibility
  <2> QED  BY <1>4, <2>1 DEF ConfirmEligibility, TypeOK
<1>5. ASSUME NEW u \in Sessions, WriteDeclaration(u) PROVE task'[t] = task[t]
  <2>1. HoldsTask(u, session[u].task)
    BY <1>5 DEF WriteDeclaration, HoldsTask
  <2>2. session'[u] = Idle
    BY <1>5 DEF WriteDeclaration, Leave, TypeOK
  <2>3. u # s
    BY <2>2 DEF HoldsTask, Idle
  <2>4. session[u].task # t
    BY <2>1, <2>3 DEF LockExclusive
  <2> QED  BY <1>5, <2>4 DEF WriteDeclaration, TypeOK
<1>6. \A u \in Sessions : WriteBatch(u) => session[u].task # t
  BY <1>0 DEF WriteBatch
<1>7. Same
  BY <1>1, <1>2, <1>3, <1>4, <1>5, TaskWriters
<1> QED  BY <1>6, <1>7, EvidenceFrame
LEMMA HolderKeepsItsGate ==
  ASSUME TypeOK, Next, NEW s \in Sessions, NEW t \in Tasks,
         HoldsTask(s, t), HoldsTask(s, t)'
  PROVE  session'[s] = session[s]
<1>1. session[s] # Idle /\ session[s].at # "issue_begun"
  BY DEF HoldsTask, Idle
<1>2. ~GateIssue(s)
  BY <1>1 DEF GateIssue
<1>3. \A basis : ~GateDeclaration(s, t, basis)
  BY <1>1 DEF GateDeclaration
<1>4. session'[s] # Idle /\ session'[s].at \in {"issue_gated", "declare_gated"}
      /\ session'[s].task = t
  BY DEF HoldsTask, Idle
<1> QED  BY <1>2, <1>3, <1>4, SessionMoves

(* What closes a task, and nothing else touches how it was closed. *)
LEMMA TaskRowMoves ==
  ASSUME TypeOK, SessionsNameTheirTask, Next, NEW t \in Tasks
  PROVE  \/ /\ task'[t].status = task[t].status
            /\ task'[t].basis = task[t].basis
            /\ task'[t].cited = task[t].cited
         \/ /\ \E hasIncident \in BOOLEAN : CreateTaskForSubmission(t, hasIncident)
            /\ ~Exists(t) /\ task'[t].status = "open"
            /\ task'[t].basis = "none" /\ task'[t].cited = NoIssue
         \/ /\ \E s \in Sessions :
                 /\ session[s].at = "declare_gated" /\ session[s].task = t
                 /\ WriteDeclaration(s)
                 /\ task'[t].basis = session[s].basis
                 /\ task'[t].cited = IF session[s].basis = "authorization"
                                     THEN LatestIssue(t) ELSE NoIssue
            /\ task'[t].status = "completed"
<1> DEFINE Same == /\ task'[t].status = task[t].status
                   /\ task'[t].basis = task[t].basis
                   /\ task'[t].cited = task[t].cited
<1>0. task[t] \in TaskRow
  BY DEF TypeOK
<1>1. ASSUME UNCHANGED task PROVE Same
  BY <1>1
<1>2. ASSUME NEW u \in Tasks, TaskSteps(u), u # t PROVE task'[t] = task[t]
  BY <1>2 DEF TaskSteps, CreateTaskForSubmission, ExpireToken, ConfirmProductAffected,
     PlaceHold, ReleaseHold, ReviewBatch, RevokeAuthorization, TypeOK
<1>3. ASSUME NEW hasIncident \in BOOLEAN, CreateTaskForSubmission(t, hasIncident)
      PROVE  /\ ~Exists(t) /\ task'[t].status = "open"
             /\ task'[t].basis = "none" /\ task'[t].cited = NoIssue
  <2> DEFINE row == [AbsentTask EXCEPT !.status = "open",
                                       !.pinned = Max(OpeningVersions),
                                       !.tokenLive = TRUE,
                                       !.hold = hasIncident]
  <2>1. row.status = "open" /\ row.basis = "none" /\ row.cited = NoIssue
    BY DEF AbsentTask
  <2>2. task'[t] = row
    BY <1>3 DEF CreateTaskForSubmission, TypeOK
  <2> QED  BY <1>3, <2>1, <2>2 DEF CreateTaskForSubmission
<1>4. ASSUME ExpireToken(t) PROVE Same
  <2>1. task'[t] = [task[t] EXCEPT !.tokenLive = FALSE]
    BY <1>4 DEF ExpireToken, TypeOK
  <2> QED  BY <1>0, <2>1 DEF TaskRow
<1>5. ASSUME NEW p \in Products, NEW q \in Quantities, ConfirmProductAffected(t, p, q)
      PROVE  Same
  <2>1. task'[t] = [task[t] EXCEPT !.confirmed[p] = q]
    BY <1>5 DEF ConfirmProductAffected, TypeOK
  <2> QED  BY <1>0, <2>1 DEF TaskRow
<1>6. ASSUME NEW held \in BOOLEAN, task' = [task EXCEPT ![t].hold = held] PROVE Same
  <2>1. task'[t] = [task[t] EXCEPT !.hold = held]
    BY <1>6 DEF TypeOK
  <2> QED  BY <1>0, <2>1 DEF TaskRow
<1>7. ASSUME NEW u \in Sessions, NEW d \in EligibilityStatuses, ConfirmEligibility(u, d)
      PROVE  Same
  <2>1. CASE session[u].task = t
    <3>1. task'[t] = [task[t] EXCEPT !.eligibility = d, !.version = @ + 1]
      BY <1>7, <2>1 DEF ConfirmEligibility, TypeOK
    <3> QED  BY <1>0, <3>1 DEF TaskRow
  <2>2. CASE session[u].task # t
    BY <1>7, <2>2 DEF ConfirmEligibility, TypeOK
  <2> QED  BY <2>1, <2>2
<1>8. ASSUME NEW u \in Sessions, WriteDeclaration(u)
      PROVE  \/ Same
             \/ /\ session[u].at = "declare_gated" /\ session[u].task = t
                /\ task'[t].status = "completed"
                /\ task'[t].basis = session[u].basis
                /\ task'[t].cited = IF session[u].basis = "authorization"
                                    THEN LatestIssue(t) ELSE NoIssue
  <2>1. CASE session[u].task = t
    <3>1. task'[t] = Closed(t, session[u].basis)
      BY <1>8, <2>1 DEF WriteDeclaration, TypeOK
    <3>2. LET row == Closed(t, session[u].basis) IN
          /\ row.status = "completed"
          /\ row.basis = session[u].basis
          /\ row.cited = IF session[u].basis = "authorization"
                         THEN LatestIssue(t) ELSE NoIssue
      BY <1>0 DEF Closed, TaskRow
    <3> QED  BY <1>8, <2>1, <3>1, <3>2 DEF WriteDeclaration
  <2>2. CASE session[u].task # t
    BY <1>8, <2>2 DEF WriteDeclaration, TypeOK
  <2> QED  BY <2>1, <2>2
<1>10. CASE \E u \in Tasks : TaskSteps(u)
  <2>1. CASE TaskSteps(t)
    BY <1>1, <1>3, <1>4, <1>5, <1>6, <2>1
    DEF TaskSteps, PlaceHold, ReleaseHold, ReviewBatch, RevokeAuthorization
  <2>2. CASE ~TaskSteps(t)
    <3>1. task'[t] = task[t]
      BY <1>2, <1>10, <2>2
    <3> QED  BY <3>1
  <2> QED  BY <2>1, <2>2
<1> QED  BY <1>1, <1>7, <1>8, <1>10, TaskWriters

(* Whoever inserts a permission still has what its gate read.              *)
LEMMA IssuerGate ==
  ASSUME PermissionInv, NEW s \in Sessions, WriteIssue(s)
  PROVE  LET t == session[s].task IN
         /\ t \in Tasks /\ session[s].start \in Issues
         /\ task[t].status = "open"
         /\ task[t].eligibility = "confirmed_eligible"
         /\ ~task[t].hold
         /\ NewestAccepted(t)
<1>1. session[s].at = "issue_gated"
  BY DEF WriteIssue
<1>2. session[s].task \in Tasks /\ session[s].start \in Issues
  BY <1>1 DEF PermissionInv, SessionsNameTheirTask
<1> QED  BY <1>1, <1>2 DEF PermissionInv, GateStands

-----------------------------------------------------------------------------
(* The invariant is kept, part by part.                                    *)

LEMMA LockStep ==
  ASSUME PermissionInv, Next PROVE LockExclusive'
<1> SUFFICES ASSUME NEW s \in Sessions, NEW u \in Sessions, NEW t \in Tasks,
                    HoldsTask(s, t)', HoldsTask(u, t)', s # u
             PROVE  FALSE
  BY DEF LockExclusive, HoldsTask
<1>1. CASE HoldsTask(s, t) /\ HoldsTask(u, t)
  BY <1>1 DEF PermissionInv, LockExclusive
<1>2. ASSUME NEW v \in Sessions, NEW w \in Sessions, v # w,
             ~HoldsTask(v, t), HoldsTask(v, t)', HoldsTask(w, t)'
      PROVE  FALSE
  <2>1. LockFree(t) /\ session'[w] = session[w]
    BY <1>2, LockTaken DEF PermissionInv
  <2> QED  BY <1>2, <2>1 DEF LockFree, HoldsTask
<1> QED  BY <1>1, <1>2

LEMMA GateStep ==
  ASSUME PermissionInv, Next PROVE GateStands'
<1>1. SessionsNameTheirTask' /\ TypeOK
  BY SessionsStep DEF PermissionInv
<1> SUFFICES ASSUME NEW s \in Sessions, NEW t \in Tasks, session'[s].task = t
             PROVE  /\ session'[s].at = "issue_gated" =>
                         /\ task'[t].status = "open"
                         /\ task'[t].eligibility = "confirmed_eligible"
                         /\ ~task'[t].hold
                         /\ NewestAccepted(t)'
                    /\ session'[s].at = "declare_gated" =>
                         task'[t].basis = "none" /\ Exists(t)'
  BY DEF GateStands
<1>2. CASE session'[s].at \notin {"issue_gated", "declare_gated"}
  BY <1>2
<1>3. CASE HoldsTask(s, t)'
  <2>1. CASE ~HoldsTask(s, t)
    <3>1. /\ UNCHANGED <<task, batch>>
          /\ session'[s].at = "issue_gated" => CanIssueAuthorization(StateOf(t))
          /\ session'[s].at = "declare_gated" => task[t].basis = "none" /\ Exists(t)
      BY <1>3, <2>1, LockTaken DEF PermissionInv
    <3>2. EvidenceKept(t)
      BY <3>1 DEF EvidenceKept
    <3> QED  BY <1>1, <3>1, <3>2, IssueGatePasses, NewestKept DEF Exists
  <2>2. CASE HoldsTask(s, t)
    <3>1. session[s].task = t /\ session[s].at \in {"issue_gated", "declare_gated"}
      BY <2>2 DEF HoldsTask
    <3>2. Exists(t)
      BY <3>1 DEF PermissionInv, GateStands, Exists
    <3>3. /\ task'[t].status = task[t].status
          /\ task'[t].eligibility = task[t].eligibility
          /\ task'[t].hold = task[t].hold
          /\ task'[t].basis = task[t].basis
          /\ EvidenceKept(t)
      BY <1>3, <2>2, <3>2, LockedTaskKept DEF PermissionInv
    <3>4. session'[s].at = session[s].at
      BY <1>3, <2>2, HolderKeepsItsGate DEF PermissionInv
    <3> QED  BY <3>1, <3>3, <3>4, NewestKept DEF PermissionInv, GateStands, Exists
  <2> QED  BY <2>1, <2>2
<1> QED  BY <1>2, <1>3 DEF HoldsTask

LEMMA DeclaredStep ==
  ASSUME PermissionInv, Next PROVE DeclaredIsCompleted'
<1> SUFFICES ASSUME NEW t \in Tasks, task'[t].basis # "none"
             PROVE  task'[t].status = "completed"
  BY DEF DeclaredIsCompleted
<1> QED  BY TaskRowMoves DEF PermissionInv, DeclaredIsCompleted

(* A step that puts no permission in force leaves each one that is in      *)
(* force on the evidence it rested on.                                     *)
LEMMA NoIssueStep ==
  ASSUME PermissionInv, Next, \A s \in Sessions : ~WriteIssue(s)
  PROVE  /\ LivePermissionsNameEvidence'
         /\ LivePermissionRestsOnAcceptedEvidence'
         /\ OneLivePermission'
<1>1. NothingNewLive
  BY PermissionFrame DEF PermissionInv
<1>2. ASSUME NEW i \in Issues, Live(i)'
      PROVE  /\ Live(i) /\ issue'[i].task = issue[i].task
             /\ issue'[i].batch = issue[i].batch
             /\ issue[i].task \in Tasks /\ EvidenceKept(issue[i].task)
  <2>1. Live(i) /\ issue'[i].task = issue[i].task /\ issue'[i].batch = issue[i].batch
    BY <1>1, <1>2 DEF NothingNewLive, Live
  <2>2. issue[i].task \in Tasks
    BY <2>1 DEF PermissionInv, LivePermissionsNameEvidence
  <2>3. ASSUME NEW s \in Sessions, WriteBatch(s) PROVE session[s].task # issue[i].task
    <3>1. i \notin IssuesOf(session[s].task)
      BY <1>2, <2>3, SuspendFrame DEF WriteBatch, PermissionInv, Live
    <3> QED  BY <3>1 DEF IssuesOf
  <2> QED  BY <2>1, <2>2, <2>3, EvidenceFrame DEF PermissionInv
<1>3. LivePermissionsNameEvidence'
  BY <1>2 DEF LivePermissionsNameEvidence, PermissionInv
<1>4. OneLivePermission'
  BY <1>2 DEF OneLivePermission, PermissionInv, IssuesOf
<1>5. LivePermissionRestsOnAcceptedEvidence'
  <2> SUFFICES ASSUME NEW t \in Tasks, NEW i \in Issues, issue'[i].task = t, Live(i)'
               PROVE  issue'[i].batch = LatestBatch(t)' /\ NewestAccepted(t)'
    BY DEF LivePermissionRestsOnAcceptedEvidence, IssuesOf, NewestAccepted
  <2>1. Live(i) /\ i \in IssuesOf(t) /\ issue'[i].batch = issue[i].batch
    BY <1>2 DEF IssuesOf
  <2>2. issue[i].batch = LatestBatch(t) /\ NewestAccepted(t)
    BY <2>1
    DEF PermissionInv, LivePermissionRestsOnAcceptedEvidence, NewestAccepted,
        LivePermissionsNameEvidence
  <2> QED  BY <1>2, <2>1, <2>2, NewestKept
<1> QED  BY <1>3, <1>4, <1>5

(* WriteIssue puts one in force, on what the gate read and still stands.   *)
LEMMA IssueStep ==
  ASSUME PermissionInv, NEW s \in Sessions, WriteIssue(s)
  PROVE  /\ LivePermissionsNameEvidence'
         /\ LivePermissionRestsOnAcceptedEvidence'
         /\ OneLivePermission'
<1> DEFINE t == session[s].task
           n == LatestBatch(t)
           k == session[s].start
<1>1. t \in Tasks /\ k \in Issues /\ NewestAccepted(t)
  BY IssuerGate
<1>2. \A i \in Issues : i # k => issue'[i] = issue[i]
  BY <1>1 DEF PermissionInv, TypeOK, WriteIssue
<1>3. issue'[k].task = t /\ issue'[k].batch = n
  BY <1>1 DEF PermissionInv, TypeOK, WriteIssue
<1>4. \A u \in Tasks : EvidenceKept(u)
  BY DEF WriteIssue, EvidenceKept
<1>5. \A u \in Tasks : LatestBatch(u)' = LatestBatch(u)
  BY <1>4, NewestKept
<1>6. UNCHANGED batch
  BY DEF WriteIssue
<1>7. ~Permitted(t, n)
  BY DEF WriteIssue
<1> HIDE DEF t, n, k
<1>8. LivePermissionsNameEvidence'
  BY <1>1, <1>2, <1>3
  DEF LivePermissionsNameEvidence, PermissionInv, Live, NewestAccepted, n
<1>9. LivePermissionRestsOnAcceptedEvidence'
  <2> SUFFICES ASSUME NEW u \in Tasks, NEW i \in Issues, issue'[i].task = u, Live(i)'
               PROVE  /\ issue'[i].batch = LatestBatch(u)
                      /\ batch[u][LatestBatch(u)].status = "accepted"
    BY <1>5, <1>6 DEF LivePermissionRestsOnAcceptedEvidence, IssuesOf
  <2>1. CASE i = k
    BY <1>1, <1>3, <2>1 DEF NewestAccepted, n
  <2>2. CASE i # k
    BY <1>2, <2>2 DEF PermissionInv, LivePermissionRestsOnAcceptedEvidence, IssuesOf, Live
  <2> QED  BY <2>1, <2>2
<1>10. OneLivePermission'
  <2>1. \A i \in Issues : i # k /\ issue'[i].task = t => ~Live(i)'
    <3> SUFFICES ASSUME NEW i \in Issues, i # k, issue'[i].task = t, Live(i)'
                 PROVE  FALSE
      OBVIOUS
    <3>1. Live(i) /\ i \in IssuesOf(t)
      BY <1>2 DEF Live, IssuesOf
    <3>2. issue[i].batch = n
      BY <1>1, <3>1 DEF PermissionInv, LivePermissionRestsOnAcceptedEvidence, n
    <3> QED  BY <1>7, <3>1, <3>2 DEF Permitted
  <2> SUFFICES ASSUME NEW u \in Tasks, NEW i \in Issues, NEW j \in Issues,
                      issue'[i].task = u, issue'[j].task = u, Live(i)', Live(j)', i # j
               PROVE  FALSE
    BY DEF OneLivePermission, IssuesOf
  <2>2. i # k /\ j # k
    BY <1>3, <2>1
  <2> QED  BY <1>2, <2>2 DEF PermissionInv, OneLivePermission, IssuesOf, Live
<1> QED  BY <1>8, <1>9, <1>10

LEMMA PermissionInvInductive ==
  /\ Init => PermissionInv
  /\ PermissionInv /\ [Next]_vars => PermissionInv'
<1>1. ASSUME Init PROVE PermissionInv
  <2>1. TypeOK
    BY <1>1, InitTypeOK
  <2> QED
    BY <1>1, <2>1
    DEF Init, PermissionInv, SessionsNameTheirTask, LockExclusive, HoldsTask, GateStands,
        LivePermissionsNameEvidence, DeclaredIsCompleted, Live, IssuesOf,
        LivePermissionRestsOnAcceptedEvidence, OneLivePermission,
        Idle, AbsentIssue, AbsentTask
<1>2. ASSUME PermissionInv, Next PROVE PermissionInv'
  <2>1. TypeOK' /\ SessionsNameTheirTask'
    BY <1>2, TypeStep DEF PermissionInv
  <2>2. LockExclusive' /\ GateStands' /\ DeclaredIsCompleted'
    BY <1>2, LockStep, GateStep, DeclaredStep
  <2>3. /\ LivePermissionsNameEvidence'
        /\ LivePermissionRestsOnAcceptedEvidence'
        /\ OneLivePermission'
    BY <1>2, NoIssueStep, IssueStep
  <2> QED  BY <2>1, <2>2, <2>3 DEF PermissionInv
<1>3. ASSUME PermissionInv, UNCHANGED vars PROVE PermissionInv'
  <2>1. \A t \in Tasks : EvidenceKept(t)
    BY <1>3 DEF vars, EvidenceKept
  <2>2. TypeOK' /\ SessionsNameTheirTask' /\ LockExclusive' /\ DeclaredIsCompleted'
    BY <1>3
    DEF PermissionInv, vars, TypeOK, SessionsNameTheirTask, LockExclusive, HoldsTask,
        DeclaredIsCompleted
  <2>3. GateStands'
    <3> SUFFICES ASSUME NEW s \in Sessions, NEW t \in Tasks, session'[s].task = t
                 PROVE  /\ session'[s].at = "issue_gated" =>
                             /\ task'[t].status = "open"
                             /\ task'[t].eligibility = "confirmed_eligible"
                             /\ ~task'[t].hold
                             /\ NewestAccepted(t)'
                        /\ session'[s].at = "declare_gated" =>
                             task'[t].basis = "none" /\ Exists(t)'
      BY DEF GateStands
    <3> QED  BY <1>3, <2>1, NewestKept DEF vars, PermissionInv, GateStands, Exists
  <2>4. LivePermissionsNameEvidence' /\ OneLivePermission'
    BY <1>3 DEF vars, PermissionInv, LivePermissionsNameEvidence, OneLivePermission,
       Live, IssuesOf
  <2>5. LivePermissionRestsOnAcceptedEvidence'
    <3>1. \A t \in Tasks : LatestBatch(t)' = LatestBatch(t)
      BY <2>1, NewestKept
    <3> QED
      BY <1>3, <3>1 DEF vars, PermissionInv, LivePermissionRestsOnAcceptedEvidence, Live,
         IssuesOf
  <2> QED  BY <2>2, <2>3, <2>4, <2>5 DEF PermissionInv
<1> QED  BY <1>1, <1>2, <1>3

LEMMA PermissionInvHolds == Spec => []PermissionInv
BY PermissionInvInductive, PTL DEF Spec

-----------------------------------------------------------------------------
(* A permission in force rests on the newest evidence of its task, which   *)
(* passed review, whatever submissions, reviews, withdrawals and issues    *)
(* overlap (issueAuthorization, submitEvidenceBatch).                      *)
THEOREM LivePermissionsAreGrounded == Spec => []LivePermissionRestsOnAcceptedEvidence
BY PermissionInvHolds, PTL DEF PermissionInv

(* However many members of staff issue at once, a task has at most one     *)
(* permission in force (the partial unique index and the row lock).        *)
THEOREM PermissionsAreUnique == Spec => []OneLivePermission
BY PermissionInvHolds, PTL DEF PermissionInv

(* A permission comes into force only at a step at which every             *)
(* precondition of the gate holds, and it covers no more than was          *)
(* confirmed (issueAuthorization, coverageFor).                            *)
THEOREM PermissionsArePreconditioned == Spec => PermissionNeedsEveryPrecondition
<1>1. ASSUME PermissionInv, Next, NEW i \in Issues,
             issue'[i].status = "active", ~Live(i)
      PROVE  LET t == issue'[i].task IN
             /\ task[t].status = "open"
             /\ task[t].eligibility = "confirmed_eligible"
             /\ ~task[t].hold
             /\ batch[t][LatestBatch(t)].status = "accepted"
             /\ issue'[i].items # {}
             /\ Within(issue'[i].items, task[t].confirmed)
  <2>1. PICK s \in Sessions : WriteIssue(s)
    BY <1>1, PermissionFrame DEF PermissionInv, NothingNewLive, Live
  <2> DEFINE t == session[s].task
             items == CoverageFor(batch[t][LatestBatch(t)].claims, task[t].confirmed)
  <2>2. /\ task[t].status = "open"
        /\ task[t].eligibility = "confirmed_eligible"
        /\ ~task[t].hold
        /\ NewestAccepted(t)
        /\ t \in Tasks /\ session[s].start \in Issues
    BY <1>1, <2>1, IssuerGate
  <2>3. i = session[s].start /\ issue'[i].task = t /\ issue'[i].items = items
    BY <1>1, <2>1, <2>2 DEF PermissionInv, TypeOK, WriteIssue, Live
  <2>4. items # {}
    BY <2>1 DEF WriteIssue
  <2>5. Within(items, task[t].confirmed)
    <3>1. batch[t][LatestBatch(t)].claims \in SUBSET Claim
      <4>1. batch[t][LatestBatch(t)] \in BatchRow
        BY <1>1, <2>2 DEF PermissionInv, TypeOK, NewestAccepted
      <4> QED  BY <4>1 DEF BatchRow
    <3>2. task[t].confirmed \in [Products -> 0..MaxQuantity]
      BY <1>1, <2>2 DEF PermissionInv, TypeOK, TaskRow
    <3> QED  BY <3>1, <3>2, CoverageWithinConfirmed DEF Within
  <2> HIDE DEF t, items
  <2> QED  BY <2>2, <2>3, <2>4, <2>5 DEF NewestAccepted
<1>2. ASSUME PermissionInv, [Next]_vars
      PROVE  [\A i \in Issues : issue'[i].status = "active" /\ ~Live(i) =>
                LET t == issue'[i].task IN
                /\ task[t].status = "open"
                /\ task[t].eligibility = "confirmed_eligible"
                /\ ~task[t].hold
                /\ batch[t][LatestBatch(t)].status = "accepted"
                /\ issue'[i].items # {}
                /\ Within(issue'[i].items, task[t].confirmed)]_vars
  BY <1>1, <1>2
<1> QED  BY <1>2, PermissionInvHolds, PTL DEF PermissionNeedsEveryPrecondition, Spec

(* Nothing reopens a closed task or changes what it was closed on          *)
(* (recordDeclaration, under the task row lock).                           *)
THEOREM ClosureStands == Spec => ClosureIsFinal
<1>1. ASSUME PermissionInv, Next, NEW t \in Tasks, task[t].basis # "none"
      PROVE  /\ task'[t].status = task[t].status
             /\ task'[t].basis = task[t].basis
             /\ task'[t].cited = task[t].cited
  <2>1. Exists(t)
    BY <1>1 DEF PermissionInv, DeclaredIsCompleted, Exists
  <2>2. \A s \in Sessions : ~(session[s].at = "declare_gated" /\ session[s].task = t)
    BY <1>1 DEF PermissionInv, GateStands
  <2> QED  BY <1>1, <2>1, <2>2, TaskRowMoves DEF PermissionInv
<1>2. ASSUME PermissionInv, [Next]_vars
      PROVE  [\A t \in Tasks : task[t].basis # "none" =>
                /\ task'[t].status = task[t].status
                /\ task'[t].basis = task[t].basis
                /\ task'[t].cited = task[t].cited]_vars
  BY <1>1, <1>2
<1> QED  BY <1>2, PermissionInvHolds, PTL DEF ClosureIsFinal, Spec
=============================================================================
