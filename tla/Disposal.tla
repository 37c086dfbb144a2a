------------------------------ MODULE Disposal ------------------------------
(***************************************************************************)
(* The consumer product-disposal service (modules/disposal) over its       *)
(* PostgreSQL tables, at the isolation the program really runs at: READ    *)
(* COMMITTED, with explicit row locks.                                     *)
(*                                                                         *)
(* Every method of the service is one transaction.  A method that takes    *)
(* the task row FOR UPDATE before it reads, and reads and writes only rows *)
(* that nobody changes without that lock, is one action, enabled while the *)
(* lock is free.  A method that reads something and writes later on the    *)
(* strength of what it read is several actions, and `session` holds what   *)
(* its transaction remembers in between; a transaction can fail at any     *)
(* point, and then leaves nothing behind (Abort).                          *)
(*                                                                         *)
(* A method that ends in an error before its first write changes nothing   *)
(* and is not a step: the guard of its action is the conjunction of the    *)
(* checks it passes.                                                       *)
(***************************************************************************)
EXTENDS DisposalPolicy, DisposalCoverage

CONSTANTS
  Tasks,            \* disposal tasks that submissions can open
  Sessions,         \* concurrent requests with a transaction of several steps
  Keys,             \* Idempotency-Key values consumers send
  Submissions,      \* what a batch can claim: sets of document claims
  Approvals,        \* approval rows that staff can record
  MaxInstructions,  \* bound: instruction versions of the campaign version
  MaxBatches,       \* bound: evidence batches per task
  MaxIssues,        \* bound: issue transactions begun
  MaxRowVersion,    \* bound: row version up to which eligibility is decided
  MaxTime           \* bound: instants at which approval windows change

NoBatch == 0
NoIssue == 0

Instructions == 1..MaxInstructions
BatchNumbers == 1..MaxBatches
Issues       == 1..MaxIssues

Approval == [input : ApprovalInput,
             window : [from : 0..MaxTime, until : 1..MaxTime + 1]]

ASSUME BoundsAssumption ==
  /\ MaxInstructions \in Nat /\ MaxBatches \in Nat /\ MaxIssues \in Nat
  /\ MaxRowVersion \in Nat /\ MaxTime \in Nat
ASSUME InputAssumption ==
  /\ Null \notin Tasks
  /\ Submissions \subseteq SUBSET Claim
  /\ Approvals \subseteq Approval

VARIABLES
  instruction,  \* status of each instruction version, or "absent"
  approvals,    \* the approval rows behind each version
  now,          \* the clock approval windows are compared with
  task,         \* disposal_tasks with its products, holds and declaration
  batch,        \* disposal_evidence_batches of each task, by batch number
  issue,        \* disposal_authorizations, by the begin of their transaction
  begun,        \* how many issue transactions have begun: issued_at's clock
  session       \* what each open multi-step transaction has read

vars == <<instruction, approvals, now, task, batch, issue, begun, session>>

-----------------------------------------------------------------------------
Bases == {"none", "authorization", "exception"}

TaskRow ==
  [status      : TaskStatuses \cup {"absent"},
   eligibility : EligibilityStatuses,
   version     : Nat \ {0},
   pinned      : {0} \cup Instructions,
   tokenLive   : BOOLEAN,
   hold        : BOOLEAN,
   confirmed   : [Products -> 0..MaxQuantity],
   basis       : Bases,
   cited       : {NoIssue} \cup Issues]

BatchRow ==
  [status : BatchReviewStatuses \cup {"absent"},
   key    : Keys \cup {Null},
   claims : SUBSET Claim]

IssueRow ==
  [status : AuthorizationStatuses \cup {"absent"},
   task   : Tasks \cup {Null},
   batch  : {NoBatch} \cup BatchNumbers,
   items  : SUBSET CoveredItem]

(* One record for every kind of transaction; a field a step does not need  *)
(* keeps its idle value.                                                   *)
Session ==
  [at      : {"idle", "submit_gated", "issue_begun", "issue_gated",
              "declare_gated", "eligibility_page"},
   task    : Tasks \cup {Null},
   key     : Keys \cup {Null},
   claims  : SUBSET Claim,
   start   : {NoIssue} \cup Issues,
   basis   : Bases,
   seen    : [version     : Nat,
              status      : TaskStatuses \cup {"absent"},
              eligibility : EligibilityStatuses]]

AbsentTask ==
  [status |-> "absent", eligibility |-> "pending_confirmation", version |-> 1,
   pinned |-> 0, tokenLive |-> FALSE, hold |-> FALSE,
   confirmed |-> [p \in Products |-> Unconfirmed],
   basis |-> "none", cited |-> NoIssue]

AbsentBatch == [status |-> "absent", key |-> Null, claims |-> {}]
AbsentIssue == [status |-> "absent", task |-> Null, batch |-> NoBatch, items |-> {}]

NothingSeen == [version |-> 0, status |-> "absent",
                eligibility |-> "pending_confirmation"]

Idle == [at |-> "idle", task |-> Null, key |-> Null, claims |-> {},
         start |-> NoIssue, basis |-> "none", seen |-> NothingSeen]

TypeOK ==
  /\ instruction \in [Instructions -> InstructionStatuses \cup {"absent"}]
  /\ approvals \in [Instructions -> SUBSET Approval]
  /\ now \in 0..MaxTime
  /\ task \in [Tasks -> TaskRow]
  /\ batch \in [Tasks -> [BatchNumbers -> BatchRow]]
  /\ issue \in [Issues -> IssueRow]
  /\ begun \in 0..MaxIssues
  /\ session \in [Sessions -> Session]

Init ==
  /\ instruction = [v \in Instructions |-> "absent"]
  /\ approvals = [v \in Instructions |-> {}]
  /\ now = 0
  /\ task = [t \in Tasks |-> AbsentTask]
  /\ batch = [t \in Tasks |-> [n \in BatchNumbers |-> AbsentBatch]]
  /\ issue = [i \in Issues |-> AbsentIssue]
  /\ begun = 0
  /\ session = [s \in Sessions |-> Idle]

-----------------------------------------------------------------------------
(* What a transaction reads.                                               *)

Exists(t) == task[t].status # "absent"

BatchesOf(t) == {n \in BatchNumbers : batch[t][n].status # "absent"}
LatestBatch(t) == Max({NoBatch} \cup BatchesOf(t))

(* ORDER BY issued_at DESC LIMIT 1; issued_at defaults to now(), which is  *)
(* the instant the inserting transaction began.                            *)
IssuesOf(t) == {i \in Issues : issue[i].task = t}
LatestIssue(t) == Max({NoIssue} \cup IssuesOf(t))

Live(i) == issue[i].status = "active"

Authorizing(v) ==
  \E a \in approvals[v] : /\ AuthorizesConsumerDisposal(a.input)
                          /\ ApprovalWindowIncludes(a.window, now)

(* loadTaskRecord: everything the gate needs, in one place. *)
StateOf(t) ==
  [taskStatus         |-> task[t].status,
   eligibility        |-> task[t].eligibility,
   instruction        |-> instruction[task[t].pinned],
   approvalAuthorizes |-> Authorizing(task[t].pinned),
   latestBatch        |-> IF LatestBatch(t) = NoBatch THEN Null
                          ELSE batch[t][LatestBatch(t)].status,
   holdActive         |-> task[t].hold,
   authorization      |-> IF LatestIssue(t) = NoIssue THEN Null
                          ELSE issue[LatestIssue(t)].status]

(* Mutants of the lock: a transaction that reads the task without it. *)
HoldsTaskToDeclare(s, t) == session[s].at = "declare_gated" /\ session[s].task = t
HoldsTaskToIssue(s, t)   == session[s].at = "issue_gated" /\ session[s].task = t

(* The task row lock is held between the steps of a transaction that took  *)
(* it; every other lockTask, and every insert that references the task     *)
(* (FOR KEY SHARE on its row), waits for it.                               *)
HoldsTask(s, t) ==
  /\ session[s].at \in {"issue_gated", "declare_gated"}
  /\ session[s].task = t
LockFree(t) == \A s \in Sessions : ~HoldsTask(s, t)

Enter(s, entry) == session' = [session EXCEPT ![s] = entry]
Leave(s) == session' = [session EXCEPT ![s] = Idle]

(* Mutant: permissions are left alone. *)
SuspendNone(chosen) == UNCHANGED issue

(* UPDATE disposal_authorizations SET status = 'suspended' WHERE ... AND   *)
(* status = 'active'.                                                      *)
SuspendLive(chosen) ==
  issue' = [i \in Issues |->
              IF i \in chosen /\ Live(i)
              THEN [issue[i] EXCEPT !.status = "suspended"] ELSE issue[i]]

-----------------------------------------------------------------------------
(* Content authoring.                                                      *)

CreateInstructionVersion(v) ==
  /\ instruction[v] = "absent"
  /\ \A w \in 1..v - 1 : instruction[w] # "absent"
  /\ instruction' = [instruction EXCEPT ![v] = "draft"]
  /\ UNCHANGED <<approvals, now, task, batch, issue, begun, session>>

RecordInstructionApproval(v, a) ==
  /\ instruction[v] # "absent"
  /\ approvals' = [approvals EXCEPT ![v] = @ \cup {a}]
  /\ UNCHANGED <<instruction, now, task, batch, issue, begun, session>>

PublishInstructionVersion(v) ==
  /\ instruction[v] = "draft"
  /\ instruction' = [instruction EXCEPT ![v] = "approved"]
  /\ UNCHANGED <<approvals, now, task, batch, issue, begun, session>>

(* Locks the version row, never a task row. *)
WithdrawInstruction(v) ==
  /\ instruction[v] \in {"draft", "approved"}
  /\ instruction' = [instruction EXCEPT ![v] = "withdrawn"]
  /\ SuspendLive({i \in Issues : \E t \in Tasks : /\ issue[i].task = t
                                                  /\ task[t].pinned = v})
  /\ batch' = [t \in Tasks |-> [n \in BatchNumbers |->
                 IF task[t].pinned = v /\ batch[t][n].status = "pending"
                 THEN [batch[t][n] EXCEPT !.status = "superseded"]
                 ELSE batch[t][n]]]
  /\ UNCHANGED <<approvals, now, task, begun, session>>

(* Time passes: approval windows open and close. *)
AdvanceTime ==
  /\ now < MaxTime
  /\ now' = now + 1
  /\ UNCHANGED <<instruction, approvals, task, batch, issue, begun, session>>

-----------------------------------------------------------------------------
(* The task: opened by a claim submission, confirmed and held by staff.    *)

(* The newest approved version with an authorizing approval in force. *)
OpeningVersions ==
  {v \in Instructions : instruction[v] = "approved" /\ Authorizing(v)}

CreateTaskForSubmission(t, hasIncident) ==
  /\ ~Exists(t)
  /\ OpeningVersions # {}
  /\ task' = [task EXCEPT ![t] =
                [AbsentTask EXCEPT !.status = "open",
                                   !.pinned = Max(OpeningVersions),
                                   !.tokenLive = TRUE,
                                   !.hold = hasIncident]]
  /\ UNCHANGED <<instruction, approvals, now, batch, issue, begun, session>>

(* Ninety days after the submission the consumer's credential stops working. *)
ExpireToken(t) ==
  /\ task[t].tokenLive
  /\ task' = [task EXCEPT ![t].tokenLive = FALSE]
  /\ UNCHANGED <<instruction, approvals, now, batch, issue, begun, session>>

ConfirmProductAffected(t, p, quantity) ==
  /\ Exists(t) /\ LockFree(t)
  /\ task' = [task EXCEPT ![t].confirmed[p] = quantity]
  /\ UNCHANGED <<instruction, approvals, now, batch, issue, begun, session>>

(* A member of staff opens the task page and later decides on what it      *)
(* showed: the request carries the row version of the page.                *)
OpenEligibilityPage(s, t) ==
  /\ session[s] = Idle
  /\ Exists(t)
  /\ Enter(s, [Idle EXCEPT !.at = "eligibility_page", !.task = t,
                           !.seen = [version |-> task[t].version,
                                     status |-> task[t].status,
                                     eligibility |-> task[t].eligibility]])
  /\ UNCHANGED <<instruction, approvals, now, task, batch, issue, begun>>

ConfirmEligibility(s, decided) ==
  LET t == session[s].task IN
  /\ session[s].at = "eligibility_page"
  /\ LockFree(t)
  /\ task[t].version = session[s].seen.version
  /\ task[t].version < MaxRowVersion
  /\ decided = "confirmed_eligible" =>
       \E p \in Products : task[t].confirmed[p] # Unconfirmed
  /\ task' = [task EXCEPT ![t].eligibility = decided,
                          ![t].version = @ + 1]
  /\ Leave(s)
  /\ UNCHANGED <<instruction, approvals, now, batch, issue, begun>>

(* Idempotent: a live hold is left as it is. *)
PlaceHold(t) ==
  /\ Exists(t) /\ LockFree(t)
  /\ task' = [task EXCEPT ![t].hold = TRUE]
  /\ UNCHANGED <<instruction, approvals, now, batch, issue, begun, session>>

ReleaseHold(t) ==
  /\ task[t].hold /\ LockFree(t)
  /\ task' = [task EXCEPT ![t].hold = FALSE]
  /\ UNCHANGED <<instruction, approvals, now, batch, issue, begun, session>>

-----------------------------------------------------------------------------
(* Evidence.                                                               *)

(* submitEvidenceBatch reads the task through its token and asks the gate, *)
(* without a lock.                                                         *)
GateSubmission(s, t, key, claims) ==
  /\ session[s] = Idle
  /\ Exists(t) /\ task[t].tokenLive
  /\ MaySubmitEvidence(StateOf(t))
  /\ Enter(s, [Idle EXCEPT !.at = "submit_gated", !.task = t,
                           !.key = key, !.claims = claims])
  /\ UNCHANGED <<instruction, approvals, now, task, batch, issue, begun>>

(* Mutant: only an undecided batch counts as a use of its key. *)
KeyPending(key) ==
  \E t \in Tasks : \E n \in BatchesOf(t) :
    batch[t][n].key = key /\ batch[t][n].status = "pending"

KeyUsed(key) == \E t \in Tasks : \E n \in BatchesOf(t) : batch[t][n].key = key

(* Mutants: every earlier batch is replaced, and the undecided one is not. *)
ReplacedWithAccepted == {"pending", "needs_resubmission", "accepted"}
ReplacedIfRefused    == {"needs_resubmission"}

Replaced == {"pending", "needs_resubmission"}

(* The insert takes the next number, waits for a holder of the task row,   *)
(* and then replaces what was there: undecided or refused batches are      *)
(* superseded and a live permission is suspended.                          *)
WriteBatch(s) ==
  LET t == session[s].task
      n == LatestBatch(t) + 1
  IN
  /\ session[s].at = "submit_gated"
  /\ ~KeyUsed(session[s].key)
  /\ n \in BatchNumbers
  /\ LockFree(t)
  /\ batch' = [batch EXCEPT ![t] = [m \in BatchNumbers |->
        IF m = n
        THEN [status |-> "pending", key |-> session[s].key,
              claims |-> session[s].claims]
        ELSE IF batch[t][m].status \in Replaced
             THEN [batch[t][m] EXCEPT !.status = "superseded"]
             ELSE batch[t][m]]]
  /\ SuspendLive(IssuesOf(t))
  /\ Leave(s)
  /\ UNCHANGED <<instruction, approvals, now, task, begun>>

(* The same Idempotency-Key again: the batch it made is returned while it  *)
(* is undecided, and the request is refused once it is decided.            *)
ReplayBatch(s) ==
  /\ session[s].at = "submit_gated"
  /\ KeyUsed(session[s].key)
  /\ Leave(s)
  /\ UNCHANGED <<instruction, approvals, now, task, batch, issue, begun>>

(* reviewBatch locks the batch, which must be pending, and then the task.  *)
ReviewBatch(t, n, decision) ==
  /\ batch[t][n].status = "pending"
  /\ LockFree(t)
  /\ batch' = [batch EXCEPT ![t][n].status = decision]
  /\ UNCHANGED <<instruction, approvals, now, task, issue, begun, session>>

-----------------------------------------------------------------------------
(* The permission.                                                         *)

(* The transaction begins: now() is fixed here, the lock is taken later. *)
BeginIssue(s, t) ==
  /\ session[s] = Idle
  /\ Exists(t)
  /\ begun < MaxIssues
  /\ begun' = begun + 1
  /\ Enter(s, [Idle EXCEPT !.at = "issue_begun", !.task = t,
                           !.start = begun + 1])
  /\ UNCHANGED <<instruction, approvals, now, task, batch, issue>>

(* lockTask, loadTaskRecord, and the hard gate on what was read.  The      *)
(* instruction version is read without a lock of its own.                  *)
GateIssue(s) ==
  LET t == session[s].task IN
  /\ session[s].at = "issue_begun"
  /\ LockFree(t)
  /\ CanIssueAuthorization(StateOf(t))
  /\ Enter(s, [session[s] EXCEPT !.at = "issue_gated"])
  /\ UNCHANGED <<instruction, approvals, now, task, batch, issue, begun>>

(* Mutant: the service checks the permission it finds, with no unique index. *)
LatestPermitted(t, n) ==
  /\ LatestIssue(t) # NoIssue
  /\ Live(LatestIssue(t)) /\ issue[LatestIssue(t)].batch = n

(* The partial unique index on the active permission of a task and batch. *)
Permitted(t, n) == \E i \in IssuesOf(t) : Live(i) /\ issue[i].batch = n

(* Coverage, then the insert. *)
WriteIssue(s) ==
  LET t == session[s].task
      n == LatestBatch(t)
      items == CoverageFor(batch[t][n].claims, task[t].confirmed)
  IN
  /\ session[s].at = "issue_gated"
  /\ n # NoBatch
  /\ items # {}
  /\ ~Permitted(t, n)
  /\ issue' = [issue EXCEPT ![session[s].start] =
                 [status |-> "active", task |-> t, batch |-> n, items |-> items]]
  /\ Leave(s)
  /\ UNCHANGED <<instruction, approvals, now, task, batch, begun>>

(* Ends the permission the service finds, unless it is revoked already. *)
RevokeAuthorization(t) ==
  LET i == LatestIssue(t) IN
  /\ LockFree(t)
  /\ i # NoIssue
  /\ issue[i].status # "revoked"
  /\ issue' = [issue EXCEPT ![i].status = "revoked"]
  /\ UNCHANGED <<instruction, approvals, now, task, batch, begun, session>>

-----------------------------------------------------------------------------
(* The declaration that closes the task.                                   *)

(* Locks the task through its token and asks the gate which of the two     *)
(* declarations is open.                                                   *)
GateDeclaration(s, t, basis) ==
  /\ session[s] = Idle
  /\ Exists(t) /\ task[t].tokenLive /\ LockFree(t)
  /\ task[t].basis = "none"
  /\ \/ basis = "authorization" /\ MayDeclareCompletion(StateOf(t))
     \/ basis = "exception" /\ MayDeclareException(StateOf(t))
  /\ Enter(s, [Idle EXCEPT !.at = "declare_gated", !.task = t, !.basis = basis])
  /\ UNCHANGED <<instruction, approvals, now, task, batch, issue, begun>>

(* Mutant: closing the task leaves the row version of open pages current. *)
ClosedSameVersion(t, basis) ==
  [task[t] EXCEPT !.status = "completed", !.basis = basis,
                  !.cited = IF basis = "authorization"
                            THEN LatestIssue(t) ELSE NoIssue]

Closed(t, basis) ==
  [task[t] EXCEPT !.status = "completed", !.basis = basis,
                  !.version = @ + 1,
                  !.cited = IF basis = "authorization"
                            THEN LatestIssue(t) ELSE NoIssue]

WriteDeclaration(s) ==
  LET t == session[s].task IN
  /\ session[s].at = "declare_gated"
  /\ task' = [task EXCEPT ![t] = Closed(t, session[s].basis)]
  /\ Leave(s)
  /\ UNCHANGED <<instruction, approvals, now, batch, issue, begun>>

(* A check or a constraint refuses, the connection drops, a deadlock       *)
(* victim is chosen: the transaction rolls back.                           *)
Abort(s) ==
  /\ session[s] # Idle
  /\ Leave(s)
  /\ UNCHANGED <<instruction, approvals, now, task, batch, issue, begun>>

-----------------------------------------------------------------------------
Authoring ==
  \/ \E v \in Instructions : \/ CreateInstructionVersion(v)
                             \/ PublishInstructionVersion(v)
                             \/ WithdrawInstruction(v)
  \/ \E v \in Instructions, a \in Approvals : RecordInstructionApproval(v, a)
  \/ AdvanceTime

TaskSteps(t) ==
  \/ \E hasIncident \in BOOLEAN : CreateTaskForSubmission(t, hasIncident)
  \/ ExpireToken(t)
  \/ \E p \in Products, q \in Quantities : ConfirmProductAffected(t, p, q)
  \/ PlaceHold(t)
  \/ ReleaseHold(t)
  \/ \E n \in BatchNumbers, d \in {"accepted", "needs_resubmission"} :
       ReviewBatch(t, n, d)
  \/ RevokeAuthorization(t)

SessionSteps(s) ==
  \/ \E t \in Tasks : \/ OpenEligibilityPage(s, t)
                      \/ BeginIssue(s, t)
                      \/ \E key \in Keys, claims \in Submissions :
                           GateSubmission(s, t, key, claims)
                      \/ \E basis \in {"authorization", "exception"} :
                           GateDeclaration(s, t, basis)
  \/ \E d \in EligibilityStatuses \ {"pending_confirmation"} :
       ConfirmEligibility(s, d)
  \/ WriteBatch(s)
  \/ ReplayBatch(s)
  \/ GateIssue(s)
  \/ WriteIssue(s)
  \/ WriteDeclaration(s)
  \/ Abort(s)

Next == \/ Authoring
        \/ \E t \in Tasks : TaskSteps(t)
        \/ \E s \in Sessions : SessionSteps(s)

Spec == Init /\ [][Next]_vars

-----------------------------------------------------------------------------
(* Safety.                                                                 *)

(* A permission that is in force rests on the newest evidence of its task, *)
(* and that evidence passed review: no submission, review, withdrawal or   *)
(* issue that overlaps another leaves a live permission on evidence that   *)
(* was replaced or refused (submitEvidenceBatch, issueAuthorization).      *)
LivePermissionRestsOnAcceptedEvidence ==
  \A t \in Tasks : \A i \in IssuesOf(t) :
    Live(i) => /\ issue[i].batch = LatestBatch(t)
               /\ batch[t][LatestBatch(t)].status = "accepted"

(* Two members of staff who issue at once do not both succeed.             *)
OneLivePermission ==
  \A t \in Tasks : \A i, j \in IssuesOf(t) : Live(i) /\ Live(j) => i = j

(* Submissions that passed the gate together are told apart when they      *)
(* write: reviewers have at most one batch of a task to decide, and it is  *)
(* the newest; and an Idempotency-Key makes one batch, whatever became of  *)
(* that batch when the request comes again (submitEvidenceBatch).          *)
SubmissionsAreSerial ==
  /\ \A t \in Tasks : \A n \in BatchesOf(t) :
       batch[t][n].status = "pending" => n = LatestBatch(t)
  /\ \A t, u \in Tasks : \A m \in BatchesOf(t), n \in BatchesOf(u) :
       batch[t][m].key = batch[u][n].key => t = u /\ m = n

(* A task is completed exactly when it carries a declaration, and the      *)
(* evidence under the permission a declaration cites stays accepted: a     *)
(* submission that was gated before the closing and lands after it does    *)
(* not rewrite what the declaration rests on (recordDeclaration).          *)
DeclarationKeepsItsEvidence ==
  \A t \in Tasks :
    /\ task[t].status = "completed" <=> task[t].basis # "none"
    /\ task[t].basis = "authorization" <=> task[t].cited # NoIssue
    /\ task[t].cited # NoIssue =>
         /\ issue[task[t].cited].task = t
         /\ batch[t][issue[task[t].cited].batch].status = "accepted"

-----------------------------------------------------------------------------
(* What a step may never do.                                               *)

Within(items, confirmed) ==
  \A item \in items : item.quantity <= confirmed[item.product]

(* A permission comes into force only when, at that very step, the task is *)
(* open, eligible and not on hold, the newest evidence is accepted and the *)
(* permission covers something, no more than was confirmed: no hold, no    *)
(* ruling, no new evidence and no declaration that another request commits *)
(* falls between the gate of the issue and its insert.                     *)
PermissionNeedsEveryPrecondition ==
  [][\A i \in Issues : issue'[i].status = "active" /\ ~Live(i) =>
       LET t == issue'[i].task IN
       /\ task[t].status = "open"
       /\ task[t].eligibility = "confirmed_eligible"
       /\ ~task[t].hold
       /\ batch[t][LatestBatch(t)].status = "accepted"
       /\ issue'[i].items # {}
       /\ Within(issue'[i].items, task[t].confirmed)]_vars

(* A task closes on a permission only while it is eligible, not on hold    *)
(* and its newest evidence is accepted, and the permission cited covers    *)
(* that evidence and was not revoked: a hold or a revocation that commits  *)
(* first stops the declaration (recordDeclaration).                        *)
CompletionNeedsPermission ==
  [][\A t \in Tasks :
       task[t].basis = "none" /\ task'[t].basis = "authorization" =>
         /\ task[t].eligibility = "confirmed_eligible"
         /\ ~task[t].hold
         /\ batch[t][LatestBatch(t)].status = "accepted"
         /\ issue[task'[t].cited].batch = LatestBatch(t)
         /\ issue[task'[t].cited].status # "revoked"]_vars

(* A task closes once: neither a second declaration nor anything staff do  *)
(* afterwards reopens it or changes the basis it was closed on.            *)
ClosureIsFinal ==
  [][\A t \in Tasks : task[t].basis # "none" =>
       /\ task'[t].status = task[t].status
       /\ task'[t].basis = task[t].basis
       /\ task'[t].cited = task[t].cited]_vars

(* Staff decide eligibility on the status and eligibility their page       *)
(* showed: a page left open while the consumer closes the task, or while a *)
(* colleague decides, no longer decides anything (confirmEligibility).     *)
EligibilityDecidedOnWhatWasSeen ==
  [][\A s \in Sessions :
       session[s].at = "eligibility_page" /\ task' # task
         /\ session'[s] = Idle =>
         /\ task[session[s].task].status = session[s].seen.status
         /\ task[session[s].task].eligibility = session[s].seen.eligibility]_vars

-----------------------------------------------------------------------------
(* The promise, seen through the tables.                                   *)

StageOf(t) ==
  CASE task[t].basis = "authorization" -> "permitted"
    [] task[t].basis = "exception"     -> "excepted"
    [] OTHER -> IF Exists(t) THEN "open" ELSE "none"

VerdictOn(t) ==
  LET n == LatestBatch(t) IN
  IF n = NoBatch THEN "none"
  ELSE CASE batch[t][n].status = "pending"  -> "pending"
         [] batch[t][n].status = "accepted" -> "accepted"
         [] OTHER                           -> "refused"

PermissionOf(t) ==
  LET resting == {i \in IssuesOf(t) : issue[i].batch = LatestBatch(t)} IN
  CASE resting = {}                -> "none"
    [] \E i \in resting : Live(i) -> "live"
    [] OTHER                       -> "ended"

Promise == INSTANCE DisposalPermission WITH
             stage      <- [t \in Tasks |-> StageOf(t)],
             evidence   <- [t \in Tasks |-> VerdictOn(t)],
             permission <- [t \in Tasks |-> PermissionOf(t)]

(* Every step of the service is a step of DisposalPermission or changes    *)
(* nothing it speaks of: evidence is judged once, only accepted evidence   *)
(* carries a permission, new evidence drops it, and a task closes once.    *)
KeepsPromise == Promise!ASpec

-----------------------------------------------------------------------------
(* What a comment or a document says, and the code does not do.            *)

(* drizzle-disposal-service.ts:1123: withdrawing an instruction version    *)
(* "suspends every permission resting on it".                              *)
WithdrawalLeavesNoLivePermission ==
  \A i \in Issues :
    Live(i) => instruction[task[issue[i].task].pinned] # "withdrawn"
=============================================================================
