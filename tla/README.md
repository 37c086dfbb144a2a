# KOI Recall Backend: formal models

TLA+ models of the recall backend in `src/`, checked with TLC on small instances and,
for the results that matter most, proved with TLAPS for every value of the constants.
The backend is a TypeScript service (Hono routes, Drizzle over PostgreSQL, a blob store,
an e-mail provider, two scheduled workers). Its core logic is transactional: what makes it
right or wrong is which row locks, unique indexes and conditions a request relies on while
other requests, webhooks, workers and staff act on the same rows.

## 1. Inventory

Paths below are relative to `src/src/`.

| Component | State it keeps | Operations | What is hard | What makes it correct |
|---|---|---|---|---|
| Disposal gate (`modules/disposal/policy.ts`) | none, pure | blocking reasons, offered actions, authorizing algebra, approval window | order of precedence, window boundaries | asked by every disposal operation; a permission only if nothing blocks |
| Disposal service (`modules/disposal/drizzle-disposal-service.ts`) | instruction versions and approvals, tasks with products, holds, batches, permissions, declarations | author, approve, publish, withdraw; open task, confirm, decide eligibility, hold; submit, review, issue, revoke, declare | gate read and write in different steps; withdrawal that locks no task; stale pages; retries with an Idempotency-Key | a permission in force rests on accepted newest evidence; closing is final and rests on a permission |
| Disposal coverage (`coverageFor` there) | none, pure | coverage of a permission from claims and confirmations | several claims on a product, null product, null quantity, unordered rows | never more than confirmed, at least one unit |
| Evidence documents (`modules/documents`, `routes/webhooks.ts`) | document rows, webhook events, blobs | authorize upload, complete, remove | callback redelivery and lateness, crash between two updates, blob and row disagree | a verified document has its bytes; a referenced one is never deleted |
| Draft cleanup worker (`jobs/draft-cleanup-worker.ts`) | the same rows | claim, remove blob, finalize | races with submission and with callbacks | never deletes what a batch or claim names |
| Claim drafts and submission (`modules/claim-drafts`, `modules/cases`) | drafts, cases, idempotency records | create draft, submit, replay | double submission, expiry of the record, files removed meanwhile | one case per draft; a retry is answered; a case starts whole |
| Case workflow (`modules/workflow/policy.ts`, `public-status.ts`, `case-status-emails.ts`) | none, pure | transition table, stages, queues, consumer status, e-mails owed | rules in five places that must agree | every open case has a way on; nothing hopeful about a refused claim |
| Case administration (`modules/admin`) | case status, escalations, safety reviews | transitions behind gates, open and close escalations, decide reviews | gates read a limited set; unconditioned updates; reads after the lock | closed means nothing is owed and the remedy is done |
| Case resolutions (`modules/resolutions`) | resolution rows with a version, e-mails about them | approve, complete, ship, cancel | pages opened earlier, a transition beside it | decided on what was shown; what was written stays true |
| Refund exports (`modules/refund-exports`) | batches and items | select and write | two exports at once | an exported refund never changes |
| Outbox worker (`jobs/drizzle-outbox-worker.ts`) | outbox events, communications | claim, send, record, retry, dead-letter | stops anywhere, lost answers, failed commits | at most one send per attempt; everything is settled |
| Communications and delivery events (`modules/communications`) | communications, webhook events | queue, apply a report | reports early, late, reordered, repeated | a report is applied once, to its own e-mail |
| Campaigns (`modules/campaigns`) | versions, approvals, the published pointer | publish behind a gate, read | two publications, readers between statements | what was published stands |
| Product identification (`modules/product-identification`) | none, pure | identify, evidence profile | claims ask product by product, checks about all | both triage alike, but for what only one contract trims |
| Staff access (`modules/staff`, `middleware/staff-auth.ts`, `routes/admin-guard.ts`) | accounts, sessions, a policy with a revision, the audit trail | sign in, manage accounts, edit the policy, call a route | stale pages, roles given while they are deleted, effect and audit row | edits are not lost; roles in use exist; the trail tells the truth |
| Consumer accounts (`routes/consumer-auth.ts`, status lookup) | accounts, sessions | register, log in, list and open claims | addresses typed differently, racing registrations | a consumer sees exactly their claims |
| Rate limiting, crypto, masking, blob and e-mail adapters, HTTP surface, schema, scripts | external or none | | | see section 8 |

How they interact: claim submission links document rows, creates a case in its starting status
and opens the disposal task inside its own transaction; disposal, cases and resolutions queue
e-mails by writing communications and outbox events in the transaction that causes them; the
outbox worker and the provider's webhook finish them; evidence batches and claims name
document rows that the upload callback verifies and the cleanup worker deletes; staff reach all
of it through routes that ask for a permission and write an audit row. Everything shares one
PostgreSQL at READ COMMITTED (`db/client.ts` sets no isolation level), so a plain SELECT
promises nothing about the next statement. `PROJECT.json` lists every component and, under
`hazards`, every place where that bites.

## 2. Modules

    DisposalPolicy       the gate: policy.ts as operators
    DisposalCoverage     coverageFor as a function of sets
      CoverageLoop       coverageFor as the loop that is written, over rows in any order
    Disposal             the service over its tables  (EXTENDS the policy and the coverage)
      DisposalPermission what the service promises about a task; Disposal implements it
    EvidenceDocuments    the files behind claims and batches: rows, objects, callbacks, cleanup
    CaseWorkflow         transition table, stages, queues, consumer status, e-mails owed
      CaseDesk           what staff does with a case      (EXTENDS CaseWorkflow)
      ClaimSubmission    from a draft to a case           (EXTENDS CaseWorkflow)
      ConsumerAccounts   accounts and what they show      (EXTENDS CaseWorkflow)
    Outbox               e-mails, the worker, the provider, its reports
    AdminRoutes          which route needs which permission and how the trail learns of it
      StaffAccess        accounts, policy, sessions, calls (EXTENDS AdminRoutes)
    Campaigns            publishing and reading a version
    ProductIdentification  identify, as a check and as a claim ask it
    MCDisposal, MCEvidenceDocuments, MCCaseDesk, MCOutbox     inputs and symmetry for TLC
    MCServices           CoverageLoop, ClaimSubmission, StaffAccess, Campaigns,
                         ProductIdentification and ConsumerAccounts side by side
    DisposalCoverageProofs, DisposalProofs, DisposalDeclarationProofs,
    EvidenceDocumentsProofs, CaseDeskProofs, OutboxProofs,
    ClaimSubmissionProofs, ServicesProofs                     theorems

### Disposal

State, and the tables it stands for:

| Variable | Code |
|---|---|
| `instruction`, `approvals` | `disposal_instruction_versions`, `disposal_instruction_approvals` |
| `task` | `disposal_tasks` with `disposal_task_products` (`confirmed`: 0 is not confirmed), `disposal_holds`, `disposal_declarations` (`basis`, `cited`), `row_version`, and whether the consumer's token still works |
| `batch` | `disposal_evidence_batches` with the claims of their documents |
| `issue` | `disposal_authorizations`, numbered by the begin of their transaction, which is what `issued_at` records |
| `begun` | how many such transactions have begun |
| `session` | what an open transaction of several steps has read; for eligibility, what a page in a browser shows |
| `now` | the clock of approval windows |

Actions: one per service method when the method is effectively atomic, that is when it takes
the task row `FOR UPDATE` before it reads and nobody writes what it reads without that lock
(`ConfirmProductAffected`, `PlaceHold`, `ReleaseHold`, `ReviewBatch`, `RevokeAuthorization`,
instruction authoring). A method that reads and later writes on the strength of what it read
is several actions:

| Method | Actions | Lock between them |
|---|---|---|
| `submitEvidenceBatch` | `GateSubmission`, then `WriteBatch` or `ReplayBatch` | none; the insert's `FOR KEY SHARE` on the task waits for a holder of the row |
| `issueAuthorization` | `BeginIssue` (fixes `now()`), `GateIssue`, `WriteIssue` | the task row from `GateIssue` on; the instruction version is not locked |
| `recordDeclaration` | `GateDeclaration`, `WriteDeclaration` | the task row |
| `confirmEligibility` | `OpenEligibilityPage`, `ConfirmEligibility` | none; the row version of the page |

`Abort` ends any of them without an effect: a check or constraint refuses, the connection
drops, PostgreSQL picks a deadlock victim. A method that fails before its first write changes
nothing and is the absence of a step. `WithdrawInstruction` locks the version row and no
task, which is why it can fall between `GateIssue` and `WriteIssue`.

What the model abstracts, and why it is sound:

* the several SELECTs of one gate are one instant. For the gates under the task row lock only
  the instruction rows could move in between. For the submission gate none of the checked
  properties uses what the gate let through, so they hold for any interleaving of its reads;
* `CreateTaskForSubmission` is atomic: its selection and its insert commute with everything
  but a withdrawal, and with that it equals an earlier creation;
* the wording of refusals, audit rows, e-mails and read models are left out; the audit row is
  written in the transaction of its method and never decides anything;
* a null end of an approval window is the extreme of the window; approvals are never withdrawn
  by any operation, so `withdrawnAt` has no counterpart;
* what a batch's photos are (uploaded, verified, removed) is the subject of `EvidenceDocuments`; a batch here
  always has usable photos.

Things of the code the model keeps on purpose, because they surprise: eligibility can be
decided on a closed task (only the row version is checked), a batch can be reviewed after its
task closed or its instructions were withdrawn, products can be confirmed at any time.

### DisposalPermission

The abstract specification: stage of a task, verdict on its newest evidence, the permission
that rests on it. Clocks, versions, products, locks and transactions are gone. `KeepsPromise`
in `Disposal` is its specification under the mapping `StageOf`, `VerdictOn`, `PermissionOf`.
`Send` is allowed on a closed task: a submission that passed its gate before the closing is
written after it. `Withdraw` acts on any set of tasks, those pinned to the version.

### EvidenceDocuments

The files of one claim draft and of the disposal task that follows it. Nothing here runs in
one transaction: the upload callback and the cleanup worker commit every statement by itself,
so each statement is an action, and a crash or a failed statement can fall between any two.

| Variable | Code |
|---|---|
| `document`, `expired` | `document_uploads`: status, `category_slot`, `storage_pathname`; whether `expires_at` has passed |
| `authorization` | the request that inserts the row, then the upload token it handed out |
| `upload` | the objects of the store, each with the `webhook_events` row of the event that announces it |
| `callback` | what an invocation of `reconcileCompletedUpload` has read and done so far |
| `worker` | the row a cleanup run treats, with the path its scan returned |
| `draft`, `gate` | the claim draft's status and expiry; whether the disposal task accepts evidence |
| `submission`, `removing` | photos a disposal submission has checked; removals past their gate |
| `batches`, `elapsed` | `disposal_evidence_batch_documents`, and the batches whose retention has ended |

| Code | Actions |
|---|---|
| `authorizeUpload` | `GateUpload`, `InsertDocument` (any slot the unique index accepts), `MintToken` or `RollBackDocument`; `EndAuthorization` when the token's hour ends or the request dies |
| the client and the store | `PutObject`: with one token as often as it likes, each put an object of its own |
| `reconcileCompletedUpload` | `ReceiveCallback`, `ClaimEvent`, `ReadDocument`, `LandUpload` (phase 1), `DecideUpload` (phase 2), `FinishCallback`; `FailCallback` is its catch block, `CrashCallback` the end of the process |
| removals | `RemoveDraftDocument` (locks what it reads), `GateRemoval` then `RemoveEvidenceDocument` (one guarded UPDATE) |
| submissions | `SubmitClaim` (locks draft and rows), `CheckEvidence` then `WriteBatch` or `AbandonBatch` |
| `runBatch` | `Scan`, `ClaimDocument` (guarded UPDATE), `RemoveObject`, `RecordDeletion`; `LeaveDocument` when the store or the process fails |

A callback can be delivered any number of times, at any time after the put, and beside
another. Abstractions: a run treats one row at a time, as the code's loop does, and the scans'
limit of a hundred rows is left out; the claim has one category of files; no malware scanner
is wired, so the verdict is the comparison of declared and detected type only; sizes are left
out. `MoveGate` lets the disposal task accept, await review of, or refuse evidence at any time,
which is what `Disposal` decides. At the provisional path of a row that was never uploaded to
there is no object, since the store adds a random suffix to every path.

### CaseWorkflow and CaseDesk

`CaseWorkflow` has no state: `BaseTransitions`, `AllowedTransitions`, `Stage` and
`ResolutionActions` are `evaluate` of `modules/workflow/policy.ts`, `QueueStatuses` and
`Listed` the filters of the queues, `PublicStatus` and `ApprovalShown` what the consumer's
status page says, `StatusEmail` which e-mail a transition owes. `CaseDesk` uses them over the
tables:

| Variable | Code |
|---|---|
| `case` | `recall_cases`: status, `incident_flag`, and whether the owner forced the last transition |
| `review` | `reportability_reviews`: the one row a case can have |
| `escalation` | `case_escalations` |
| `resolution` | `case_resolutions`: status, approved type, shipment, `version` |
| `mail` | the e-mails about a remedy that were queued to the consumer of a case |
| `export` | `refund_export_items` of each batch |
| `request` | what an open transaction has read, or an open page shows |

| Code | Actions |
|---|---|
| `transitionCaseStatus` | `GateTransition` (locks the case, reads escalations, review and resolution, which it does not lock), `WriteTransition` |
| `closeReportabilityReview` | `ReadReview`, `CloseReview`: no lock, and an update by the id alone |
| `createEscalation`, `closeEscalation` | `OpenEscalation`, `CloseEscalation` |
| `approve`, `complete`, `recordShipment`, `cancel` | `OpenResolutionPage`, then one action each, which locks the row and compares the version of the page |
| `RefundExportService.export` | `ReadExport`, `WriteExport` |
| anything that is refused or given up | `Abandon` |

`OpenEscalation` and the decisions about a remedy insert a row that references the case and so
wait for a transition that holds it (`CaseLocked`). The page of escalations a closing reads is
any `EscalationsRead` of them, as the query has a limit and no order.

### Outbox

| Variable | Code |
|---|---|
| `event` | `outbox_events`: status, attempts, whether `available_at` has passed |
| `communication` | `communications`: status and `provider_message_id` |
| `worker` | the rest of a run's batch and what it does with the event in hand |
| `message` | the provider's: the e-mail behind each message it accepted |
| `delivery`, `hook` | `webhook_events`; what an invocation of the webhook has established |
| `orphan` | history: events that stopped runs left in `processing` |

`Queue` is `queue()`, part of its caller's transaction. A run is `Claim` (one transaction, FOR
UPDATE SKIP LOCKED), then for each event `SendNothing` or `Send`, `RecordSent` or
`RecordThrows`, and `Fail` in the catch block; `Interrupt` is the end of the process at any of
these points. `Send` may lose the provider's answer, `RecordSent` may commit without the
worker hearing of it. The webhook is `ReceiveReport`, `FindCommunication` or
`FindNoCommunication`, `ApplyReport`, and `StopHook` at any point.

### ClaimSubmission, ConsumerAccounts

`ClaimSubmission` is the transaction of `submit` in the steps its locks divide it into:
`BeginSubmission` takes the time, before the transaction; `LockDraft` answers a submission that
is over or goes on; `CheckSubmission` locks the documents; `CommitSubmission`, `Collide` with
`AnswerCollision` (the unique index on endpoint and key), `RunOutOfReferences` or `BreakOff`
end it. `clock` is shared by the database and the service, and the model lets it pass between
the moment a submission takes its time and the moment it gets the lock. `Tick`, `CloseCampaign`,
`CreateDraft`, `UploadDocument` and `RemoveDocument` are the world around it; the life of a file
is the subject of `EvidenceDocuments`, the e-mail of `Outbox`, the task it opens of `Disposal`.

`ConsumerAccounts` keeps an address as a mailbox and the way it was typed. Registration is
`CheckAddress`, `InsertAccount`, `EndRegistration`; `LogIn` and `EndSession` are sessions;
`FileClaim` and `MoveCase` are claims and what staff does to them. `ClaimsOf`, `Opens` and
`Finds` are the list, the detail and the lookup; `AccountStatus` is `normalizeClaimStatus`.

### AdminRoutes, StaffAccess

`AdminRoutes` lists every route of `routes/admin.ts` and of the staff side of
`routes/disposal.ts` with its permission and how the audit trail learns of it, and what
the built-in roles grant. In `StaffAccess` a call arrives with what its session held then
(`Arrive`) and ends as one of `AnswerRead`, `LogDisclosure` and `Disclose`, `CommitChange`,
`Announce` and `LogAnnouncement`, `RecordDenial`, or `BreakCall` anywhere. The calls that change
accounts (`CheckManagement`, `ValidateRoles`, `CommitManagement`) and the policy
(`OpenPolicyPage`, `SendPolicy`, `LockPolicy`, `CommitPolicy`) have their effects modelled; the
effects of the others are in the modules of their components. The row of the policy is locked
by editing it and by assigning roles by their identifiers.

### Campaigns, ProductIdentification

`Campaigns`: `GatePublication` reads and checks, `PublishVersion` writes under the condition that
the version is a draft; a reader is `ReadCampaign`, `ReadVersion`, `ReadContent`, three
statements without a transaction. `ProductIdentification`: `Identify` and `EvidenceProfile` are
the policy, `CheckProduct` asks it about all products of a version, `ClaimProduct` is what a
claim sends about each product alone. The legacy fields of a check are one attribute and one
code here, each typed with or without blanks around it (`Sent`), and a purchase trail is absent
or given. `CheckSignals` and `ClaimSignals` are what the two contracts make of it: that of a check
trims, that of a claim does not, and a value with blanks around it equals nothing a row holds.
Rows are taken to hold trimmed values, as the seeds write them. Both questions are put to one
version: a check reads the published one, a claim the one its draft pinned, and when these
differ nothing relates the answers.

## 3. Runs

| Run | Instance | Asks | Distinct states |
|---|---|---|---|
| `disposal_core` | 1 task, 2 requests, 2 keys, 2 batches, 3 issues, an approval that runs out | do live permissions, batches and declarations agree with the evidence under every overlap of two requests with staff, time and withdrawal; does the service implement its promise when evidence is sent again | 272 806 |
| `disposal_products` | 2 products, 4 kinds of claims, 2 requests, 2 keys, 2 batches, 1 issue | what a permission covers, and whether a hold, a ruling, new evidence or a declaration of another request can fall between its gate and its insert | 2 474 747 |
| `case_desk` | 1 case, 2 requests or pages, 2 escalations of 2 categories, 1 export, 4 versions of a resolution | do closings, remedies, reviews, e-mails and exports agree under every overlap of two members of staff | 2 024 775 |
| `outbox` | 2 e-mails, 2 worker runs, 2 webhook invocations, 2 attempts, 2 messages, 2 reports of 2 kinds, fairness | who sends what how often, what is recorded of it, and whether it ends | 396 780 |
| `services` | 2 drafts, 2 submissions, 2 keys, 1 file, 3 instants; 2 calls, 1 account, 3 roles, 2 edits; 3 versions, 2 publications, 1 reader; 2 products, 2 variants, 1 identifier, 1 code; 2 mailboxes, 2 accounts, 2 registrations, 1 claim; 2 products and up to 3 document rows | the properties of the six components that share no state with one another, one component in each behaviour | 1 267 149 |
| `evidence_claim` | 1 file, 2 uploads, 2 callbacks, 1 cleanup run | do row and object stay together through repeated, late and failing callbacks, removal, claim submission and cleanup | 2 468 086 |
| `evidence_photos` | 2 photos, 1 slot, 2 submissions, 2 cleanup runs, 1 callback | is retained evidence safe from its owner and the worker; is the quota kept | 1 956 256 |
| `disposal_withdrawal`, `two_reviewers`, `evidence_removal_race`, `evidence_redelivery`, `evidence_leftover` | smallest that shows it | a sentence of the code that the code does not keep (section 5) | violated |

Bounds. Two concurrent requests are what every hazard listed needs (one that read and one that
wrote); staff actions, time, reviews and withdrawals interleave with both without using a
request. Two batches show replacing, three issues show a permission issued, ended and issued
again while another is open. One instruction version is enough here: a task is pinned to one
when it opens and no later step looks at another; the theorems are for any number. Two products and two units separate covered, confirmed and
claimed. `MaxRowVersion` bounds eligibility decisions per task, not closings.
`MaxTime = 1` of `Disposal` gives the instant an approval expires. Two uploads with one token
and two callbacks are what a late or repeated callback needs to meet another; two photos in one
slot make authorizations compete; two cleanup runs can hold scans of the same row.

On the desk no table relates two cases except a batch of exports and an escalation that names
the review of another case, and the theorems of section 6 are for any number of cases; one case
with two requests has every race. Four versions let a remedy be approved, shipped and decided
once more, two escalations let one of them owe a review and the other only be open, and
`EscalationsRead = 2` means a closing sees all of them: the limit of the code is twenty. Two
attempts of an e-mail give a retry and a last one; two messages give a second send after a lost
answer, or two e-mails that must not be confused. A report meets another invocation of the same
report, a report of another kind on the same message, or one on another message: two reports
(`MaxReports`), each delivered again and again, are each of these. In `services`,
three instants let a draft and a record expire before, between and after two submissions; a
file in one of two bodies lets it be removed while it is submitted; one of three versions lacks
its products and may not be published; the lots of a product are
one at most and the products have two, so that a claim's scope differs from a check's.

Sessions, tasks, keys, files, callbacks, workers, requests, escalations, drafts, submissions and
references are interchangeable (`SYMMETRY`); in `services` the components reuse the same model
values, so one symmetry serves them all. No run with symmetry checks liveness. Deadlock is not
checked: when every bound is used up the model stops, and so may the service, which waits for
people.

Every property is matched by a mutant, a definition the model is run with in place of the
faithful one (a dropped lock, a constraint replaced by a check, a row version not
incremented), under which TLC finds the property violated. Mutant definitions stand next to
the definition they replace and are marked so.

## 4. Properties

Each is stated in words above its definition.

* `Disposal`: `LivePermissionRestsOnAcceptedEvidence`, `OneLivePermission`,
  `SubmissionsAreSerial` (at most the newest batch of a task is undecided, and a key makes one
  batch), `DeclarationKeepsItsEvidence`; of every step
  `PermissionNeedsEveryPrecondition`, `CompletionNeedsPermission`, `ClosureIsFinal`,
  `EligibilityDecidedOnWhatWasSeen`; the refinement `KeepsPromise`. `CoverageLoop`:
  `LoopComputesCoverage`.
* `EvidenceDocuments`: `KeptFileHasItsObject`, `FilesWithinLimit`; of every step
  `DecidedFilesStand` (a linked document, a deleted one and the path of a verified one are
  final) and `RetainedEvidenceStays`.
* `CaseDesk`: `ClosedMeansRemedied`, `MailedFactsStand`, `ExportsAreFinal`, `OpenCasesHaveAWay`;
  of every step `ClosingOwesNothing`, `DecidedOnWhatWasShown`, `TerminalFactsAreSticky`.
* `Outbox`: `SendsAreClaimed` (no two runs have an e-mail in hand, and it is sent at most once
  per attempt), `RecordsAreTrue`, `ReportsAreAppliedOnce`, and the liveness property
  `EventsAreSettled`.
* `ClaimSubmission`: `OneCasePerDraft`, `RetriesAreAnswered`, `CasesStartWhole`. `StaffAccess`:
  `RolesInUseExist`, `PolicyEditsAreNotLost`, `AuditTellsTheTruth`. `Campaigns`:
  `PublicationsStand`. `ProductIdentification`: `ClaimsAgreeWithChecks` (of one version; fields
  typed with blanks around them are the named exception, for which the claim is told no more
  than the check). `ConsumerAccounts`: `ConsumersSeeTheirClaims` (both directions, with the
  named exception of an open case that has an approved or completed remedy).

Fairness. `FairSpec` of `Outbox` assumes that time passes (weak fairness of `BecomeDue`), that a run goes
on with its batch unless it is stopped (weak fairness of `Work`), and that an event which is due
again and again is claimed some time (strong fairness of `ClaimOf`: the job is scheduled in
`vercel.json`, and a claim takes due events in no order, so this also says that the backlog does
not outgrow the batch limit for ever). Stopping is not excluded, nor does it have to end: an
event in the hands of a stopped run stays `processing`, nothing takes it up again, and
`EventsAreSettled` exempts exactly these (`orphan`). Without the exemption it is violated.

There is no liveness property of the other services and no fairness: every step waits for a
consumer or for staff, and nothing in the code retries or times out. The cleanup worker would
retry, but nothing in the repository calls it: `vercel.json` schedules the outbox only, and
`/internal/jobs/cleanup-drafts` waits for somebody else. So no property says that a deletion
completes; what its completion is worth is section 5, 5.

## 5. Disagreements between the code and what is written about it

1. Withdrawing an instruction version "suspends every permission resting on it"
   (`drizzle-disposal-service.ts:1123`). A permission being issued is not yet there when the
   withdrawal looks, and its version was read without a lock: it becomes active on a withdrawn
   version (`WithdrawalLeavesNoLivePermission`, run `disposal_withdrawal`). The gate still
   refuses the declaration that would use it.
2. "Only a pending Reportability Review can be closed" (`drizzle-admin-service.ts:581`). The
   review is read without a lock and updated by its id alone, so two reviewers who both find it
   pending both close it, and the second decision replaces the first (`DecidedReviewIsFinal`,
   run `two_reviewers`).
3. A batch submitted beside a removal "either lands first (the retention condition then
   refuses) or lands after (its usability check then sees a photo no longer `verified`). No
   separate lock is needed" (`drizzle-disposal-service.ts:573-575`). The usability check is a
   plain SELECT in another transaction: it can come before the removal and its insert after it,
   and the batch names a photo that is being deleted (`BatchKeepsItsPhotos`, run
   `evidence_removal_race`). The cleanup worker's claim relies on the same argument
   (`draft-cleanup-worker.ts:94-96`) and has the same gap.
4. "A crash after phase 1 leaves the row in `uploaded`, which the reclaimable webhookEvents
   claim above lets a redelivered event finalize here" (`drizzle-document-service.ts:406-408`).
   The redelivered event acts on a row that is `authorized` or `deletion_pending` only; the row
   stays `uploaded` and the event is marked processed (`ProcessedUploadIsDecided`, run
   `evidence_redelivery`).
5. "Only a row whose blob was actually removed advances to `deleted`"
   (`draft-cleanup-worker.ts:37-38`). The worker deletes the path its scan read and then marks
   the row by its id; a callback that records another path in between leaves a row that is
   `deleted` while the object at its path stays, and no scan returns it again
   (`DeletedRowHasNoObject`, run `evidence_leftover`).

The behaviours of the models also contain the following, for which no run is kept.

Disposal and files:

* "Replay of the same submission returns the batch that was created"
  (`drizzle-disposal-service.ts:664`): the gate is asked before the key is looked up (`:657`),
  and refuses a retry while the batch it would return is under review;
* "the task holds at most one active one, the server can find it" (`:1062`): the server reads
  the newest by `issued_at`, the begin of the inserting transaction; of two issue requests
  that overlap with a revocation between their inserts, the active one can be the older;
* a submission gated early is written while a permission is live, although "no state exists in
  which a submission meets a live permission" (`docs/disposal-acceptance.md:103`). The write
  suspends what it meets, so `LivePermissionRestsOnAcceptedEvidence` survives;
* of two callbacks with one token, the one whose phase 1 found no row still decides, and its
  verdict is recorded for the object of the other (`drizzle-document-service.ts:424`);
* a row reaped by the worker keeps its slot of the quota (`draft-cleanup-worker.ts:101`,
  against `docs/phase-1/02-database-design.md:92`);
* an expired `rejected` row of a claim is returned by no scan (`draft-cleanup-worker.ts:14`).

Cases:

* the gate that "no role may bypass" reads at most twenty escalations, in no order
  (`drizzle-admin-service.ts:1390`): an open one beyond them does not stop a closing.
  `ClosingIsSettled` assumes that a case has no more;
* an approved case whose resolution was cancelled has no way on, while its stage still says
  "Approve a Replacement or Refund resolution." (`workflow/policy.ts:128-132`, `:280-293`);
  `OpenCasesHaveAWay` names it as its exception. Nor does approving a resolution ask for the
  status of the case;
* `evaluate` offers `transition:closed` when an escalation is open, and the service refuses it;
* two refund exports that select before either writes export a resolution twice
  (`refund-exports/service.ts:96`).

E-mail:

* the message key is not sent to the provider as an idempotency key, so a redelivery after a
  lost answer is a second e-mail, although `drizzle-outbox-worker.ts:28-29` calls redeliveries
  idempotent;
* an event claimed by a run that was stopped stays `processing` for good;
* an event type of the provider that stands for no status (`email.opened`; the route checks the
  prefix only) leaves the update without a value, which the ORM refuses: the transaction rolls
  back, the webhook event stays `processing` and the redelivery is ignored;
* a report that arrives before its e-mail was recorded as sent is recorded as failed, and its
  repetition is then a duplicate; reports overwrite one another in the order they arrive.

The other services:

* "Product Check and Claim Submission share this one seam so their triage can never drift"
  (`product-identification/service.ts:6-7`). The contract of a check trims the legacy fields
  (`contracts/product-checks.ts:67-70`), that of a claim does not (`contracts/claims.ts:15-18`),
  and the policy only lowers their case: ` LOT-1 ` matches in the check and not in the claim, and
  a lot of blanks is a signal in the claim only. `ClaimsAgreeWithChecks` names the exception and
  proves that the drift goes one way; without its premise TLC finds it violated;
* `purchaseEvidence` "never affects `result`" (`product-identification/policy.ts:151`), but
  `hasNoSignals` counts it; the legacy path works "exactly as the old matcher did" (`:177`)
  except for a product without variants;
* a publication is audited after its transaction committed (`routes/admin.ts:879-890`), and
  copy in any one locale passes the publish gate; publishing reopens a closed campaign, and an
  older draft moves the pointer back;
* a sign-in that verified the old password inserts its session after a password change revoked
  all of them; the check that an ADMIN stays reads without a lock and is not asked by a change
  of role. It is moot while the owner exists;
* "surface it as a consumer action item, never as silent progress"
  (`routes/consumer-auth.ts:228-230`): an open case with an approved remedy is
  shown as `remedy_issued` and one with a completed remedy as `resolved`, also when it needs
  information and the status lookup says `action_required`, or `received`, or `in_review`.
  `ConsumersSeeTheirClaims` names this exception. The evidence count counts `document.uploaded` events,
  which no code writes;
* "Synthetic campaigns … never queryable here"
  (`drizzle-case-status-lookup-service.ts:28-29`): no condition of the query says so;
* the page of incidents after a cursor starts at a `createdAt` truncated to milliseconds and can
  skip rows (against `drizzle-admin-service.ts:193-194`).

## 6. Proofs

TLAPS proves, from the named assumptions on the constants only (`BoundsAssumption`,
`InputAssumption`, `CoverageAssumption`, `FilesAssumption`, `DeskAssumption`,
`OutboxAssumption`, `ClaimAssumption`, `StaffAssumption`, `CampaignAssumption`,
`IdentificationAssumption`, `AccountAssumption`: bounds are naturals, inputs are of their type,
null values are no members):

* `CoverageWithinConfirmed`: what `CoverageFor` returns for any claims and confirmation.
* `LoopIsCoverage`: the loop's accumulator, after any set of rows, is the coverage of those
  rows; the invariant `LoopInv` says so of the rows already taken, `OneMoreClaim` is its step.
* `TypeCorrect` of `Disposal`: `TypeOK` is inductive only with `SessionsNameTheirTask` (a
  transaction in progress knows its task, one that issues knows when it began). That a
  permission's items are typed rests on `CoverageWithinConfirmed`.
* `LivePermissionsAreGrounded`, `PermissionsAreUnique`, `PermissionsArePreconditioned`,
  `ClosureStands`, from one inductive invariant, `PermissionInv`. None of the properties is
  inductive alone: `WriteIssue` writes on the strength of a gate read earlier. `LockExclusive`
  says no two transactions hold a task, `GateStands` that what the gate read is still so while
  it is held. `LockedTaskKept` and `EvidenceFrame` show that no action of another transaction,
  of staff, of a withdrawal or of time changes what was read; the instruction's status is
  deliberately absent from `GateStands`, as a withdrawal does change it (section 5, 1).
  Uniqueness follows since a live permission rests on the newest batch and the index admits
  one live permission per batch.
* `SubmissionsStaySerial`: nobody holds a lock between the gate of a submission and its write;
  what makes the writes serial is that an insert takes the number after the newest and
  supersedes what is undecided, and that the key is looked up in the same step.
* `EligibilityIsInformed`, from `PagesAreCurrent`: a page's version is not above the row's and,
  when equal, its status and eligibility are the row's (`RowVersionMoves`).
* `DeclarationsRestOnEvidence` and `CompletionIsPermitted`, from `DeclarationInv`. The newest
  permission is the one whose transaction began last, so that a row must never be written
  twice: `StartsAreFresh` says that the numbers of issues under way are distinct and unused.
  `IssuesNameEvidence` says that a permission names, for good, a batch that was accepted, which
  is what keeps the evidence under a declaration although new evidence may still be written
  after it. `DeclarationStands` extends `GateStands` to the permission a declaration is about
  to cite; `DeclaredIssuesKept` shows that nobody but a withdrawal touches it.
* `ServiceKeepsPromise`: the refinement. `CreateMaps`, `SendMaps`, `ReviewMaps`, `WithdrawMaps`,
  `PermitMaps`, `RevokeMaps` and `DeclareMaps` show which step of `DisposalPermission` each
  writing action is, `OthersStutter` that the rest is not seen. It uses everything above:
  `Decide` needs that only the newest batch is undecided, `Retire` that a task has one
  permission in force, `Send` that a permission never rests on a batch not yet written.
* `FilesTypeCorrect`, `KeptFilesHaveTheirObjects`, `QuotaIsKept`, `DecisionsStand`,
  `RetainedEvidenceIsKept`, all from `FilesInv`. The code's guards look at a row; why they
  suffice is a relation between four parties. A request advances in one direction
  (`RowsFollowRequests`), an object is put only with a token the request handed out and
  disappears only when its row is on the way out (`ObjectsFollowTokens`), a path in a row or in
  a worker's hands names an object of that row (`PathsNameOwnObjects`), and what a worker
  deletes belongs to a row that cannot come back (`WorkersHoldDeadRows`). `RowStep` lists the
  five things a step can do to a row; that every action is one of them is `RowSteps`, and the
  action properties follow from it. The quota is the pigeonhole principle over
  `SlotsAreDistinct`. The theorems say nothing of a photo in a batch that was not `verified`
  when the batch was written (section 5, 3).
* The desk: `ClosuresAreRemedied`, `MailStands`, `ExportsStand`, `DeskHasAWay`,
  `DecisionsSeeTheRow`, `RefusalsAreSticky`, from `DeskInv`. A transition decides on a remedy it
  did not lock. Why that is right has two reasons, and each is a part of the invariant: nobody
  else is in a transition of the case (`OneTransitionPerCase`) and everybody who decides about
  a remedy waits for it, so that what its gate read still holds when it writes
  (`TransitionsStand`); and a completed remedy never changes (`RemediesAreTrue`, made of what the
  e-mails say and what batches exported). `PagesAreHonest` says that the version of a page is
  not above the row's and, when equal, that the page shows the row. `RemediesMove`,
  `RequestsMove` and `CasesMove` say once what the actions can do to a remedy, a request and a
  case; the invariants are proved from them. `ClosingIsSettled` needs `ClosuresAreClear` on top:
  what a closing found open or owed is kept by the lock. It is stated for a finite set of
  escalations no larger than the gate reads, which is exactly where the code is right.
* E-mail: `RecordsStayTrue`, `SendsStayClaimed`, `ReportsApplyOnce`, from `OutboxInv`. `InHand`
  says whose an event is: batches of runs are disjoint, and only a pending event, which is in
  no batch, can be claimed. `Established` says that what a run or an invocation has read is
  still so when it acts on it. `Counted` adds that an e-mail is sent at most as often as it was
  claimed, once less while its run is between two sends; it is a statement about cardinalities,
  proved with the library's theorems on finite sets.

* Claims: `OneCasePerDraftHolds`, `RetriesAreAnsweredHolds`, `CasesStartWholeHolds`, from
  `ClaimInv`. A submission reads the draft and the files, and writes the case later; what it saw
  still holds because it has the rows and no two submissions have the same (`DraftsAreHeld`,
  `DocumentsAreHeld`). The key is another matter: its record is read without a lock, and only the
  unique index decides. `RecordsNameClaims` says that a record answers with
  a case made of its own request and key, `RecordsAnswer` that a case has its record until that
  runs out, and `SeenIsOver` that a record is only replaced by a submission for which it had
  run out when the submission began, which is what keeps a retry from making a second case.
* Staff: `RolesInUseExistHolds`, `PolicyEditsAreNotLostHolds`, `AuditTellsTheTruthHolds`, from
  `StaffInv`. `PageIsOld` says that the policy a page shows is not newer than the one in force
  and is that one when the revisions are equal, `RolesStand` that roles about to be given out
  exist and that an edit about to be written leaves nobody with a role it deletes, and
  `OneHoldsPolicy` why both survive until the write: giving out roles and editing them wait for
  the same row. `IsLogged` relates what a call has done to what the trail has of it, at every
  point at which the call may fail.
* Campaigns: `PublicationsStandHolds`, from `CampaignInv`. A request passes the gate in
  one statement and writes in another, and two may have passed it: `GatedPassed` says that the
  approvals each was sent with are enough, and the update decides which of them counts; `PublishedIsApproved` relates the campaign's pointer, the version
  and the request that published it; `ReadersFindVersions` says that who found the campaign
  finds a version that stays published.
* Identification: `ClaimsAgreeWithChecksHolds`. The invariant is only that what was asked is
  typed; the property is a statement about the operators, for every snapshot and everything that
  can be typed. `SignalsOfContracts` says where the two contracts agree and that they differ in
  values no row has, from which `ClaimsRecallLess` follows, the direction of the drift. `RecalledByItself`, `ManualByItself` and `MatchedByItself` show that each test of the
  policy is local to a product, `Identified` what the answer is; a check of all products is then
  put together from the questions about each. It uses that the catalogue is finite and has at
  least one product, since the answer depends on how many variants match.
* Accounts: `ConsumersSeeTheirClaimsHolds`, from `AccountInv`: `ViewsAgree` says of every view a
  case can have that the account and the lookup agree on it but for the exception; every stored address is in the
  normal form (`AccountsAreNormal`), and a mailbox has one account because its insert, not the
  SELECT before it, decides.
* `ServicesAreComponents`: the composition of run `services` behaves, seen from each of its six
  components, as that component, so that what the run shows of the composition and what is proved of the
  components are about the same thing. `ServicesTyping` follows from it.

Every safety and action property that a passing run checks is thereby a theorem, for every
value of the constants. Left to TLC alone is `EventsAreSettled`: it is
liveness, under weak and strong fairness, which like `ENABLED` is out of this prover's reach. So
are induction over data and RECURSIVE operators; the modules use none of the last. The five
properties that are violated (section 5) have of course no theorem.

Reasoning about `CaseWorkflow` changed it in one place. `Stage` was a CASE whose guards
overlapped, for an open safety review and an ordinary status hold together, and TLA+ leaves open
which arm is taken, although TLC takes the first. It is now the early return the code has,
followed by a CASE over disjoint statuses.

## 7. Plan

In this order:

1. a composition of `ClaimSubmission` with `EvidenceDocuments` in which the submission and the
   callbacks share the rows, in place of `UploadDocument` and `RemoveDocument`;
2. the content of the staff calls that are only calls in `StaffAccess`: assignment, and the
   lists with their cursors.

## 8. Not modelled

Byte-level crypto and masking, the rate limiter's counting (an external store), routing,
validation and OpenAPI, logging, seeds and scripts: no state shared between actors, or not the
program's own. Adapters (blob store, e-mail) enter as nondeterministic outcomes of the modules
that call them. The cache invalidation that follows a publication is best effort in the code's
own words and has no outcome to state. `matcher.ts`, the older product matcher, is called by
nothing but its tests. Of staff accounts, passwords, the lock-out after failed attempts and the
expiry of sessions are left out: one row each, with no reader that depends on the other. Read
models (lists, searches, exports to CSV, masked views) read what the modules hold; their
permissions and their traces in the audit trail are in `AdminRoutes`.

## 9. Running

    tlc -workers 2 -config Disposal_core.cfg MCDisposal.tla
    tlc -workers 2 -config CaseDesk_desk.cfg MCCaseDesk.tla
    tlc -workers 2 -config Outbox_drain.cfg MCOutbox.tla
    tlc -workers 2 -config Services.cfg MCServices.tla
    tlc -workers 2 -config EvidenceDocuments_claim.cfg MCEvidenceDocuments.tla
    tlapm DisposalDeclarationProofs.tla
    tlapm EvidenceDocumentsProofs.tla
    tlapm CaseDeskProofs.tla
    tlapm OutboxProofs.tla
    tlapm ClaimSubmissionProofs.tla
    tlapm ServicesProofs.tla
