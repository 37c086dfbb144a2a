--------------------------- MODULE ClaimSubmission ---------------------------
(***************************************************************************)
(* From a draft to a recall case: drafts, the submission transaction, its  *)
(* Idempotency-Key, and what the case starts as                            *)
(* (modules/claim-drafts/drizzle-claim-draft-service.ts,                   *)
(* modules/cases/drizzle-case-service.ts).                                 *)
(*                                                                         *)
(* A request is a draft, the body sent for it and a key.  The body names   *)
(* the draft, so that a request hash is the pair of both.  The time of a   *)
(* submission is taken before its transaction begins, and the transaction  *)
(* may then wait for the row of the draft.  It locks the draft, later the  *)
(* documents, and writes everything at its commit; the unique index on     *)
(* endpoint and key decides between two that commit with one key.          *)
(***************************************************************************)
EXTENDS CaseWorkflow, Naturals, FiniteSets

CONSTANTS
  Drafts,           \* drafts consumers create, all of one campaign
  Documents,        \* files a consumer uploads
  Bodies,           \* request bodies: answer, matched, documents, accepted
  Keys,             \* Idempotency-Keys
  Submissions,      \* submissions under way at the same time
  References,       \* case references the generator can return
  MinimumFiles,     \* files the pinned campaign version asks for
  MaximumFiles,     \* and the most it takes
  DraftTTL,         \* how long a draft lives
  RecordTTL,        \* how long an idempotency record answers
  EscalatedStatus,  \* INCIDENT_ESCALATED_STATUS
  MaxTime           \* bound: ticks of the clock

ASSUME ClaimAssumption ==
  /\ "none" \notin Drafts \cup Keys
  /\ References \cap {"none", "refused", "conflict"} = {}
  /\ \A body \in Bodies : /\ body.answer \in {"yes", "no", "unsure"}
                          /\ body.matched \in BOOLEAN /\ body.accepted \in BOOLEAN
                          /\ body.documents \subseteq Documents
  /\ DraftTTL \in Nat /\ RecordTTL \in Nat /\ MaxTime \in Nat
  /\ EscalatedStatus \in BOOLEAN

VARIABLES
  clock,       \* the database's and the service's time
  campaign,    \* recall_campaigns.status
  draft,       \* claim_drafts: status and expires_at
  document,    \* document_uploads: upload_status, the draft or case that owns it
  claim,       \* recall_cases with what a submission writes beside them
  record,      \* idempotency_records of the endpoint, by key
  submission   \* what each submission under way has established

claimVars == <<clock, campaign, draft, document, claim, record, submission>>

-----------------------------------------------------------------------------
Time  == 0..MaxTime
Later == 0..(MaxTime + DraftTTL + RecordTTL)

Hashes == Drafts \X Bodies
NoHash == <<>>

NoRecord == [hash |-> NoHash, claim |-> "none", expires |-> 0]
NoClaim  == [hash |-> NoHash, key |-> "none", at |-> 0]
Ready    == [at |-> "ready", hash |-> NoHash, key |-> "none", began |-> 0,
             seen |-> NoRecord, answer |-> "none"]

DraftRow == [status : {"absent", "active", "submitted"}, expires : Later]

DocumentRow == [status : {"absent", "verified", "deletion_pending", "linked"},
                owner  : Drafts \cup References \cup {"none"}]

RecordRow == [hash : Hashes, claim : References, expires : Later]

ClaimTypeOK ==
  /\ clock \in Time
  /\ campaign \in {"active", "closed"}
  /\ draft \in [Drafts -> DraftRow]
  /\ document \in [Documents -> DocumentRow]
  /\ claim \in [References -> [hash : Hashes, key : Keys, at : Time] \cup {NoClaim}]
  /\ record \in [Keys -> RecordRow \cup {NoRecord}]
  /\ submission \in
       [Submissions ->
          [at     : {"ready", "begun", "gated", "checked", "collided", "done"},
           hash   : Hashes \cup {NoHash},
           key    : Keys \cup {"none"},
           began  : Time,
           seen   : RecordRow \cup {NoRecord},
           answer : References \cup {"none", "refused", "conflict"}]]

ClaimInit ==
  /\ clock = 0
  /\ campaign = "active"
  /\ draft = [d \in Drafts |-> [status |-> "absent", expires |-> 0]]
  /\ document = [f \in Documents |-> [status |-> "absent", owner |-> "none"]]
  /\ claim = [n \in References |-> NoClaim]
  /\ record = [k \in Keys |-> NoRecord]
  /\ submission = [s \in Submissions |-> Ready]

-----------------------------------------------------------------------------
(* What a case starts as (deriveSubmissionStatus, the rows of submit).     *)

HasIncident(body) == body.answer # "no"

StartingStatus(body) ==
  IF body.answer = "unsure" \/ ~body.matched THEN "triage"
  ELSE IF EscalatedStatus /\ HasIncident(body) THEN "escalated" ELSE "submitted"

(* The case as module CaseWorkflow sees it when the submission commits.    *)
StartingView(body) ==
  [status     |-> StartingStatus(body),
   incident   |-> HasIncident(body),
   review     |-> IF HasIncident(body) THEN "pending" ELSE "none",
   resolution |-> [status |-> "requested", approved |-> "none"]]

-----------------------------------------------------------------------------
(* The world around submissions.                                           *)

Tick ==
  /\ clock < MaxTime
  /\ clock' = clock + 1
  /\ UNCHANGED <<campaign, draft, document, claim, record, submission>>

CreateDraft(d) ==
  /\ campaign = "active"
  /\ draft[d].status = "absent"
  /\ draft' = [draft EXCEPT ![d] = [status |-> "active", expires |-> clock + DraftTTL]]
  /\ UNCHANGED <<clock, campaign, document, claim, record, submission>>

CloseCampaign ==
  /\ campaign = "active"
  /\ campaign' = "closed"
  /\ UNCHANGED <<clock, draft, document, claim, record, submission>>

DraftOf(s) == submission[s].hash[1]
BodyOf(s)  == submission[s].hash[2]

(* Mutant: the draft is read without FOR UPDATE. *)
DraftUnlocked(d) == FALSE

DraftLocked(d) ==
  \E s \in Submissions : submission[s].at \in {"gated", "checked"} /\ DraftOf(s) = d

(* Mutant: the documents are read without FOR UPDATE. *)
DocumentUnlocked(f) == FALSE

DocumentLocked(f) ==
  \E s \in Submissions : submission[s].at = "checked" /\ f \in BodyOf(s).documents

(* An upload of an active draft is done and verified (EvidenceDocuments).   *)
UploadDocument(f, d) ==
  /\ document[f].status = "absent"
  /\ draft[d].status = "active" /\ ~DraftLocked(d)
  /\ draft[d].expires > clock
  /\ document' = [document EXCEPT ![f] = [status |-> "verified", owner |-> d]]
  /\ UNCHANGED <<clock, campaign, draft, claim, record, submission>>

(* The consumer removes a file, or the cleanup worker claims it.           *)
RemoveDocument(f) ==
  /\ document[f].status = "verified"
  /\ ~DocumentLocked(f)
  /\ document' = [document EXCEPT ![f].status = "deletion_pending"]
  /\ UNCHANGED <<clock, campaign, draft, claim, record, submission>>

-----------------------------------------------------------------------------
(* submit.                                                                 *)

(* The payload is checked, hashed and encrypted, and the time is taken.    *)
BeginSubmission(s, d, body, k) ==
  /\ submission[s].at \in {"ready", "done"}
  /\ draft[d].status # "absent"
  /\ submission' = [submission EXCEPT ![s] = [Ready EXCEPT !.at = "begun",
                      !.hash = <<d, body>>, !.key = k, !.began = clock]]
  /\ UNCHANGED <<clock, campaign, draft, document, claim, record>>

Finish(s, answer) ==
  submission' = [submission EXCEPT ![s].at = "done", ![s].answer = answer,
                                   ![s].seen = NoRecord]

(* findIdempotency: the records that had not expired when this submission  *)
(* took its time.                                                          *)
Answering(s) == record[submission[s].key].expires > submission[s].began

(* replay.                                                                 *)
Replay(s) ==
  LET found == record[submission[s].key]
  IN  IF found.hash = submission[s].hash THEN found.claim ELSE "conflict"

(* Mutant: a draft is looked at for its age before its status. *)
DraftUsableFirst(s) ==
  LET row == draft[DraftOf(s)]
  IN  row.expires > submission[s].began

(* A submitted draft is asked about its record before anything else.       *)
DraftUsable(s) ==
  LET row == draft[DraftOf(s)]
  IN  row.status = "submitted" \/ row.expires > submission[s].began

(* The transaction locks the draft, and answers a submission that is over. *)
LockDraft(s) ==
  LET d == DraftOf(s)
  IN  /\ submission[s].at = "begun"
      /\ ~DraftLocked(d)
      /\ \/ /\ ~DraftUsable(s) \/ (draft[d].status = "active" /\ campaign # "active")
            /\ Finish(s, "refused")
         \/ /\ DraftUsable(s)
            /\ draft[d].status = "submitted" \/ (campaign = "active" /\ Answering(s))
            /\ Finish(s, IF Answering(s) THEN Replay(s) ELSE "conflict")
         \/ /\ DraftUsable(s) /\ draft[d].status = "active" /\ campaign = "active"
            /\ ~Answering(s)
            /\ submission' = [submission EXCEPT ![s].at = "gated",
                                ![s].seen = record[submission[s].key]]
      /\ UNCHANGED <<clock, campaign, draft, document, claim, record>>

(* assertDocumentsSubmittable and assertEvidenceRequirements, on one       *)
(* category; an exact order match would waive the minimum.                 *)
Submittable(s) ==
  LET chosen == BodyOf(s).documents
  IN  /\ \A f \in chosen : document[f] = [status |-> "verified", owner |-> DraftOf(s)]
      /\ Cardinality(chosen) \in MinimumFiles..MaximumFiles

(* Consents, products, remedy and address are facts of the body and the    *)
(* pinned version; then the documents are locked and checked.              *)
CheckSubmission(s) ==
  /\ submission[s].at = "gated"
  /\ \A f \in BodyOf(s).documents : ~DocumentLocked(f)
  /\ IF BodyOf(s).accepted /\ Submittable(s)
     THEN submission' = [submission EXCEPT ![s].at = "checked"]
     ELSE Finish(s, "refused")
  /\ UNCHANGED <<clock, campaign, draft, document, claim, record>>

(* Every candidate reference was taken.                                    *)
RunOutOfReferences(s) ==
  /\ submission[s].at = "checked"
  /\ \E n \in References : claim[n] # NoClaim
  /\ Finish(s, "refused")
  /\ UNCHANGED <<clock, campaign, draft, document, claim, record>>

(* The expired record, if there was one, is deleted by this transaction;   *)
(* any other record of the key violates the unique index.                  *)
KeyFree(s) == record[submission[s].key] \in {NoRecord, submission[s].seen}

CommitSubmission(s, n) ==
  LET d == DraftOf(s)
      k == submission[s].key
  IN  /\ submission[s].at = "checked"
      /\ claim[n] = NoClaim
      /\ KeyFree(s)
      /\ claim' = [claim EXCEPT ![n] =
                     [hash |-> submission[s].hash, key |-> k, at |-> submission[s].began]]
      /\ document' = [f \in Documents |->
                        IF f \in BodyOf(s).documents
                        THEN [status |-> "linked", owner |-> n] ELSE document[f]]
      /\ draft' = [draft EXCEPT ![d].status = "submitted"]
      /\ record' = [record EXCEPT ![k] =
                      [hash    |-> submission[s].hash, claim |-> n,
                       expires |-> submission[s].began + RecordTTL]]
      /\ Finish(s, n)
      /\ UNCHANGED <<clock, campaign>>

(* The insert of the record fails, and everything is rolled back.          *)
Collide(s) ==
  /\ submission[s].at = "checked"
  /\ ~KeyFree(s)
  /\ submission' = [submission EXCEPT ![s].at = "collided"]
  /\ UNCHANGED <<clock, campaign, draft, document, claim, record>>

(* The catch of submit: what the winner recorded.                          *)
AnswerCollision(s) ==
  /\ submission[s].at = "collided"
  /\ Finish(s, IF Answering(s) THEN Replay(s) ELSE "refused")
  /\ UNCHANGED <<clock, campaign, draft, document, claim, record>>

(* The service stops or a statement fails: the transaction is rolled back, *)
(* and the client knows nothing.                                           *)
BreakOff(s) ==
  /\ submission[s].at \in {"begun", "gated", "checked", "collided"}
  /\ submission' = [submission EXCEPT ![s] = Ready]
  /\ UNCHANGED <<clock, campaign, draft, document, claim, record>>

-----------------------------------------------------------------------------
Submit(s) ==
  \/ \E d \in Drafts, body \in Bodies, k \in Keys : BeginSubmission(s, d, body, k)
  \/ LockDraft(s) \/ CheckSubmission(s) \/ RunOutOfReferences(s)
  \/ \E n \in References : CommitSubmission(s, n)
  \/ Collide(s) \/ AnswerCollision(s) \/ BreakOff(s)

ClaimNext ==
  \/ Tick \/ CloseCampaign
  \/ \E d \in Drafts : CreateDraft(d)
  \/ \E f \in Documents : RemoveDocument(f) \/ \E d \in Drafts : UploadDocument(f, d)
  \/ \E s \in Submissions : Submit(s)

ClaimSpec == ClaimInit /\ [][ClaimNext]_claimVars

-----------------------------------------------------------------------------
(* Properties.                                                             *)

Submitted == {n \in References : claim[n] # NoClaim}

(* A draft becomes one case, however often and under whatever keys it is   *)
(* submitted at once, and it is submitted if and only if it did; and       *)
(* whoever is told the reference of a case, at once, by a replay or after  *)
(* losing the race for the key, sent the very request and key the case was *)
(* made of (submit, replay, the catch of submit).                          *)
OneCasePerDraft ==
  /\ \A m, n \in Submitted : claim[m].hash[1] = claim[n].hash[1] => m = n
  /\ \A d \in Drafts :
       draft[d].status = "submitted" <=> \E n \in Submitted : claim[n].hash[1] = d
  /\ \A s \in Submissions :
       LET n == submission[s].answer
       IN  n \in References =>
             claim[n].hash = submission[s].hash /\ claim[n].key = submission[s].key

(* A repeated request is given its case as long as the record answers,     *)
(* also when the draft has expired or the campaign has closed meanwhile:   *)
(* that is what the key is for (submit, findIdempotency).                  *)
RetriesAreAnswered ==
  [][\A s \in Submissions, n \in References :
       /\ submission[s].at = "begun" /\ submission'[s].at # "ready"
       /\ submission'[s] # submission[s]
       /\ claim[n] # NoClaim
       /\ claim[n].hash = submission[s].hash /\ claim[n].key = submission[s].key
       /\ claim[n].at + RecordTTL > clock
       => submission'[s].at = "done" /\ submission'[s].answer = n]_claimVars

(* A case is whole from the moment it exists: every file it named is       *)
(* linked to it and none of them was on its way out, and a case that       *)
(* reports an incident is in front of compliance, whatever status its      *)
(* products give it (assertDocumentsSubmittable, the FOR UPDATE on the     *)
(* documents, deriveSubmissionStatus, PENDING_REVIEW_OVERRIDE_STATUSES).   *)
CasesStartWhole ==
  /\ [](\A n \in Submitted :
          LET body == claim[n].hash[2]
          IN  /\ {f \in Documents : document[f] = [status |-> "linked", owner |-> n]}
                   = body.documents
              /\ HasIncident(body) <=> Stage(StartingView(body)) = "compliance_review")
  /\ [][\A f \in Documents :
          document'[f].status = "linked" =>
            document[f].status \in {"verified", "linked"}]_claimVars
=============================================================================
