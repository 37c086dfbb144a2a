------------------------- MODULE EvidenceDocuments -------------------------
(***************************************************************************)
(* The files of one claim draft and of the disposal task that follows it:  *)
(* document_uploads rows, the objects behind them in the blob store, the   *)
(* store's callbacks (webhook_events), the cleanup worker, and the two     *)
(* submissions that turn files into evidence.                              *)
(*                                                                         *)
(* The upload callback, the cleanup worker and the authorization of an     *)
(* upload run outside any transaction: each of their statements commits by *)
(* itself and is an action.  The two removals and the claim submission     *)
(* lock what they read and are one action; a disposal submission reads the *)
(* photos without a lock and writes its batch later.                       *)
(*                                                                         *)
(* A document is a row that some request is going to insert (row ids are   *)
(* random and never reused).  An upload is one put of the client: the      *)
(* store adds a random suffix to the pathname, so every put makes an       *)
(* object of its own, and nothing is ever stored at the provisional path.  *)
(***************************************************************************)
EXTENDS Naturals, FiniteSets

CONSTANTS
  ClaimFiles,       \* rows that can be inserted for the claim's one category
  DisposalPhotos,   \* rows that can be inserted as disposal evidence
  Callbacks,        \* concurrent invocations of the upload callback
  Workers,          \* concurrent runs of the cleanup worker
  Submitters,       \* concurrent disposal submissions
  MaxFiles,         \* files a category accepts per draft
  MaxUploads,       \* bound: objects ever put into the store
  RetentionIsSet    \* is DISPOSAL_EVIDENCE_RETENTION_DAYS configured

ASSUME FilesAssumption ==
  /\ ClaimFiles \cap DisposalPhotos = {}
  /\ "no document" \notin ClaimFiles \cup DisposalPhotos
  /\ MaxFiles \in Nat /\ MaxUploads \in Nat /\ RetentionIsSet \in BOOLEAN

Documents   == ClaimFiles \cup DisposalPhotos
Uploads     == 1..MaxUploads
Provisional == 0
NoSlot      == 0
NoDocument  == "no document"

VARIABLES
  document,       \* document_uploads
  authorization,  \* progress of the request that inserts a row, then its token
  expired,        \* the rows whose expires_at has passed
  upload,         \* the objects of the store, and the event that announces each
  callback,       \* what each callback invocation has read
  worker,         \* the document each cleanup run is busy with
  draft,          \* claim_drafts.status and expiry
  gate,           \* whether the disposal task accepts evidence
  submission,     \* the photos a disposal submission has checked
  removing,       \* the photos whose removal has passed the gate
  batches,        \* disposal_evidence_batch_documents, a set per batch
  elapsed         \* the batches whose retention has ended

vars == <<document, authorization, expired, upload, callback, worker, draft,
          gate, submission, removing, batches, elapsed>>

-----------------------------------------------------------------------------
UploadStatuses == {"authorized", "uploaded", "verified", "linked", "rejected",
                   "deletion_pending", "deleted"}

(* DELETABLE_UPLOAD_STATUSES and the worker's DELETABLE_STATUSES            *)
Deletable == {"authorized", "uploaded", "verified"}
(* DISPOSAL_REMOVABLE_UPLOAD_STATUSES                                       *)
Removable == Deletable \cup {"rejected"}

DocumentRow == [status : UploadStatuses \cup {"absent"},
                slot   : {NoSlot} \cup 1..MaxFiles,
                path   : {Provisional} \cup Uploads]

StoredUpload == [document : Documents \cup {NoDocument},
                 declared : BOOLEAN,
                 stored   : BOOLEAN,
                 event    : {"none", "processing", "failed", "processed"}]

Invocation == [at     : {"idle", "received", "claimed", "read", "landed", "settled"},
               upload : {0} \cup Uploads,
               seen   : {"absent", "authorized", "deletion_pending"}]

CleanupRun == [at       : {"idle", "scanned", "claimed", "retrying", "recording"},
               document : Documents \cup {NoDocument},
               path     : {Provisional} \cup Uploads]

TypeOK ==
  /\ document \in [Documents -> DocumentRow]
  /\ authorization \in [Documents -> {"none", "gated", "minting", "live", "over"}]
  /\ expired \in SUBSET Documents
  /\ upload \in [Uploads -> StoredUpload]
  /\ callback \in [Callbacks -> Invocation]
  /\ worker \in [Workers -> CleanupRun]
  /\ draft \in {"active", "submitted", "expired"}
  /\ gate \in {"closed", "open", "in_review"}
  /\ submission \in [Submitters -> SUBSET DisposalPhotos]
  /\ removing \in SUBSET DisposalPhotos
  /\ batches \in SUBSET SUBSET DisposalPhotos
  /\ elapsed \in SUBSET batches

NoUpload     == [document |-> NoDocument, declared |-> FALSE, stored |-> FALSE,
                 event |-> "none"]
IdleCallback == [at |-> "idle", upload |-> 0, seen |-> "absent"]
IdleWorker   == [at |-> "idle", document |-> NoDocument, path |-> Provisional]

Init ==
  /\ document = [d \in Documents |->
                   [status |-> "absent", slot |-> NoSlot, path |-> Provisional]]
  /\ authorization = [d \in Documents |-> "none"]
  /\ expired = {}
  /\ upload = [n \in Uploads |-> NoUpload]
  /\ callback = [c \in Callbacks |-> IdleCallback]
  /\ worker = [w \in Workers |-> IdleWorker]
  /\ draft = "active"
  /\ gate = "closed"
  /\ submission = [s \in Submitters |-> {}]
  /\ removing = {}
  /\ batches = {}
  /\ elapsed = {}

-----------------------------------------------------------------------------
Status(d) == document[d].status

(* notUnderEvidenceRetention, negated: some batch whose retention runs      *)
(* names the document.                                                      *)
UnderRetention(d) == \E b \in batches \ elapsed : d \in b

(* The unique index on (draft, category, slot): the draft has one category  *)
(* for each of the two sets of rows.                                        *)
SameCategory(d) == IF d \in ClaimFiles THEN ClaimFiles ELSE DisposalPhotos

(* Mutant: a row holds its slot until its object has landed. *)
SlotsAwaitingUpload(d) ==
  {document[e].slot : e \in {f \in SameCategory(d) : Status(f) = "authorized"}}

SlotsTaken(d) == {document[e].slot : e \in SameCategory(d)}

(* Mutant: the loop over slots runs once too often. *)
OneSlotMore(d) == 1..MaxFiles + 1 \ SlotsTaken(d)

FreeSlots(d) == 1..MaxFiles \ SlotsTaken(d)

(* The row changes status and gives its slot back.                         *)
LeaveQuota(d, status) ==
  document' = [document EXCEPT ![d].status = status, ![d].slot = NoSlot]

-----------------------------------------------------------------------------
(* Authorizing an upload: the route's gate, the insert, the token.         *)

GateUpload(d) ==
  /\ authorization[d] = "none"
  /\ IF d \in ClaimFiles THEN draft = "active" ELSE gate = "open"
  /\ authorization' = [authorization EXCEPT ![d] = "gated"]
  /\ UNCHANGED <<document, expired, upload, callback, worker, draft, gate,
                 submission, removing, batches, elapsed>>

(* The loop over slots ends at one the unique index accepts; slots are     *)
(* freed and taken while it runs, so it can be any free one.               *)
InsertDocument(d) ==
  /\ authorization[d] = "gated"
  /\ \E slot \in FreeSlots(d) :
       document' = [document EXCEPT ![d].status = "authorized", ![d].slot = slot]
  /\ authorization' = [authorization EXCEPT ![d] = "minting"]
  /\ UNCHANGED <<expired, upload, callback, worker, draft, gate, submission,
                 removing, batches, elapsed>>

MintToken(d) ==
  /\ authorization[d] = "minting"
  /\ authorization' = [authorization EXCEPT ![d] = "live"]
  /\ UNCHANGED <<document, expired, upload, callback, worker, draft, gate,
                 submission, removing, batches, elapsed>>

(* No token: the row is deleted again, whatever became of it.              *)
RollBackDocument(d) ==
  /\ authorization[d] = "minting"
  /\ LeaveQuota(d, "absent")
  /\ authorization' = [authorization EXCEPT ![d] = "over"]
  /\ UNCHANGED <<expired, upload, callback, worker, draft, gate, submission,
                 removing, batches, elapsed>>

(* The token's hour ends, or its request died before handing it out.       *)
EndAuthorization(d) ==
  /\ authorization[d] \in {"minting", "live"}
  /\ authorization' = [authorization EXCEPT ![d] = "over"]
  /\ UNCHANGED <<document, expired, upload, callback, worker, draft, gate,
                 submission, removing, batches, elapsed>>

(* expires_at is 47 hours after the end of the token.                      *)
ExpireDocument(d) ==
  /\ Status(d) # "absent" /\ authorization[d] = "over" /\ d \notin expired
  /\ expired' = expired \cup {d}
  /\ UNCHANGED <<document, authorization, upload, callback, worker, draft, gate,
                 submission, removing, batches, elapsed>>

(* The client puts bytes with its token, as often as it likes while the    *)
(* token lives.                                                            *)
PutObject(d, n, declared) ==
  /\ authorization[d] = "live"
  /\ \A m \in Uploads : (upload[m] = NoUpload) <=> (m >= n)
  /\ upload' = [upload EXCEPT ![n] = [document |-> d, declared |-> declared,
                                      stored |-> TRUE, event |-> "none"]]
  /\ UNCHANGED <<document, authorization, expired, callback, worker, draft,
                 gate, submission, removing, batches, elapsed>>

-----------------------------------------------------------------------------
(* The upload callback, delivered at least once, late, and concurrently    *)
(* with itself.                                                            *)

(* The adapter verifies the request and asks the store for the object.     *)
ReceiveCallback(c, n) ==
  /\ callback[c].at = "idle"
  /\ upload[n].stored
  /\ callback' = [callback EXCEPT ![c] = [IdleCallback EXCEPT !.at = "received",
                                                              !.upload = n]]
  /\ UNCHANGED <<document, authorization, expired, upload, worker, draft, gate,
                 submission, removing, batches, elapsed>>

(* The upsert: a processed event is a duplicate and the invocation ends.   *)
ClaimEvent(c) ==
  LET n == callback[c].upload
      claimable == upload[n].event \in {"none", "processing", "failed"}
  IN  /\ callback[c].at = "received"
      /\ upload' = IF claimable THEN [upload EXCEPT ![n].event = "processing"]
                   ELSE upload
      /\ callback' = [callback EXCEPT ![c] =
                        IF claimable THEN [@ EXCEPT !.at = "claimed"]
                        ELSE IdleCallback]
      /\ UNCHANGED <<document, authorization, expired, worker, draft, gate,
                     submission, removing, batches, elapsed>>

ReadDocument(c) ==
  LET status == Status(upload[callback[c].upload].document)
  IN  /\ callback[c].at = "claimed"
      /\ callback' = [callback EXCEPT ![c] =
                        IF status \in {"authorized", "deletion_pending"}
                        THEN [@ EXCEPT !.at = "read", !.seen = status]
                        ELSE [@ EXCEPT !.at = "settled"]]
      /\ UNCHANGED <<document, authorization, expired, upload, worker, draft,
                     gate, submission, removing, batches, elapsed>>

(* Mutant: phase 1 finds its row by id alone. *)
LandUploadAnyway(c) ==
  LET n == callback[c].upload
      d == upload[n].document
      deletionRequested == callback[c].seen = "deletion_pending"
  IN  /\ callback[c].at = "read"
      /\ document' = [document EXCEPT
                        ![d].path = n,
                        ![d].status = IF deletionRequested THEN @ ELSE "uploaded"]
      /\ callback' = [callback EXCEPT ![c].at =
                        IF deletionRequested THEN "settled" ELSE "landed"]
      /\ UNCHANGED <<authorization, expired, upload, worker, draft, gate,
                     submission, removing, batches, elapsed>>

(* Phase 1, an UPDATE of a row that still has the status that was read.    *)
(* Whether it found one is not looked at.                                  *)
LandUpload(c) ==
  LET n == callback[c].upload
      d == upload[n].document
      deletionRequested == callback[c].seen = "deletion_pending"
  IN  /\ callback[c].at = "read"
      /\ document' =
           IF Status(d) # callback[c].seen THEN document
           ELSE [document EXCEPT
                   ![d].path = n,
                   ![d].status = IF deletionRequested THEN @ ELSE "uploaded"]
      /\ callback' = [callback EXCEPT ![c].at =
                        IF deletionRequested THEN "settled" ELSE "landed"]
      /\ UNCHANGED <<authorization, expired, upload, worker, draft, gate,
                     submission, removing, batches, elapsed>>

(* Phase 2, the verdict on what this callback announced, for a row that is *)
(* `uploaded` whoever made it so.                                          *)
DecideUpload(c) ==
  LET n == callback[c].upload
      d == upload[n].document
  IN  /\ callback[c].at = "landed"
      /\ IF Status(d) # "uploaded" THEN UNCHANGED document
         ELSE IF upload[n].declared
              THEN document' = [document EXCEPT ![d].status = "verified"]
              ELSE LeaveQuota(d, "rejected")
      /\ callback' = [callback EXCEPT ![c].at = "settled"]
      /\ UNCHANGED <<authorization, expired, upload, worker, draft, gate,
                     submission, removing, batches, elapsed>>

EndCallback(c, event) ==
  /\ upload' = [upload EXCEPT ![callback[c].upload].event = event]
  /\ callback' = [callback EXCEPT ![c] = IdleCallback]
  /\ UNCHANGED <<document, authorization, expired, worker, draft, gate,
                 submission, removing, batches, elapsed>>

FinishCallback(c) == callback[c].at = "settled" /\ EndCallback(c, "processed")

(* A statement fails: the catch block records it.                          *)
FailCallback(c) ==
  /\ callback[c].at \in {"claimed", "read", "landed", "settled"}
  /\ EndCallback(c, "failed")

(* The process stops, or the catch block fails too.                        *)
CrashCallback(c) ==
  /\ callback[c].at # "idle"
  /\ callback' = [callback EXCEPT ![c] = IdleCallback]
  /\ UNCHANGED <<document, authorization, expired, upload, worker, draft, gate,
                 submission, removing, batches, elapsed>>

-----------------------------------------------------------------------------
(* The consumer removes a file.                                            *)

RemoveDraftDocument(d) ==
  /\ draft = "active"
  /\ Status(d) \in Deletable /\ ~UnderRetention(d)
  /\ LeaveQuota(d, "deletion_pending")
  /\ UNCHANGED <<authorization, expired, upload, callback, worker, draft, gate,
                 submission, removing, batches, elapsed>>

GateRemoval(d) ==
  /\ gate = "open" /\ d \notin removing /\ Status(d) \in Removable
  /\ removing' = removing \cup {d}
  /\ UNCHANGED <<document, authorization, expired, upload, callback, worker,
                 draft, gate, submission, batches, elapsed>>

(* Ownership, status and retention are conditions of one UPDATE; a refusal *)
(* ends the request.                                                       *)
RemoveEvidenceDocument(d) ==
  /\ d \in removing
  /\ removing' = removing \ {d}
  /\ IF Status(d) \in Removable /\ ~UnderRetention(d)
     THEN LeaveQuota(d, "deletion_pending")
     ELSE UNCHANGED document
  /\ UNCHANGED <<authorization, expired, upload, callback, worker, draft, gate,
                 submission, batches, elapsed>>

-----------------------------------------------------------------------------
(* Submissions.                                                            *)

(* The claim's transaction locks draft and documents before it reads them. *)
SubmitClaim(files) ==
  /\ draft = "active"
  /\ \A d \in files : Status(d) = "verified"
  /\ document' = [d \in Documents |->
                    IF d \in files
                    THEN [document[d] EXCEPT !.status = "linked", !.slot = NoSlot]
                    ELSE document[d]]
  /\ draft' = "submitted"
  /\ UNCHANGED <<authorization, expired, upload, callback, worker, gate,
                 submission, removing, batches, elapsed>>

ExpireDraft ==
  /\ draft = "active"
  /\ draft' = "expired"
  /\ UNCHANGED <<document, authorization, expired, upload, callback, worker,
                 gate, submission, removing, batches, elapsed>>

(* assertUsableEvidence: reads the photos, locks nothing.                  *)
CheckEvidence(s, photos) ==
  /\ gate = "open" /\ submission[s] = {}
  /\ \A d \in photos : Status(d) = "verified"
  /\ submission' = [submission EXCEPT ![s] = photos]
  /\ UNCHANGED <<document, authorization, expired, upload, callback, worker,
                 draft, gate, removing, batches, elapsed>>

(* The batch is inserted; a photo is in one batch at most (unique index).  *)
WriteBatch(s) ==
  /\ submission[s] # {}
  /\ submission[s] \cap UNION batches = {}
  /\ batches' = batches \cup {submission[s]}
  /\ gate' = "in_review"
  /\ submission' = [submission EXCEPT ![s] = {}]
  /\ UNCHANGED <<document, authorization, expired, upload, callback, worker,
                 draft, removing, elapsed>>

AbandonBatch(s) ==
  /\ submission[s] # {}
  /\ submission' = [submission EXCEPT ![s] = {}]
  /\ UNCHANGED <<document, authorization, expired, upload, callback, worker,
                 draft, gate, removing, batches, elapsed>>

(* What staff and the rest of the task do to the gate: the module Disposal *)
(* says when.  A batch under review keeps it shut until it is decided.     *)
MoveGate ==
  /\ draft = "submitted"
  /\ gate' \in {"open", "closed"} \ {gate}
  /\ UNCHANGED <<document, authorization, expired, upload, callback, worker,
                 draft, submission, removing, batches, elapsed>>

EndRetention(b) ==
  /\ RetentionIsSet
  /\ elapsed' = elapsed \cup {b}
  /\ UNCHANGED <<document, authorization, expired, upload, callback, worker,
                 draft, gate, submission, removing, batches>>

-----------------------------------------------------------------------------
(* The cleanup worker.  A run treats the rows of its two scans one after   *)
(* the other, so what it knows of a row is as old as the scan.             *)

Scan(w, d) ==
  /\ worker[w].at = "idle"
  /\ \/ /\ Status(d) = "deletion_pending"
        /\ worker' = [worker EXCEPT ![w] =
                        [at |-> "retrying", document |-> d, path |-> document[d].path]]
     \/ /\ d \in expired /\ Status(d) \in Deletable /\ ~UnderRetention(d)
        /\ worker' = [worker EXCEPT ![w] =
                        [at |-> "scanned", document |-> d, path |-> document[d].path]]
  /\ UNCHANGED <<document, authorization, expired, upload, callback, draft, gate,
                 submission, removing, batches, elapsed>>

(* Mutants: the worker trusts its scan; it removes before it marks. *)
ClaimByScan(w) ==
  /\ worker[w].at = "scanned"
  /\ document' = [document EXCEPT ![worker[w].document].status = "deletion_pending"]
  /\ worker' = [worker EXCEPT ![w].at = "claimed"]
  /\ UNCHANGED <<authorization, expired, upload, callback, draft, gate,
                 submission, removing, batches, elapsed>>
ClaimWithoutMark(w) ==
  /\ worker[w].at = "scanned"
  /\ worker' = [worker EXCEPT ![w].at = "claimed"]
  /\ UNCHANGED <<document, authorization, expired, upload, callback, draft, gate,
                 submission, removing, batches, elapsed>>

(* claim(): the guarded UPDATE.  It leaves the slot alone.                  *)
ClaimDocument(w) ==
  LET d == worker[w].document
      won == Status(d) \in Deletable /\ ~UnderRetention(d)
  IN  /\ worker[w].at = "scanned"
      /\ document' = IF won THEN [document EXCEPT ![d].status = "deletion_pending"]
                     ELSE document
      /\ worker' = [worker EXCEPT ![w] = IF won THEN [@ EXCEPT !.at = "claimed"]
                                         ELSE IdleWorker]
      /\ UNCHANGED <<authorization, expired, upload, callback, draft, gate,
                     submission, removing, batches, elapsed>>

(* The object at the pathname of the scan; deleting nothing succeeds.      *)
RemoveObject(w) ==
  LET path == worker[w].path
  IN  /\ worker[w].at \in {"claimed", "retrying"}
      /\ upload' = IF path = Provisional THEN upload
                   ELSE [upload EXCEPT ![path].stored = FALSE]
      /\ worker' = [worker EXCEPT ![w].at = "recording"]
      /\ UNCHANGED <<document, authorization, expired, callback, draft, gate,
                     submission, removing, batches, elapsed>>

RecordDeletion(w) ==
  /\ worker[w].at = "recording"
  /\ document' = [document EXCEPT ![worker[w].document].status =
                    IF @ = "absent" THEN @ ELSE "deleted"]
  /\ worker' = [worker EXCEPT ![w] = IdleWorker]
  /\ UNCHANGED <<authorization, expired, upload, callback, draft, gate,
                 submission, removing, batches, elapsed>>

(* The store refuses the deletion, or the run dies: the row is left as it  *)
(* is for a later run.                                                     *)
LeaveDocument(w) ==
  /\ worker[w].at # "idle"
  /\ worker' = [worker EXCEPT ![w] = IdleWorker]
  /\ UNCHANGED <<document, authorization, expired, upload, callback, draft, gate,
                 submission, removing, batches, elapsed>>

-----------------------------------------------------------------------------
Next ==
  \/ \E d \in Documents :
       \/ GateUpload(d) \/ InsertDocument(d) \/ MintToken(d)
       \/ RollBackDocument(d) \/ EndAuthorization(d) \/ ExpireDocument(d)
       \/ RemoveDraftDocument(d)
       \/ \E n \in Uploads, declared \in BOOLEAN : PutObject(d, n, declared)
  \/ \E c \in Callbacks :
       \/ \E n \in Uploads : ReceiveCallback(c, n)
       \/ ClaimEvent(c) \/ ReadDocument(c) \/ LandUpload(c) \/ DecideUpload(c)
       \/ FinishCallback(c) \/ FailCallback(c) \/ CrashCallback(c)
  \/ \E d \in DisposalPhotos : GateRemoval(d) \/ RemoveEvidenceDocument(d)
  \/ \E files \in SUBSET ClaimFiles : SubmitClaim(files)
  \/ ExpireDraft
  \/ \E s \in Submitters :
       \/ \E photos \in (SUBSET DisposalPhotos) \ {{}} : CheckEvidence(s, photos)
       \/ WriteBatch(s) \/ AbandonBatch(s)
  \/ MoveGate
  \/ \E b \in batches \ elapsed : EndRetention(b)
  \/ \E w \in Workers :
       \/ \E d \in Documents : Scan(w, d)
       \/ ClaimDocument(w) \/ RemoveObject(w) \/ RecordDeletion(w)
       \/ LeaveDocument(w)

Spec == Init /\ [][Next]_vars

-----------------------------------------------------------------------------
(* Properties.                                                             *)

ObjectOf(d) == document[d].path \in Uploads /\ upload[document[d].path].stored

(* A file that passed verification, and one a case owns, still has its     *)
(* bytes, at the path of the row and put there for that row: no cleanup    *)
(* run, however old its scan, and no late callback takes them away.        *)
KeptFileHasItsObject ==
  \A d \in Documents : Status(d) \in {"verified", "linked"} =>
    ObjectOf(d) /\ upload[document[d].path].document = d

(* Concurrent authorizations, removals and rejections never leave more     *)
(* files of a category in play than it accepts (authorizeUpload).          *)
FilesWithinLimit ==
  \A category \in {ClaimFiles, DisposalPhotos} :
    Cardinality({d \in category : Status(d) \in Deletable}) <= MaxFiles

(* What was decided about a file stands, whatever cleanup run, callback or *)
(* second upload was on its way: a document a submitted claim owns stays   *)
(* linked, one that was asked to be deleted does not come back, and once   *)
(* its bytes are verified no others take their place (submit, claim(),     *)
(* scheduleDraftDocumentDeletion, reconcileCompletedUpload).               *)
DecidedFilesStand ==
  [][\A d \in Documents :
       /\ Status(d) = "linked" => Status(d)' = "linked"
       /\ Status(d) \in {"deletion_pending", "deleted"} =>
            Status(d)' \in {"deletion_pending", "deleted", "absent"}
       /\ Status(d) \in {"verified", "linked"} =>
            document'[d].path = document[d].path]_vars

(* A verified photo that is in a batch under retention is neither removed  *)
(* by its owner nor reaped, before the review and after it.                *)
RetainedEvidenceStays ==
  [][\A d \in DisposalPhotos : Status(d) = "verified" /\ UnderRetention(d) =>
       Status(d)' = "verified"]_vars

-----------------------------------------------------------------------------
(* What a comment or a document says, and the code does not do.            *)

(* drizzle-disposal-service.ts:572: a removal and a batch of the same      *)
(* photo: either the retention condition refuses, or the usability check   *)
(* sees a photo no longer verified; "No separate lock is needed".          *)
BatchKeepsItsPhotos ==
  \A d \in DisposalPhotos : UnderRetention(d) => Status(d) = "verified"

(* drizzle-document-service.ts:406: "a crash after phase 1 leaves the row  *)
(* in `uploaded`, which the reclaimable webhookEvents claim above lets a   *)
(* redelivered event finalize here" - an event that was processed does not *)
(* leave the row it put there undecided.                                   *)
ProcessedUploadIsDecided ==
  \A d \in Documents :
    Status(d) = "uploaded" /\ upload[document[d].path].event = "processed" =>
      \E c \in Callbacks : callback[c].at = "landed" /\ upload[callback[c].upload].document = d

(* draft-cleanup-worker.ts:37: "only a row whose blob was actually removed  *)
(* advances to `deleted`" - the path of a deleted row holds no object.     *)
DeletedRowHasNoObject ==
  \A d \in Documents : Status(d) = "deleted" => ~ObjectOf(d)
=============================================================================
