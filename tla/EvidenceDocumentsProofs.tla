---------------------- MODULE EvidenceDocumentsProofs ----------------------
(***************************************************************************)
(* Theorems about module EvidenceDocuments, for every value of its         *)
(* constants.                                                              *)
(***************************************************************************)
EXTENDS EvidenceDocuments, FiniteSetTheorems, TLAPS

-----------------------------------------------------------------------------
(* The inductive invariant.                                                *)

Handed == {"live", "over"}
Gone   == {"deletion_pending", "deleted", "absent"}
Landed == {"uploaded", "verified", "linked"}

(* A row is there once its request inserted it, and an object reached it   *)
(* only if the request handed its token out.                               *)
RowsFollowRequests ==
  \A d \in Documents :
    /\ Status(d) # "absent" => authorization[d] \in Handed \cup {"minting"}
    /\ Status(d) \in Landed \cup {"rejected"} => authorization[d] \in Handed

(* Objects are put with a token, and one is missing only when its row is   *)
(* on the way out.                                                         *)
ObjectsFollowTokens ==
  \A n \in Uploads :
    /\ upload[n].stored => upload[n].document # NoDocument
    /\ upload[n].document # NoDocument => authorization[upload[n].document] \in Handed
    /\ upload[n].document # NoDocument /\ ~upload[n].stored =>
         Status(upload[n].document) \in Gone

(* A pathname, in a row or in the hands of a worker, names an object that  *)
(* was put for that row.                                                   *)
PathsNameOwnObjects ==
  /\ \A d \in Documents :
       /\ document[d].path \in Uploads => upload[document[d].path].document = d
       /\ Status(d) \in Landed => document[d].path \in Uploads
  /\ \A w \in Workers :
       worker[w].path \in Uploads =>
         /\ worker[w].document \in Documents
         /\ upload[worker[w].path].document = worker[w].document

(* A callback announces an object of a row, and read one of two statuses.  *)
CallbacksKnowTheirUpload ==
  \A c \in Callbacks : callback[c].at # "idle" =>
    /\ callback[c].upload \in Uploads
    /\ upload[callback[c].upload].document \in Documents
    /\ callback[c].at = "read" => callback[c].seen \in {"authorized", "deletion_pending"}

(* What a worker removes from the store is on the way out and stays so.    *)
WorkersHoldDeadRows ==
  \A w \in Workers :
    /\ worker[w].at # "idle" => worker[w].document \in Documents
    /\ worker[w].at \in {"claimed", "retrying", "recording"} =>
         /\ Status(worker[w].document) \in Gone
         /\ authorization[worker[w].document] \in Handed \cup {"minting"}

(* A file in play has a slot, and no two rows of a category have the same. *)
SlotsAreDistinct ==
  /\ \A d \in Documents : Status(d) \in Deletable => document[d].slot # NoSlot
  /\ \A d \in Documents : \A e \in SameCategory(d) :
       d # e /\ document[d].slot = document[e].slot => document[d].slot = NoSlot

FilesInv ==
  /\ TypeOK
  /\ RowsFollowRequests
  /\ ObjectsFollowTokens
  /\ PathsNameOwnObjects
  /\ CallbacksKnowTheirUpload
  /\ WorkersHoldDeadRows
  /\ SlotsAreDistinct

-----------------------------------------------------------------------------
(* Type correctness.                                                       *)

(* A row that gives its slot back is a row. *)
LEMMA LeaveQuotaType ==
  ASSUME document \in [Documents -> DocumentRow], NEW d,
         NEW status \in UploadStatuses \cup {"absent"}, LeaveQuota(d, status)
  PROVE  document' \in [Documents -> DocumentRow]
BY DEF LeaveQuota, DocumentRow, NoSlot

(* The initial state is typed. *)
LEMMA InitTypeOK == Init => TypeOK
<1> SUFFICES ASSUME Init PROVE TypeOK
  OBVIOUS
<1>1. document \in [Documents -> DocumentRow]
  BY DEF Init, DocumentRow
<1>2. upload \in [Uploads -> StoredUpload]
  BY DEF Init, StoredUpload, NoUpload
<1>3. callback \in [Callbacks -> Invocation]
  BY DEF Init, Invocation, IdleCallback
<1>4. worker \in [Workers -> CleanupRun]
  BY DEF Init, CleanupRun, IdleWorker
<1> QED
  BY <1>1, <1>2, <1>3, <1>4 DEF Init, TypeOK

LEMMA WithStatus ==
  ASSUME NEW row \in DocumentRow, NEW status \in UploadStatuses \cup {"absent"}
  PROVE  [row EXCEPT !.status = status] \in DocumentRow
BY DEF DocumentRow

(* Every step keeps the types, action by action. *)
LEMMA NextTypeOK ==
  ASSUME TypeOK, [Next]_vars PROVE TypeOK'
<1>d. document \in [Documents -> DocumentRow]
  BY DEF TypeOK
<1>u. upload \in [Uploads -> StoredUpload]
  BY DEF TypeOK
<1>c. callback \in [Callbacks -> Invocation]
  BY DEF TypeOK
<1>w. worker \in [Workers -> CleanupRun]
  BY DEF TypeOK
<1>1. ASSUME NEW d \in Documents, GateUpload(d) PROVE TypeOK'
  BY <1>1 DEF TypeOK, GateUpload
<1>2. ASSUME NEW d \in Documents, InsertDocument(d) PROVE TypeOK'
  <2>1. document' \in [Documents -> DocumentRow]
    <3>1. PICK slot \in 1..MaxFiles :
            document' = [document EXCEPT ![d].status = "authorized", ![d].slot = slot]
      BY <1>2 DEF InsertDocument, FreeSlots
    <3>2. document' = [document EXCEPT ![d] =
                         [document[d] EXCEPT !.status = "authorized", !.slot = slot]]
      BY <1>d, <3>1
    <3>3. [document[d] EXCEPT !.status = "authorized", !.slot = slot] \in DocumentRow
      BY <1>d DEF DocumentRow, UploadStatuses
    <3> QED  BY <1>d, <3>2, <3>3
  <2> QED
    BY <1>2, <2>1 DEF TypeOK, InsertDocument
<1>3. ASSUME NEW d \in Documents, MintToken(d) PROVE TypeOK'
  BY <1>3 DEF TypeOK, MintToken
<1>4. ASSUME NEW d \in Documents, RollBackDocument(d) PROVE TypeOK'
  <2>1. document' \in [Documents -> DocumentRow]
    BY <1>4, <1>d, LeaveQuotaType DEF RollBackDocument
  <2> QED
    BY <1>4, <2>1 DEF TypeOK, RollBackDocument
<1>5. ASSUME NEW d \in Documents, EndAuthorization(d) PROVE TypeOK'
  BY <1>5 DEF TypeOK, EndAuthorization
<1>6. ASSUME NEW d \in Documents, ExpireDocument(d) PROVE TypeOK'
  BY <1>6 DEF TypeOK, ExpireDocument
<1>7. ASSUME NEW d \in Documents, RemoveDraftDocument(d) PROVE TypeOK'
  <2>1. document' \in [Documents -> DocumentRow]
    BY <1>7, <1>d, LeaveQuotaType DEF UploadStatuses, RemoveDraftDocument
  <2> QED
    BY <1>7, <2>1 DEF TypeOK, RemoveDraftDocument
<1>8. ASSUME NEW d \in Documents,
            NEW n \in Uploads,
            NEW declared \in BOOLEAN,
            PutObject(d, n, declared)
     PROVE  TypeOK'
  <2>1. upload' \in [Uploads -> StoredUpload]
    BY <1>8, <1>u DEF PutObject, StoredUpload
  <2> QED
    BY <1>8, <2>1 DEF TypeOK, PutObject
<1>9. ASSUME NEW c \in Callbacks, NEW n \in Uploads,
            ReceiveCallback(c, n)
     PROVE  TypeOK'
  <2>1. callback' \in [Callbacks -> Invocation]
    BY <1>9, <1>c DEF ReceiveCallback, IdleCallback, Invocation
  <2> QED
    BY <1>9, <2>1 DEF TypeOK, ReceiveCallback
<1>10. ASSUME NEW c \in Callbacks, ClaimEvent(c) PROVE TypeOK'
  <2>1. upload' \in [Uploads -> StoredUpload]
    BY <1>10, <1>u DEF ClaimEvent, StoredUpload
  <2>2. callback' \in [Callbacks -> Invocation]
    BY <1>10, <1>c DEF ClaimEvent, IdleCallback, Invocation
  <2> QED
    BY <1>10, <2>1, <2>2 DEF TypeOK, ClaimEvent
<1>11. ASSUME NEW c \in Callbacks, ReadDocument(c) PROVE TypeOK'
  <2>1. callback' \in [Callbacks -> Invocation]
    BY <1>11, <1>c DEF ReadDocument, Status, Invocation
  <2> QED
    BY <1>11, <2>1 DEF TypeOK, ReadDocument
<1>12. ASSUME NEW c \in Callbacks, LandUpload(c) PROVE TypeOK'
  <2> DEFINE n == callback[c].upload
             d == upload[n].document
  <2>1. document' \in [Documents -> DocumentRow]
    <3>1. n \in {Provisional} \cup Uploads
      BY <1>12, <1>c DEF LandUpload, Invocation, Provisional
    <3>2. \/ document' = document
          \/ document' = [document EXCEPT ![d].path = n]
          \/ document' = [document EXCEPT ![d].path = n, ![d].status = "uploaded"]
      <4>1. CASE callback[c].seen = "deletion_pending"
        BY <1>12, <1>d, <4>1 DEF LandUpload, DocumentRow
      <4>2. CASE callback[c].seen # "deletion_pending"
        BY <1>12, <4>2 DEF LandUpload
      <4> QED
        BY <4>1, <4>2
    <3> HIDE DEF n, d
    <3> QED
      BY <1>d, <3>1, <3>2 DEF DocumentRow, UploadStatuses
  <2>2. callback' \in [Callbacks -> Invocation]
    BY <1>12, <1>c DEF LandUpload, Invocation
  <2> QED
    BY <1>12, <2>1, <2>2 DEF TypeOK, LandUpload
<1>13. ASSUME NEW c \in Callbacks, DecideUpload(c) PROVE TypeOK'
  <2>1. document' \in [Documents -> DocumentRow]
    <3> DEFINE d == upload[callback[c].upload].document
    <3>1. \/ document' = document
          \/ document' = [document EXCEPT ![d].status = "verified"]
          \/ LeaveQuota(d, "rejected")
      BY <1>13 DEF DecideUpload
    <3> HIDE DEF d
    <3>2. CASE document' = [document EXCEPT ![d].status = "verified"]
      BY <3>2, <1>d DEF DocumentRow, UploadStatuses
    <3>3. CASE LeaveQuota(d, "rejected")
      BY <3>3, <1>d, LeaveQuotaType DEF UploadStatuses
    <3> QED
      BY <3>1, <3>2, <3>3, <1>d
  <2>2. callback' \in [Callbacks -> Invocation]
    BY <1>13, <1>c DEF DecideUpload, Invocation
  <2> QED
    BY <1>13, <2>1, <2>2 DEF TypeOK, DecideUpload
<1>14. ASSUME NEW c \in Callbacks, FinishCallback(c) PROVE TypeOK'
  <2>1. upload' \in [Uploads -> StoredUpload]
    BY <1>14, <1>u DEF FinishCallback, EndCallback, StoredUpload
  <2>2. callback' \in [Callbacks -> Invocation]
    BY <1>14, <1>c DEF FinishCallback, EndCallback, IdleCallback, Invocation
  <2> QED
    BY <1>14, <2>1, <2>2 DEF TypeOK, FinishCallback, EndCallback
<1>15. ASSUME NEW c \in Callbacks, FailCallback(c) PROVE TypeOK'
  <2>1. upload' \in [Uploads -> StoredUpload]
    BY <1>15, <1>u DEF FailCallback, EndCallback, StoredUpload
  <2>2. callback' \in [Callbacks -> Invocation]
    BY <1>15, <1>c DEF FailCallback, EndCallback, IdleCallback, Invocation
  <2> QED
    BY <1>15, <2>1, <2>2 DEF TypeOK, FailCallback, EndCallback
<1>16. ASSUME NEW c \in Callbacks, CrashCallback(c) PROVE TypeOK'
  <2>1. callback' \in [Callbacks -> Invocation]
    BY <1>16, <1>c DEF CrashCallback, IdleCallback, Invocation
  <2> QED
    BY <1>16, <2>1 DEF TypeOK, CrashCallback
<1>17. ASSUME NEW d \in DisposalPhotos, GateRemoval(d) PROVE TypeOK'
  BY <1>17 DEF TypeOK, GateRemoval
<1>18. ASSUME NEW d \in DisposalPhotos, RemoveEvidenceDocument(d) PROVE TypeOK'
  <2>1. document' = document \/ LeaveQuota(d, "deletion_pending")
    BY <1>18 DEF RemoveEvidenceDocument
  <2>2. document' \in [Documents -> DocumentRow]
    BY <1>d, <2>1, LeaveQuotaType DEF UploadStatuses
  <2> QED
    BY <1>18, <2>2 DEF TypeOK, RemoveEvidenceDocument
<1>19. ASSUME NEW files \in SUBSET ClaimFiles, SubmitClaim(files) PROVE TypeOK'
  <2>1. document' \in [Documents -> DocumentRow]
    BY <1>19, <1>d DEF SubmitClaim, DocumentRow, UploadStatuses
  <2> QED
    BY <1>19, <2>1 DEF TypeOK, SubmitClaim
<1>20. ASSUME ExpireDraft PROVE TypeOK'
  BY <1>20 DEF TypeOK, ExpireDraft
<1>21. ASSUME NEW s \in Submitters,
            NEW photos \in (SUBSET DisposalPhotos) \ {{}},
            CheckEvidence(s, photos)
     PROVE  TypeOK'
  BY <1>21 DEF TypeOK, CheckEvidence
<1>22. ASSUME NEW s \in Submitters, WriteBatch(s) PROVE TypeOK'
  BY <1>22 DEF TypeOK, WriteBatch
<1>23. ASSUME NEW s \in Submitters, AbandonBatch(s) PROVE TypeOK'
  BY <1>23 DEF TypeOK, AbandonBatch
<1>24. ASSUME MoveGate PROVE TypeOK'
  BY <1>24 DEF TypeOK, MoveGate
<1>25. ASSUME NEW b \in batches \ elapsed, EndRetention(b) PROVE TypeOK'
  BY <1>25 DEF TypeOK, EndRetention
<1>26. ASSUME NEW w \in Workers, NEW d \in Documents, Scan(w, d) PROVE TypeOK'
  <2>1. document[d].path \in {Provisional} \cup Uploads
    BY <1>d DEF DocumentRow
  <2>2. worker' \in [Workers -> CleanupRun]
    BY <1>26, <1>w, <2>1 DEF Scan, CleanupRun
  <2> QED
    BY <1>26, <2>2 DEF TypeOK, Scan
<1>27. ASSUME NEW w \in Workers, ClaimDocument(w) PROVE TypeOK'
  <2>1. document' \in [Documents -> DocumentRow]
    <3>1. PICK d : \/ document' = document
                   \/ document' = [document EXCEPT ![d].status = "deletion_pending"]
      BY <1>27 DEF ClaimDocument
    <3>2. \A row \in DocumentRow :
            [row EXCEPT !.status = "deletion_pending"] \in DocumentRow
      BY WithStatus DEF UploadStatuses
    <3> QED  BY <1>d, <3>1, <3>2
  <2>2. worker' \in [Workers -> CleanupRun]
    BY <1>27, <1>w DEF ClaimDocument, IdleWorker, CleanupRun
  <2> QED
    BY <1>27, <2>1, <2>2 DEF TypeOK, ClaimDocument
<1>28. ASSUME NEW w \in Workers, RemoveObject(w) PROVE TypeOK'
  <2>1. upload' \in [Uploads -> StoredUpload]
    BY <1>28, <1>u DEF RemoveObject, StoredUpload
  <2>2. worker' \in [Workers -> CleanupRun]
    BY <1>28, <1>w DEF RemoveObject, CleanupRun
  <2> QED
    BY <1>28, <2>1, <2>2 DEF TypeOK, RemoveObject
<1>29. ASSUME NEW w \in Workers, RecordDeletion(w) PROVE TypeOK'
  <2>1. document' \in [Documents -> DocumentRow]
    <3>1. PICK d : document' = [document EXCEPT ![d].status =
                                  IF @ = "absent" THEN @ ELSE "deleted"]
      BY <1>29 DEF RecordDeletion
    <3>2. \A row \in DocumentRow :
            [row EXCEPT !.status = IF @ = "absent" THEN @ ELSE "deleted"] \in DocumentRow
      BY WithStatus DEF UploadStatuses, DocumentRow
    <3> QED  BY <1>d, <3>1, <3>2
  <2>2. worker' \in [Workers -> CleanupRun]
    BY <1>29, <1>w DEF RecordDeletion, IdleWorker, CleanupRun
  <2> QED
    BY <1>29, <2>1, <2>2 DEF TypeOK, RecordDeletion
<1>30. ASSUME NEW w \in Workers, LeaveDocument(w) PROVE TypeOK'
  <2>1. worker' \in [Workers -> CleanupRun]
    BY <1>30, <1>w DEF LeaveDocument, IdleWorker, CleanupRun
  <2> QED
    BY <1>30, <2>1 DEF TypeOK, LeaveDocument
<1>31. CASE UNCHANGED vars
  BY <1>31 DEF TypeOK, vars
<1> QED
  BY <1>1, <1>2, <1>3, <1>4, <1>5, <1>6, <1>7, <1>8, <1>9, <1>10, <1>11,
     <1>12, <1>13, <1>14, <1>15, <1>16, <1>17, <1>18, <1>19, <1>20, <1>21,
     <1>22, <1>23, <1>24, <1>25, <1>26, <1>27, <1>28, <1>29, <1>30, <1>31 DEF
     Next

-----------------------------------------------------------------------------
(* What a step can do to a row, an object and a request.                   *)

Inserted(d) ==
  /\ authorization[d] = "gated" /\ authorization'[d] = "minting"
  /\ document'[d].status = "authorized" /\ document'[d].path = document[d].path
  /\ document'[d].slot \in FreeSlots(d)
  /\ \A e \in Documents \ {d} : document'[e] = document[e]

Left(d) ==
  /\ authorization[d] \in Handed \cup {"minting"}
  /\ Status(d) # "linked" /\ (Status(d) = "verified" => ~UnderRetention(d))
  /\ document'[d].status \in Gone
  /\ document'[d].path = document[d].path
  /\ document'[d].slot \in {document[d].slot, NoSlot}

Moved(d) ==
  /\ \/ Status(d) = "authorized" /\ document'[d].status = "uploaded"
     \/ Status(d) = "deletion_pending" /\ document'[d].status = "deletion_pending"
  /\ document'[d].path \in Uploads /\ upload[document'[d].path].document = d
  /\ document'[d].slot = document[d].slot

Decided(d) ==
  /\ \/ /\ Status(d) = "uploaded"
        /\ document'[d].status \in {"verified", "rejected"}
     \/ /\ Status(d) = "verified" /\ d \in ClaimFiles
        /\ document'[d].status = "linked"
  /\ document'[d].path = document[d].path
  /\ document'[d].slot \in {document[d].slot, NoSlot}
  /\ document'[d].status = "verified" => document'[d].slot = document[d].slot

RowStep(d) ==
  document'[d] = document[d] \/ Inserted(d) \/ Left(d) \/ Moved(d) \/ Decided(d)

ObjectStep(n) ==
  \/ /\ upload'[n].document = upload[n].document
     /\ upload'[n].stored = upload[n].stored
  \/ /\ upload[n].document = NoDocument
     /\ upload'[n].document \in Documents /\ upload'[n].stored
     /\ authorization[upload'[n].document] = "live"
  \/ /\ upload'[n].document = upload[n].document /\ ~upload'[n].stored
     /\ Status(upload[n].document) \in Gone

(* A row that leaves gives its slot back and keeps its path. *)
LEMMA LeaveQuotaRows ==
  ASSUME document \in [Documents -> DocumentRow], NEW d \in Documents,
         NEW status \in UploadStatuses \cup {"absent"}, LeaveQuota(d, status)
  PROVE  /\ document'[d].status = status
         /\ document'[d].path = document[d].path
         /\ document'[d].slot = NoSlot
         /\ \A e \in Documents \ {d} : document'[e] = document[e]
BY DEF LeaveQuota, DocumentRow

(* Every step does to a row one of the five things of RowStep. *)
LEMMA RowSteps ==
  ASSUME FilesInv, [Next]_vars, NEW e \in Documents
  PROVE  RowStep(e)
<1>d. document \in [Documents -> DocumentRow]
  BY DEF FilesInv, TypeOK
<1>g. {"deletion_pending", "rejected", "absent"} \subseteq UploadStatuses \cup {"absent"}
  BY DEF UploadStatuses
<1>1. ASSUME NEW d \in Documents, InsertDocument(d) PROVE RowStep(e)
  <2>1. authorization \in [Documents -> {"none", "gated", "minting", "live", "over"}]
    BY DEF FilesInv, TypeOK
  <2>2. PICK slot \in FreeSlots(d) :
          document' = [document EXCEPT ![d].status = "authorized", ![d].slot = slot]
    BY <1>1 DEF InsertDocument
  <2>3. document'[d] = [document[d] EXCEPT !.status = "authorized", !.slot = slot]
        /\ \A f \in Documents \ {d} : document'[f] = document[f]
    BY <1>d, <2>2
  <2>4. /\ document'[d].status = "authorized" /\ document'[d].slot = slot
        /\ document'[d].path = document[d].path
    BY <1>d, <2>3 DEF DocumentRow
  <2>5. authorization[d] = "gated" /\ authorization'[d] = "minting"
    BY <1>1, <2>1 DEF InsertDocument
  <2> QED
    BY <2>2, <2>3, <2>4, <2>5 DEF RowStep, Inserted
<1>2. ASSUME NEW d \in Documents, RollBackDocument(d) PROVE RowStep(e)
  <2>1. Status(d) \notin Landed
    BY <1>2 DEF RollBackDocument, FilesInv, RowsFollowRequests, Handed
  <2>2. LeaveQuota(d, "absent") /\ authorization[d] = "minting"
    BY <1>2 DEF RollBackDocument
  <2> QED
    BY <1>d, <1>g, <2>1, <2>2, LeaveQuotaRows DEF RowStep, Left, Gone, Landed
<1>3. ASSUME NEW d \in Documents, RemoveDraftDocument(d) PROVE RowStep(e)
  <2>1. Status(d) \in Deletable /\ ~UnderRetention(d) /\ LeaveQuota(d, "deletion_pending")
    BY <1>3 DEF RemoveDraftDocument
  <2>2. authorization[d] \in Handed \cup {"minting"}
    BY <2>1 DEF FilesInv, RowsFollowRequests, Deletable
  <2> QED
    BY <1>d, <1>g, <2>1, <2>2, LeaveQuotaRows DEF RowStep, Left, Gone, Deletable
<1>4. ASSUME NEW d \in DisposalPhotos, RemoveEvidenceDocument(d) PROVE RowStep(e)
  <2>1. CASE document' = document
    BY <2>1 DEF RowStep
  <2>2. CASE document' # document
    <3>1. Status(d) \in Removable /\ ~UnderRetention(d) /\ LeaveQuota(d, "deletion_pending")
      BY <1>4, <2>2 DEF RemoveEvidenceDocument
    <3>2. authorization[d] \in Handed \cup {"minting"} /\ d \in Documents
      BY <3>1 DEF FilesInv, RowsFollowRequests, Removable, Deletable, Documents
    <3> QED
      BY <1>d, <1>g, <3>1, <3>2, LeaveQuotaRows
      DEF RowStep, Left, Gone, Removable, Deletable
  <2> QED
    BY <2>1, <2>2
<1>5. ASSUME NEW c \in Callbacks, LandUpload(c) PROVE RowStep(e)
  <2> DEFINE n == callback[c].upload
             d == upload[n].document
  <2>1. CASE document' = document
    BY <2>1 DEF RowStep
  <2>2. CASE document' # document
    <3>1. /\ n \in Uploads /\ d \in Documents
          /\ callback[c].seen \in {"authorized", "deletion_pending"}
      BY <1>5 DEF LandUpload, FilesInv, CallbacksKnowTheirUpload
    <3>2. Status(d) = callback[c].seen
      BY <1>5, <2>2 DEF LandUpload
    <3>3. \/ /\ Status(d) = "deletion_pending"
             /\ document' = [document EXCEPT ![d] = [@ EXCEPT !.path = n]]
          \/ /\ Status(d) = "authorized"
             /\ document' = [document EXCEPT ![d] = [@ EXCEPT !.path = n, !.status = "uploaded"]]
      <4>1. CASE callback[c].seen = "deletion_pending"
        BY <1>5, <1>d, <2>2, <3>1, <3>2, <4>1 DEF LandUpload, DocumentRow
      <4>2. CASE callback[c].seen = "authorized"
        BY <1>5, <1>d, <2>2, <3>1, <3>2, <4>2 DEF LandUpload, DocumentRow
      <4> QED
        BY <3>1, <4>1, <4>2
    <3>4. d = upload[n].document
      OBVIOUS
    <3> HIDE DEF n, d
    <3>5. CASE e # d
      BY <1>d, <3>3, <3>5 DEF RowStep
    <3>6. CASE e = d
      <4>1. \/ /\ Status(d) = "deletion_pending"
               /\ document'[d] = [document[d] EXCEPT !.path = n]
            \/ /\ Status(d) = "authorized"
               /\ document'[d] = [document[d] EXCEPT !.path = n, !.status = "uploaded"]
        BY <1>d, <3>1, <3>3
      <4>2. document[d] \in DocumentRow
        BY <1>d, <3>1
      <4> QED
        BY <3>1, <3>4, <3>6, <4>1, <4>2 DEF RowStep, Moved, DocumentRow, Status
    <3> QED
      BY <3>5, <3>6
  <2> QED
    BY <2>1, <2>2
<1>6. ASSUME NEW c \in Callbacks, DecideUpload(c) PROVE RowStep(e)
  <2> DEFINE d == upload[callback[c].upload].document
  <2>1. d \in Documents
    BY <1>6 DEF DecideUpload, FilesInv, CallbacksKnowTheirUpload
  <2>2. \/ document' = document
        \/ /\ Status(d) = "uploaded"
           /\ \/ document' = [document EXCEPT ![d].status = "verified"]
              \/ LeaveQuota(d, "rejected")
    BY <1>6 DEF DecideUpload
  <2> HIDE DEF d
  <2>3. CASE document' = document
    BY <2>3 DEF RowStep
  <2>4. CASE Status(d) = "uploaded" /\ document' = [document EXCEPT ![d].status = "verified"]
    BY <1>d, <2>1, <2>4 DEF RowStep, Decided, DocumentRow
  <2>5. CASE Status(d) = "uploaded" /\ LeaveQuota(d, "rejected")
    BY <1>d, <1>g, <2>1, <2>5, LeaveQuotaRows DEF RowStep, Decided
  <2> QED
    BY <2>2, <2>3, <2>4, <2>5
<1>7. ASSUME NEW files \in SUBSET ClaimFiles, SubmitClaim(files) PROVE RowStep(e)
  <2>1. CASE e \notin files
    BY <1>7, <2>1 DEF SubmitClaim, RowStep
  <2>2. CASE e \in files
    BY <1>7, <1>d, <2>2 DEF SubmitClaim, RowStep, Decided, DocumentRow, Status
  <2> QED
    BY <2>1, <2>2
<1>8. ASSUME NEW w \in Workers, ClaimDocument(w) PROVE RowStep(e)
  <2> DEFINE d == worker[w].document
  <2>1. CASE document' = document
    BY <2>1 DEF RowStep
  <2>2. CASE document' # document
    <3>1. /\ Status(d) \in Deletable /\ ~UnderRetention(d)
          /\ document' = [document EXCEPT ![d].status = "deletion_pending"]
      BY <1>8, <2>2 DEF ClaimDocument
    <3>2. d \in Documents
      BY <1>8 DEF ClaimDocument, FilesInv, WorkersHoldDeadRows
    <3>3. authorization[d] \in Handed \cup {"minting"}
      BY <3>1, <3>2 DEF FilesInv, RowsFollowRequests, Deletable
    <3> HIDE DEF d
    <3> QED
      BY <1>d, <3>1, <3>2, <3>3 DEF RowStep, Left, Gone, Deletable, DocumentRow
  <2> QED
    BY <2>1, <2>2
<1>9. ASSUME NEW w \in Workers, RecordDeletion(w) PROVE RowStep(e)
  <2> DEFINE d == worker[w].document
  <2>1. /\ d \in Documents /\ Status(d) \in Gone
        /\ authorization[d] \in Handed \cup {"minting"}
    BY <1>9 DEF RecordDeletion, FilesInv, WorkersHoldDeadRows
  <2>2. CASE Status(d) = "absent"
    <3>1. document' = document
      BY <1>9, <1>d, <2>1, <2>2 DEF RecordDeletion, Status, DocumentRow
    <3> QED
      BY <3>1 DEF RowStep
  <2>3. CASE Status(d) # "absent"
    <3>1. document' = [document EXCEPT ![d].status = "deleted"]
      BY <1>9, <2>3 DEF RecordDeletion, Status
    <3> HIDE DEF d
    <3> QED
      BY <1>d, <2>1, <3>1 DEF RowStep, Left, Gone, DocumentRow
  <2> QED
    BY <2>2, <2>3
<1>10. CASE document' = document
  BY <1>10 DEF RowStep
<1> QED
  BY <1>1, <1>2, <1>3, <1>4, <1>5, <1>6, <1>7, <1>8, <1>9, <1>10
  DEF Next, vars, GateUpload, MintToken, EndAuthorization, ExpireDocument,
      PutObject, ReceiveCallback, ClaimEvent, ReadDocument, FinishCallback,
      FailCallback, EndCallback, CrashCallback, GateRemoval, ExpireDraft,
      CheckEvidence, WriteBatch, AbandonBatch, MoveGate, EndRetention, Scan,
      RemoveObject, LeaveDocument

(* An object is put, or goes when its row is on the way out, or stays. *)
LEMMA ObjectSteps ==
  ASSUME FilesInv, [Next]_vars, NEW n \in Uploads
  PROVE  ObjectStep(n)
<1>u. upload \in [Uploads -> StoredUpload]
  BY DEF FilesInv, TypeOK
<1>1. ASSUME NEW d \in Documents, NEW m \in Uploads, NEW declared \in BOOLEAN,
             PutObject(d, m, declared)
      PROVE  ObjectStep(n)
  <2>1. upload[m] = NoUpload /\ m >= m
    BY <1>1 DEF PutObject, Uploads
  <2>2. upload[m].document = NoDocument
    BY <2>1 DEF NoUpload
  <2>3. upload'[m].document = d /\ upload'[m].stored
        /\ \A k \in Uploads \ {m} : upload'[k] = upload[k]
    BY <1>1, <1>u DEF PutObject
  <2>4. authorization[d] = "live"
    BY <1>1 DEF PutObject
  <2> QED
    BY <2>2, <2>3, <2>4 DEF ObjectStep
<1>2. ASSUME NEW c \in Callbacks, ClaimEvent(c) PROVE ObjectStep(n)
  BY <1>2, <1>u DEF ClaimEvent, ObjectStep, StoredUpload
<1>3. ASSUME NEW c \in Callbacks, NEW event, EndCallback(c, event) PROVE ObjectStep(n)
  BY <1>3, <1>u DEF EndCallback, ObjectStep, StoredUpload
<1>4. ASSUME NEW w \in Workers, RemoveObject(w) PROVE ObjectStep(n)
  <2>1. CASE n # worker[w].path \/ worker[w].path = Provisional
    BY <1>4, <1>u, <2>1 DEF RemoveObject, ObjectStep
  <2>2. CASE n = worker[w].path /\ worker[w].path # Provisional
    <3>1. upload[n].document = worker[w].document
      BY <2>2 DEF FilesInv, PathsNameOwnObjects
    <3>2. Status(upload[n].document) \in Gone
      BY <1>4, <3>1 DEF RemoveObject, FilesInv, WorkersHoldDeadRows
    <3>3. upload' = [upload EXCEPT ![n].stored = FALSE]
      BY <1>4, <2>2 DEF RemoveObject
    <3> QED
      BY <1>u, <3>2, <3>3 DEF ObjectStep, StoredUpload
  <2> QED
    BY <2>1, <2>2
<1>5. CASE upload' = upload
  BY <1>5 DEF ObjectStep
<1> QED
  BY <1>1, <1>2, <1>3, <1>4, <1>5
  DEF Next, vars, GateUpload, InsertDocument, MintToken, RollBackDocument,
      EndAuthorization, ExpireDocument, RemoveDraftDocument, ReceiveCallback,
      ReadDocument, LandUpload, DecideUpload, FinishCallback, FailCallback,
      CrashCallback, GateRemoval, RemoveEvidenceDocument, SubmitClaim,
      ExpireDraft, CheckEvidence, WriteBatch, AbandonBatch, MoveGate,
      EndRetention, Scan, ClaimDocument, RecordDeletion, LeaveDocument

(* A request goes through its stages in one direction. *)
AuthorizationStep(d) ==
  \/ authorization'[d] = authorization[d]
  \/ authorization[d] = "none" /\ authorization'[d] = "gated"
  \/ authorization[d] = "gated" /\ authorization'[d] = "minting"
  \/ authorization[d] \in {"minting", "live"} /\ authorization'[d] \in Handed

(* Every step moves a request by one stage at most. *)
LEMMA AuthorizationSteps ==
  ASSUME FilesInv, [Next]_vars, NEW e \in Documents
  PROVE  AuthorizationStep(e)
<1>a. authorization \in [Documents -> {"none", "gated", "minting", "live", "over"}]
  BY DEF FilesInv, TypeOK
<1>1. ASSUME NEW d \in Documents,
             \/ GateUpload(d) \/ InsertDocument(d) \/ MintToken(d)
             \/ RollBackDocument(d) \/ EndAuthorization(d)
      PROVE  AuthorizationStep(e)
  BY <1>1, <1>a
  DEF GateUpload, InsertDocument, MintToken, RollBackDocument,
      EndAuthorization, AuthorizationStep, Handed
<1>2. CASE authorization' = authorization
  BY <1>2 DEF AuthorizationStep
<1> QED
  BY <1>1, <1>2
  DEF Next, vars, ExpireDocument, RemoveDraftDocument, PutObject,
      ReceiveCallback, ClaimEvent, ReadDocument, LandUpload, DecideUpload,
      FinishCallback, FailCallback, EndCallback, CrashCallback, GateRemoval,
      RemoveEvidenceDocument, SubmitClaim, ExpireDraft, CheckEvidence,
      WriteBatch, AbandonBatch, MoveGate, EndRetention, Scan, ClaimDocument,
      RemoveObject, RecordDeletion, LeaveDocument

-----------------------------------------------------------------------------
(* The invariant is inductive.                                             *)

(* A row on its way out stays there, and its request does not start over.  *)
LEMMA GoneStaysGone ==
  ASSUME FilesInv, [Next]_vars, NEW d \in Documents, Status(d) \in Gone,
         authorization[d] \in Handed \cup {"minting"}
  PROVE  Status(d)' \in Gone /\ authorization'[d] \in Handed \cup {"minting"}
<1>1. RowStep(d) /\ AuthorizationStep(d)
  BY RowSteps, AuthorizationSteps
<1> QED
  BY <1>1
  DEF RowStep, Inserted, Left, Moved, Decided, AuthorizationStep, Status, Gone,
      Handed

(* Rows keep following their requests. *)
LEMMA RowsInv ==
  ASSUME FilesInv, [Next]_vars PROVE RowsFollowRequests'
<1> SUFFICES ASSUME NEW d \in Documents
             PROVE  /\ Status(d)' # "absent" => authorization'[d] \in Handed \cup {"minting"}
                    /\ Status(d)' \in Landed \cup {"rejected"} => authorization'[d] \in Handed
  BY DEF RowsFollowRequests, Status
<1>1. RowStep(d) /\ AuthorizationStep(d)
  BY RowSteps, AuthorizationSteps
<1>2. /\ Status(d) # "absent" => authorization[d] \in Handed \cup {"minting"}
      /\ Status(d) \in Landed \cup {"rejected"} => authorization[d] \in Handed
  BY DEF FilesInv, RowsFollowRequests
<1>3. document'[d].path \in Uploads /\ upload[document'[d].path].document = d =>
        authorization[d] \in Handed
  BY FilesAssumption DEF FilesInv, ObjectsFollowTokens, Documents, NoDocument
<1> QED
  BY <1>1, <1>2, <1>3
  DEF RowStep, Inserted, Left, Moved, Decided, AuthorizationStep, Status, Gone,
      Handed, Landed

(* Objects keep following their tokens. *)
LEMMA ObjectsInv ==
  ASSUME FilesInv, [Next]_vars PROVE ObjectsFollowTokens'
<1> SUFFICES ASSUME NEW n \in Uploads
             PROVE  /\ upload'[n].stored => upload'[n].document # NoDocument
                    /\ upload'[n].document # NoDocument =>
                         /\ authorization'[upload'[n].document] \in Handed
                         /\ ~upload'[n].stored => document'[upload'[n].document].status \in Gone
  BY DEF ObjectsFollowTokens, Status
<1>1. ObjectStep(n)
  BY ObjectSteps
<1>2. upload[n].document \in Documents \cup {NoDocument} /\ NoDocument \notin Documents
  BY FilesAssumption DEF FilesInv, TypeOK, StoredUpload, Documents, NoDocument
<1>3. /\ upload[n].stored => upload[n].document # NoDocument
      /\ upload[n].document # NoDocument =>
           /\ authorization[upload[n].document] \in Handed
           /\ ~upload[n].stored => Status(upload[n].document) \in Gone
  BY DEF FilesInv, ObjectsFollowTokens
<1>4. \A d \in Documents : authorization[d] \in Handed => authorization'[d] \in Handed
  BY AuthorizationSteps DEF AuthorizationStep, Handed
<1>5. \A d \in Documents :
        authorization[d] \in Handed /\ Status(d) \in Gone => Status(d)' \in Gone
  BY GoneStaysGone
<1> QED
  BY <1>1, <1>2, <1>3, <1>4, <1>5 DEF ObjectStep, Handed, Status

(* A path comes from a callback's own object or from the row it names. *)
LEMMA PathsInv ==
  ASSUME FilesInv, [Next]_vars, TypeOK' PROVE PathsNameOwnObjects'
<1>1. \A n \in Uploads : upload[n].document \in Documents =>
        upload'[n].document = upload[n].document
  BY ObjectSteps, FilesAssumption DEF ObjectStep, Documents, NoDocument
<1>2. ASSUME NEW d \in Documents
      PROVE  /\ document'[d].path \in Uploads => upload'[document'[d].path].document = d
             /\ Status(d)' \in Landed => document'[d].path \in Uploads
  <2>1. RowStep(d)
    BY RowSteps
  <2>2. /\ document[d].path \in Uploads => upload[document[d].path].document = d
        /\ Status(d) \in Landed => document[d].path \in Uploads
    BY DEF FilesInv, PathsNameOwnObjects
  <2> QED
    BY <1>1, <2>1, <2>2
    DEF RowStep, Inserted, Left, Moved, Decided, Status, Gone, Landed
<1>3. ASSUME NEW w \in Workers, worker'[w].path \in Uploads
      PROVE  /\ worker'[w].document \in Documents
             /\ upload'[worker'[w].path].document = worker'[w].document
  <2>1. \/ worker'[w].path = Provisional
        \/ worker'[w].path = worker[w].path /\ worker'[w].document = worker[w].document
        \/ \E d \in Documents : worker'[w].path = document[d].path
                                /\ worker'[w].document = d
    <3>w. worker \in [Workers -> CleanupRun]
      BY DEF FilesInv, TypeOK
    <3>1. ASSUME NEW v \in Workers, NEW d \in Documents, Scan(v, d)
          PROVE  \/ worker'[w] = worker[w]
                 \/ worker'[w].path = document[d].path /\ worker'[w].document = d
      BY <3>1, <3>w DEF Scan
    <3>2. ASSUME NEW v \in Workers,
                 ClaimDocument(v) \/ RemoveObject(v) \/ RecordDeletion(v) \/ LeaveDocument(v)
          PROVE  \/ worker'[w].path = Provisional
                 \/ /\ worker'[w].path = worker[w].path
                    /\ worker'[w].document = worker[w].document
      BY <3>2, <3>w
      DEF ClaimDocument, RemoveObject, RecordDeletion, LeaveDocument, IdleWorker,
          CleanupRun
    <3>3. CASE worker' = worker
      BY <3>3
    <3> QED
      BY <3>1, <3>2, <3>3
      DEF Next, vars, GateUpload, InsertDocument, MintToken, RollBackDocument,
          EndAuthorization, ExpireDocument, RemoveDraftDocument, PutObject,
          ReceiveCallback, ClaimEvent, ReadDocument, LandUpload, DecideUpload,
          FinishCallback, FailCallback, EndCallback, CrashCallback, GateRemoval,
          RemoveEvidenceDocument, SubmitClaim, ExpireDraft, CheckEvidence,
          WriteBatch, AbandonBatch, MoveGate, EndRetention
  <2>2. Provisional \notin Uploads
    BY DEF Provisional, Uploads
  <2> QED
    BY <1>1, <1>3, <2>1, <2>2 DEF FilesInv, PathsNameOwnObjects
<1> QED
  BY <1>2, <1>3 DEF PathsNameOwnObjects, Status

(* A callback keeps the object it announces. *)
LEMMA CallbacksInv ==
  ASSUME FilesInv, [Next]_vars PROVE CallbacksKnowTheirUpload'
<1>1. \A n \in Uploads : upload[n].document \in Documents =>
        upload'[n].document \in Documents
  BY ObjectSteps, FilesAssumption DEF ObjectStep, Documents, NoDocument
<1>c. callback \in [Callbacks -> Invocation]
  BY DEF FilesInv, TypeOK
<1> DEFINE Knows(i, row) ==
             i.at # "idle" =>
               /\ i.upload \in Uploads
               /\ row[i.upload].document \in Documents
               /\ i.at = "read" => i.seen \in {"authorized", "deletion_pending"}
<1>2. \A c \in Callbacks : Knows(callback[c], upload)
  BY DEF FilesInv, CallbacksKnowTheirUpload
<1> SUFFICES ASSUME NEW c \in Callbacks PROVE Knows(callback'[c], upload')
  BY DEF CallbacksKnowTheirUpload
<1>3. ASSUME NEW b \in Callbacks, NEW n \in Uploads, ReceiveCallback(b, n)
      PROVE  Knows(callback'[c], upload)
  <2>1. upload[n].document \in Documents
    BY <1>3 DEF ReceiveCallback, FilesInv, ObjectsFollowTokens, TypeOK, StoredUpload
  <2> QED
    BY <1>3, <1>c, <1>2, <2>1 DEF ReceiveCallback, IdleCallback
<1>4. ASSUME NEW b \in Callbacks,
             \/ ClaimEvent(b) \/ ReadDocument(b) \/ LandUpload(b) \/ DecideUpload(b)
             \/ FinishCallback(b) \/ FailCallback(b) \/ CrashCallback(b)
      PROVE  Knows(callback'[c], upload)
  <2> DEFINE Goes(i) ==
               \/ i = callback[c] \/ i = IdleCallback
               \/ /\ i.upload = callback[c].upload
                  /\ callback[c].at # "idle"
                  /\ i.at = "read" => i.seen \in {"authorized", "deletion_pending"}
  <2>1. Goes(callback'[c])
    <3>1. CASE c # b
      BY <1>4, <1>c, <3>1
      DEF ClaimEvent, ReadDocument, LandUpload, DecideUpload, FinishCallback,
          FailCallback, EndCallback, CrashCallback
    <3>2. CASE c = b /\ (FinishCallback(b) \/ FailCallback(b) \/ CrashCallback(b))
      BY <1>c, <3>2 DEF FinishCallback, FailCallback, EndCallback, CrashCallback
    <3>3. CASE c = b /\ ClaimEvent(b)
      BY <1>c, <3>3 DEF ClaimEvent, Invocation
    <3>4. CASE c = b /\ ReadDocument(b)
      BY <1>c, <3>4 DEF ReadDocument, Invocation
    <3>5. CASE c = b /\ LandUpload(b)
      <4>1. PICK at \in {"settled", "landed"} :
              callback'[c] = [callback[c] EXCEPT !.at = at]
        BY <1>c, <3>5 DEF LandUpload
      <4>2. callback[c].at = "read"
        BY <3>5 DEF LandUpload
      <4> QED  BY <1>c, <4>1, <4>2 DEF Invocation
    <3>6. CASE c = b /\ DecideUpload(b)
      <4>1. callback'[c] = [callback[c] EXCEPT !.at = "settled"]
        BY <1>c, <3>6 DEF DecideUpload
      <4>2. callback[c].at = "landed"
        BY <3>6 DEF DecideUpload
      <4> QED  BY <1>c, <4>1, <4>2 DEF Invocation
    <3> QED
      BY <1>4, <3>1, <3>2, <3>3, <3>4, <3>5, <3>6
  <2> QED
    BY <1>2, <2>1 DEF IdleCallback
<1>5. CASE callback' = callback
  BY <1>1, <1>2, <1>5
<1> HIDE DEF Knows
<1>6. Knows(callback'[c], upload) \/ callback' = callback
  BY <1>3, <1>4
  DEF Next, vars, GateUpload, InsertDocument, MintToken, RollBackDocument,
      EndAuthorization, ExpireDocument, RemoveDraftDocument, PutObject,
      GateRemoval, RemoveEvidenceDocument, SubmitClaim, ExpireDraft,
      CheckEvidence, WriteBatch, AbandonBatch, MoveGate, EndRetention, Scan,
      ClaimDocument, RemoveObject, RecordDeletion, LeaveDocument
<1> QED
  BY <1>1, <1>5, <1>6 DEF Knows

(* A worker goes on only with a row that is on the way out. *)
LEMMA WorkersInv ==
  ASSUME FilesInv, [Next]_vars PROVE WorkersHoldDeadRows'
<1> DEFINE Dead(d, status, request) ==
             status \in Gone /\ request \in Handed \cup {"minting"}
<1>1. \A d \in Documents :
        Dead(d, Status(d), authorization[d]) => Dead(d, document'[d].status, authorization'[d])
  BY GoneStaysGone DEF Status
<1>w. worker \in [Workers -> CleanupRun]
  BY DEF FilesInv, TypeOK
<1>2. \A w \in Workers :
        /\ worker[w].at # "idle" => worker[w].document \in Documents
        /\ worker[w].at \in {"claimed", "retrying", "recording"} =>
             Dead(worker[w].document, Status(worker[w].document), authorization[worker[w].document])
  BY DEF FilesInv, WorkersHoldDeadRows
<1> SUFFICES ASSUME NEW w \in Workers
             PROVE  /\ worker'[w].at # "idle" => worker'[w].document \in Documents
                    /\ worker'[w].at \in {"claimed", "retrying", "recording"} =>
                         Dead(worker'[w].document, document'[worker'[w].document].status,
                              authorization'[worker'[w].document])
  BY DEF WorkersHoldDeadRows, Status
<1> HIDE DEF Dead
<1>3. CASE worker'[w] = worker[w]
  BY <1>1, <1>2, <1>3
<1>4. CASE worker'[w] = IdleWorker
  BY <1>4 DEF IdleWorker
<1>5. ASSUME NEW d \in Documents, Scan(w, d), worker'[w] # worker[w]
      PROVE  /\ worker'[w].document = d
             /\ worker'[w].at = "scanned" \/ Dead(d, Status(d), authorization[d])
  <2>1. Status(d) = "deletion_pending" => Dead(d, Status(d), authorization[d])
    BY DEF FilesInv, RowsFollowRequests, Dead, Gone
  <2> QED
    BY <1>5, <1>w, <2>1 DEF Scan
<1>6. CASE ClaimDocument(w) /\ worker'[w] # IdleWorker
  <2> DEFINE d == worker[w].document
  <2>1. /\ d \in Documents /\ Status(d) \in Deletable
        /\ document' = [document EXCEPT ![d].status = "deletion_pending"]
        /\ worker'[w].document = d
        /\ authorization' = authorization
    BY <1>6, <1>2, <1>w DEF ClaimDocument
  <2>2. authorization[d] \in Handed \cup {"minting"}
    BY <2>1 DEF FilesInv, RowsFollowRequests, Deletable
  <2>3. document'[d].status = "deletion_pending"
    <3> HIDE DEF d
    <3>1. document \in [Documents -> DocumentRow]
      BY DEF FilesInv, TypeOK
    <3> QED
      BY <2>1, <3>1 DEF DocumentRow
  <2> QED
    BY <2>1, <2>2, <2>3 DEF Dead, Gone
<1>7. CASE RemoveObject(w)
  <2>1. worker'[w].document = worker[w].document /\ worker[w].at \in {"claimed", "retrying"}
    BY <1>7, <1>w DEF RemoveObject
  <2> QED
    BY <1>1, <1>2, <2>1
<1>8. \/ worker'[w] = worker[w] \/ worker'[w] = IdleWorker
      \/ \E d \in Documents : Scan(w, d)
      \/ ClaimDocument(w) \/ RemoveObject(w)
  <2>1. ASSUME NEW v \in Workers,
               \/ \E d \in Documents : Scan(v, d)
               \/ ClaimDocument(v) \/ RemoveObject(v) \/ RecordDeletion(v)
               \/ LeaveDocument(v)
        PROVE  \/ v = w \/ worker'[w] = worker[w]
    BY <2>1, <1>w DEF Scan, ClaimDocument, RemoveObject, RecordDeletion, LeaveDocument
  <2>2. RecordDeletion(w) \/ LeaveDocument(w) => worker'[w] = IdleWorker
    BY <1>w DEF RecordDeletion, LeaveDocument
  <2> QED
    BY <2>1, <2>2
    DEF Next, vars, GateUpload, InsertDocument, MintToken, RollBackDocument,
        EndAuthorization, ExpireDocument, RemoveDraftDocument, PutObject,
        ReceiveCallback, ClaimEvent, ReadDocument, LandUpload, DecideUpload,
        FinishCallback, FailCallback, EndCallback, CrashCallback, GateRemoval,
        RemoveEvidenceDocument, SubmitClaim, ExpireDraft, CheckEvidence,
        WriteBatch, AbandonBatch, MoveGate, EndRetention
<1>9. CASE \E d \in Documents : Scan(w, d) /\ worker'[w] # worker[w]
  BY <1>1, <1>5, <1>9
<1> QED
  BY <1>3, <1>4, <1>6, <1>7, <1>8, <1>9

(* A slot is given to one row at a time: by the insert, to a free one. *)
LEMMA SlotsInv ==
  ASSUME FilesInv, [Next]_vars PROVE SlotsAreDistinct'
<1>1. ASSUME NEW d \in Documents, Inserted(d) PROVE SlotsAreDistinct'
  <2>1. /\ document'[d].slot # NoSlot
        /\ \A e \in SameCategory(d) : e # d => document'[d].slot # document'[e].slot
        /\ \A e \in Documents \ {d} : document'[e] = document[e]
    BY <1>1 DEF Inserted, FreeSlots, SlotsTaken, SameCategory, Documents, NoSlot
  <2>2. \A e \in Documents : d \in SameCategory(e) => e \in SameCategory(d)
    BY FilesAssumption DEF SameCategory, Documents
  <2> QED
    BY <2>1, <2>2 DEF FilesInv, SlotsAreDistinct, SameCategory, Status, Documents
<1>2. CASE \A d \in Documents : ~Inserted(d)
  <2>1. \A d \in Documents :
          /\ document'[d].slot \in {document[d].slot, NoSlot}
          /\ document'[d].status \in Deletable =>
               Status(d) \in Deletable /\ document'[d].slot = document[d].slot
    BY <1>2, RowSteps DEF RowStep, Left, Moved, Decided, Status, Deletable, Gone
  <2> QED
    BY <2>1 DEF FilesInv, SlotsAreDistinct, SameCategory, Status, Documents
<1> QED
  BY <1>1, <1>2

(* The invariant holds initially. *)
LEMMA InitFilesInv == Init => FilesInv
<1> SUFFICES ASSUME Init PROVE FilesInv
  OBVIOUS
<1>1. \A d \in Documents : document[d] = [status |-> "absent", slot |-> NoSlot, path |-> Provisional]
  BY DEF Init
<1>2. Provisional \notin Uploads
  BY DEF Provisional, Uploads
<1>3. RowsFollowRequests /\ SlotsAreDistinct
  BY <1>1 DEF RowsFollowRequests, SlotsAreDistinct, Status, Landed, Deletable, SameCategory, Documents
<1>4. ObjectsFollowTokens /\ PathsNameOwnObjects
  BY <1>1, <1>2
  DEF Init, ObjectsFollowTokens, PathsNameOwnObjects, NoUpload, IdleWorker, Status,
      Landed
<1>5. CallbacksKnowTheirUpload /\ WorkersHoldDeadRows
  BY DEF Init, CallbacksKnowTheirUpload, WorkersHoldDeadRows, IdleCallback, IdleWorker
<1> QED
  BY <1>3, <1>4, <1>5, InitTypeOK DEF FilesInv

(* The invariant is inductive. *)
LEMMA NextFilesInv == FilesInv /\ [Next]_vars => FilesInv'
<1> SUFFICES ASSUME FilesInv, [Next]_vars PROVE FilesInv'
  OBVIOUS
<1>1. TypeOK'
  BY NextTypeOK DEF FilesInv
<1> QED
  BY <1>1, RowsInv, ObjectsInv, PathsInv, CallbacksInv, WorkersInv, SlotsInv
  DEF FilesInv

-----------------------------------------------------------------------------
(* The theorems.                                                           *)

(* The invariant holds in every reachable state. *)
LEMMA FilesInvHolds == Spec => []FilesInv
<1> QED
  BY InitFilesInv, NextFilesInv, PTL DEF Spec

(* Rows, objects, callbacks and cleanup runs are well formed in every      *)
(* state of the upload service and the cleanup worker.                     *)
THEOREM FilesTypeCorrect == Spec => []TypeOK
<1>1. FilesInv => TypeOK
  BY DEF FilesInv
<1> QED
  BY <1>1, FilesInvHolds, PTL

(* Whatever callbacks and cleanup runs overlap, a verified or linked file  *)
(* has its own bytes (reconcileCompletedUpload, removeBlob).               *)
THEOREM KeptFilesHaveTheirObjects == Spec => []KeptFileHasItsObject
<1>1. FilesInv => KeptFileHasItsObject
  <2> SUFFICES ASSUME FilesInv, NEW d \in Documents, Status(d) \in {"verified", "linked"}
               PROVE  ObjectOf(d) /\ upload[document[d].path].document = d
    BY DEF KeptFileHasItsObject
  <2>1. document[d].path \in Uploads /\ upload[document[d].path].document = d
    BY DEF FilesInv, PathsNameOwnObjects, Landed
  <2>2. d # NoDocument /\ Status(d) \notin Gone
    BY FilesAssumption DEF NoDocument, Documents, Gone
  <2> QED
    BY <2>1, <2>2 DEF ObjectOf, FilesInv, ObjectsFollowTokens
<1> QED
  BY <1>1, FilesInvHolds, PTL

(* No category ever has more files in play than it accepts, for any limit  *)
(* and any number of concurrent requests (authorizeUpload).                *)
THEOREM QuotaIsKept == Spec => []FilesWithinLimit
<1>1. FilesInv => FilesWithinLimit
  <2> SUFFICES ASSUME FilesInv, NEW category \in {ClaimFiles, DisposalPhotos}
               PROVE  Cardinality({d \in category : Status(d) \in Deletable}) <= MaxFiles
    BY DEF FilesWithinLimit
  <2> DEFINE S == {d \in category : Status(d) \in Deletable}
             slot == [d \in S |-> document[d].slot]
  <2>1. \A d \in S : document[d].slot \in 1..MaxFiles
    <3>1. \A d \in Documents : document[d].slot \in {NoSlot} \cup 1..MaxFiles
      BY DEF FilesInv, TypeOK, DocumentRow
    <3> QED
      BY <3>1 DEF FilesInv, SlotsAreDistinct, Documents
  <2>2. \A d, e \in S : slot[d] = slot[e] => d = e
    <3>1. \A d, e \in S : e \in SameCategory(d) /\ d \in Documents
      BY FilesAssumption DEF SameCategory, Documents
    <3>2. \A d \in S : document[d].slot # NoSlot
      BY DEF FilesInv, SlotsAreDistinct, Documents
    <3> QED
      BY <3>1, <3>2 DEF FilesInv, SlotsAreDistinct
  <2>3. slot \in Injection(S, 1..MaxFiles)
    BY <2>1, <2>2 DEF Injection, IsInjective
  <2>4. IsFiniteSet(1..MaxFiles) /\ Cardinality(1..MaxFiles) = MaxFiles
    <3>0. MaxFiles \in Nat
      BY FilesAssumption
    <3>1. 1 \in Int /\ MaxFiles \in Int
      BY <3>0
    <3>2. /\ IsFiniteSet(1..MaxFiles)
          /\ Cardinality(1..MaxFiles) = IF 1 > MaxFiles THEN 0 ELSE MaxFiles - 1 + 1
      BY <3>1, FS_Interval
    <3> QED
      BY <3>0, <3>2
  <2> QED
    <3> HIDE DEF S, slot
    <3>1. Cardinality(S) <= Cardinality(1..MaxFiles)
      BY <2>3, <2>4, FS_Injection
    <3> QED
      BY <2>4, <3>1 DEF S
<1> QED
  BY <1>1, FilesInvHolds, PTL

(* What was decided about a file stands: a document a case owns stays that *)
(* case's, a file somebody asked to delete does not come back through a    *)
(* callback, and neither a second upload nor a second delivery replaces    *)
(* verified bytes.                                                         *)
THEOREM DecisionsStand == Spec => DecidedFilesStand
<1>1. ASSUME FilesInv, [Next]_vars, NEW d \in Documents, Status(d) = "linked"
      PROVE  Status(d)' = "linked"
  <2>1. RowStep(d) /\ authorization[d] # "gated"
    BY <1>1, RowSteps DEF FilesInv, RowsFollowRequests, Landed, Handed
  <2> QED
    BY <1>1, <2>1 DEF RowStep, Inserted, Left, Moved, Decided, Status
<1>2. ASSUME FilesInv, [Next]_vars, NEW d \in Documents,
             Status(d) \in {"deletion_pending", "deleted"}
      PROVE  Status(d)' \in {"deletion_pending", "deleted", "absent"}
  <2>1. authorization[d] \in Handed \cup {"minting"}
    BY <1>2 DEF FilesInv, RowsFollowRequests
  <2> QED
    BY <1>2, <2>1, GoneStaysGone DEF Gone
<1>3. ASSUME FilesInv, [Next]_vars, NEW d \in Documents,
             Status(d) \in {"verified", "linked"}
      PROVE  document'[d].path = document[d].path
  BY <1>3, RowSteps DEF RowStep, Inserted, Left, Moved, Decided, Status
<1>4. FilesInv /\ [Next]_vars =>
        [\A d \in Documents :
           /\ Status(d) = "linked" => Status(d)' = "linked"
           /\ Status(d) \in {"deletion_pending", "deleted"} =>
                Status(d)' \in {"deletion_pending", "deleted", "absent"}
           /\ Status(d) \in {"verified", "linked"} =>
                document'[d].path = document[d].path]_vars
  BY <1>1, <1>2, <1>3
<1> QED
  BY <1>4, FilesInvHolds, PTL DEF Spec, DecidedFilesStand

(* Evidence under retention is out of reach of its owner and of every      *)
(* cleanup run, for any number of them (notUnderEvidenceRetention).        *)
THEOREM RetainedEvidenceIsKept == Spec => RetainedEvidenceStays
<1>1. FilesInv /\ [Next]_vars =>
        [\A d \in DisposalPhotos : Status(d) = "verified" /\ UnderRetention(d) =>
           Status(d)' = "verified"]_vars
  <2> SUFFICES ASSUME FilesInv, [Next]_vars, NEW d \in DisposalPhotos,
                      Status(d) = "verified", UnderRetention(d)
               PROVE  Status(d)' = "verified"
    OBVIOUS
  <2>1. d \in Documents /\ d \notin ClaimFiles
    BY FilesAssumption DEF Documents
  <2>2. RowStep(d) /\ authorization[d] # "gated"
    BY <2>1, RowSteps DEF FilesInv, RowsFollowRequests, Landed, Handed
  <2> QED
    BY <2>1, <2>2 DEF RowStep, Inserted, Left, Moved, Decided, Status
<1> QED
  BY <1>1, FilesInvHolds, PTL DEF Spec, RetainedEvidenceStays
=============================================================================
