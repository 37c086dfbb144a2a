------------------------ MODULE ClaimSubmissionProofs ------------------------
(***************************************************************************)
(* Theorems about module ClaimSubmission, for every number of drafts,      *)
(* documents, keys and submissions, every time to live and every request.  *)
(*                                                                         *)
(* A submission decides in three steps and writes at its commit.  What it  *)
(* decided on still holds then, because it holds the row of its draft from *)
(* the gate on (DraftsAreHeld) and the rows of its documents from their    *)
(* check on (DocumentsAreHeld).  The key is not held: the record is looked *)
(* up at the gate, and the unique index on it decides at the commit, so    *)
(* that a record is only ever replaced when it had expired for the         *)
(* submission that replaces it (SeenIsOver, RecordsAnswer).                *)
(***************************************************************************)
EXTENDS ClaimSubmission, TLAPS

SubmissionRow ==
  [at     : {"ready", "begun", "gated", "checked", "collided", "done"},
   hash   : Hashes \cup {NoHash},
   key    : Keys \cup {"none"},
   began  : Time,
   seen   : RecordRow \cup {NoRecord},
   answer : References \cup {"none", "refused", "conflict"}]

Holding(s) == submission[s].at \in {"gated", "checked"}

(* A submission under way, or answered with a case, knows its request. *)
RequestsAreWhole ==
  \A s \in Submissions : submission[s].at # "ready" \/ submission[s].answer \in References =>
    submission[s].hash \in Hashes /\ submission[s].key \in Keys

DraftsAreHeld ==
  /\ \A s, t \in Submissions :
       Holding(s) /\ Holding(t) /\ DraftOf(s) = DraftOf(t) => s = t
  /\ \A s \in Submissions : Holding(s) => draft[DraftOf(s)].status = "active"

DocumentsAreHeld ==
  /\ \A s, t \in Submissions : \A f \in Documents :
       /\ submission[s].at = "checked" /\ submission[t].at = "checked"
       /\ f \in BodyOf(s).documents /\ f \in BodyOf(t).documents
       => s = t
  /\ \A s \in Submissions : submission[s].at = "checked" =>
       \A f \in BodyOf(s).documents :
         document[f] = [status |-> "verified", owner |-> DraftOf(s)]

(* A case has the files it named, and no others are linked. *)
CasesHaveTheirFiles ==
  /\ \A n \in Submitted :
       {f \in Documents : document[f] = [status |-> "linked", owner |-> n]}
         = claim[n].hash[2].documents
  /\ \A f \in Documents : document[f].status = "linked" => document[f].owner \in Submitted

RecordsNameClaims ==
  \A k \in Keys : record[k] # NoRecord =>
    /\ record[k].claim \in Submitted
    /\ claim[record[k].claim].hash = record[k].hash
    /\ claim[record[k].claim].key = k

(* A case has its record until the record is over. *)
RecordsAnswer ==
  \A n \in Submitted :
    LET found == record[claim[n].key] IN
    \/ found.claim = n /\ found.expires = claim[n].at + RecordTTL
    \/ claim[n].at + RecordTTL <= clock

SeenIsOver ==
  \A s \in Submissions :
    /\ submission[s].began <= clock
    /\ Holding(s) => \/ submission[s].seen = NoRecord
                     \/ submission[s].seen.expires <= submission[s].began

ClaimInv ==
  /\ ClaimTypeOK /\ RequestsAreWhole
  /\ DraftsAreHeld /\ DocumentsAreHeld
  /\ CasesHaveTheirFiles
  /\ RecordsNameClaims /\ RecordsAnswer /\ SeenIsOver
  /\ OneCasePerDraft

-----------------------------------------------------------------------------
(* What the types say.                                                     *)

LEMMA RequestParts ==
  ASSUME RequestsAreWhole, NEW s \in Submissions, submission[s].at # "ready"
  PROVE  /\ DraftOf(s) \in Drafts /\ BodyOf(s) \in Bodies
         /\ BodyOf(s).documents \subseteq Documents
         /\ submission[s].hash = <<DraftOf(s), BodyOf(s)>>
         /\ submission[s].hash \in Hashes /\ submission[s].key \in Keys
<1>1. submission[s].hash \in Hashes /\ submission[s].key \in Keys
  BY DEF RequestsAreWhole
<1>2. DraftOf(s) \in Drafts /\ BodyOf(s) \in Bodies
      /\ submission[s].hash = <<DraftOf(s), BodyOf(s)>>
  BY <1>1 DEF Hashes, DraftOf, BodyOf
<1> QED  BY <1>1, <1>2, ClaimAssumption

LEMMA CaseParts ==
  ASSUME ClaimTypeOK, NEW n \in References
  PROVE  /\ n \in Submitted <=> claim[n] # NoClaim
         /\ n \in Submitted =>
              /\ claim[n].hash \in Hashes /\ claim[n].key \in Keys /\ claim[n].at \in Time
              /\ claim[n].hash[1] \in Drafts /\ claim[n].hash[2] \in Bodies
<1>1. n \in Submitted <=> claim[n] # NoClaim
  BY DEF Submitted
<1>2. ASSUME n \in Submitted
      PROVE  claim[n].hash \in Hashes /\ claim[n].key \in Keys /\ claim[n].at \in Time
  BY <1>1, <1>2 DEF ClaimTypeOK
<1> QED  BY <1>1, <1>2 DEF Hashes

LEMMA RecordParts ==
  ASSUME ClaimTypeOK, NEW k \in Keys
  PROVE  /\ record[k] # NoRecord => record[k] \in RecordRow
         /\ record[k].expires \in Later
<1>1. record[k] \in RecordRow \cup {NoRecord}
  BY DEF ClaimTypeOK
<1>2. 0 \in Later
  BY ClaimAssumption DEF Later
<1> QED  BY <1>1, <1>2 DEF RecordRow, NoRecord

LEMMA SubmissionParts ==
  ASSUME ClaimTypeOK
  PROVE  /\ submission \in [Submissions -> SubmissionRow]
         /\ \A s \in Submissions : submission[s] \in SubmissionRow
BY DEF ClaimTypeOK, SubmissionRow

LEMMA ReadyRow == Ready \in SubmissionRow
BY ClaimAssumption DEF Ready, SubmissionRow, Time, NoRecord

-----------------------------------------------------------------------------
(* Steps that write nothing but their own submission, which then holds no  *)
(* row.                                                                    *)

LetsGo(s, row) ==
  /\ submission' = [submission EXCEPT ![s] = row]
  /\ row.at \notin {"gated", "checked"}
  /\ row.at # "ready" \/ row.answer \in References => row.hash \in Hashes /\ row.key \in Keys
  /\ row.began <= clock
  /\ row.answer \in References =>
       claim[row.answer].hash = row.hash /\ claim[row.answer].key = row.key
  /\ UNCHANGED <<clock, campaign, draft, document, claim, record>>

LEMMA LetsGoKeeps ==
  ASSUME ClaimInv, NEW s \in Submissions, NEW row \in SubmissionRow, LetsGo(s, row)
  PROVE  ClaimInv'
<1>1. /\ submission \in [Submissions -> SubmissionRow]
      /\ submission'[s] = row
      /\ \A t \in Submissions \ {s} : submission'[t] = submission[t]
  BY SubmissionParts DEF ClaimInv, LetsGo
<1>2. ClaimTypeOK'
  <2>1. submission' \in [Submissions -> SubmissionRow]
    BY <1>1 DEF LetsGo
  <2> QED  BY <2>1 DEF ClaimInv, ClaimTypeOK, LetsGo, SubmissionRow
<1>3. RequestsAreWhole'
  BY <1>1 DEF ClaimInv, RequestsAreWhole, LetsGo
<1>4. /\ \A t \in Submissions : Holding(t)' => t # s /\ Holding(t)
      /\ \A t \in Submissions : submission'[t].at = "checked" =>
           t # s /\ submission[t].at = "checked"
      /\ \A t \in Submissions \ {s} : DraftOf(t)' = DraftOf(t) /\ BodyOf(t)' = BodyOf(t)
  BY <1>1 DEF Holding, LetsGo, DraftOf, BodyOf
<1>5. DraftsAreHeld'
  BY <1>4 DEF ClaimInv, DraftsAreHeld, LetsGo
<1>6. DocumentsAreHeld'
  BY <1>4 DEF ClaimInv, DocumentsAreHeld, LetsGo
<1>7. Submitted' = Submitted
  BY DEF Submitted, LetsGo
<1>8. CasesHaveTheirFiles' /\ RecordsNameClaims' /\ RecordsAnswer'
  BY <1>7 DEF ClaimInv, CasesHaveTheirFiles, RecordsNameClaims, RecordsAnswer, LetsGo
<1>9. SeenIsOver'
  BY <1>1, <1>4 DEF ClaimInv, SeenIsOver, LetsGo
<1>10. OneCasePerDraft'
  <2>1. \A t \in Submissions : submission'[t].answer \in References =>
          /\ claim[submission'[t].answer].hash = submission'[t].hash
          /\ claim[submission'[t].answer].key = submission'[t].key
    BY <1>1 DEF ClaimInv, OneCasePerDraft, LetsGo
  <2> QED  BY <1>7, <2>1 DEF ClaimInv, OneCasePerDraft, LetsGo
<1> QED
  BY <1>2, <1>3, <1>5, <1>6, <1>8, <1>9, <1>10 DEF ClaimInv

(* A submission is answered: every step that ends one says so. *)
LEMMA FinishLetsGo ==
  ASSUME ClaimInv, NEW s \in Submissions,
         submission[s].at # "ready",
         NEW answer \in References \cup {"none", "refused", "conflict"},
         answer \in References => claim[answer].hash = submission[s].hash
                                   /\ claim[answer].key = submission[s].key,
         Finish(s, answer),
         UNCHANGED <<clock, campaign, draft, document, claim, record>>
  PROVE  ClaimInv'
<1>1. submission \in [Submissions -> SubmissionRow] /\ submission[s] \in SubmissionRow
  BY SubmissionParts DEF ClaimInv
<1> DEFINE row == [submission[s] EXCEPT !.at = "done", !.answer = answer, !.seen = NoRecord]
<1>2. submission' = [submission EXCEPT ![s] = row]
  BY <1>1 DEF Finish
<1>3. /\ row \in SubmissionRow /\ row.at = "done" /\ row.answer = answer
      /\ row.hash = submission[s].hash /\ row.key = submission[s].key
      /\ row.began = submission[s].began
  BY <1>1 DEF SubmissionRow
<1>4. row.hash \in Hashes /\ row.key \in Keys /\ row.began <= clock
  BY <1>3 DEF ClaimInv, RequestsAreWhole, SeenIsOver
<1> HIDE DEF row
<1>5. LetsGo(s, row)
  BY <1>2, <1>3, <1>4 DEF LetsGo
<1> QED  BY <1>3, <1>5, LetsGoKeeps
LEMMA BeginKeeps ==
  ASSUME ClaimInv, NEW s \in Submissions, NEW d \in Drafts, NEW body \in Bodies,
         NEW k \in Keys, BeginSubmission(s, d, body, k)
  PROVE  ClaimInv'
<1> DEFINE row == [Ready EXCEPT !.at = "begun", !.hash = <<d, body>>, !.key = k,
                                !.began = clock]
<1>1. /\ row.at = "begun" /\ row.hash = <<d, body>> /\ row.key = k
      /\ row.began = clock /\ row.answer = "none"
  BY DEF Ready
<1>2. clock \in Time /\ <<d, body>> \in Hashes
  BY DEF ClaimInv, ClaimTypeOK, Hashes
<1>3. row \in SubmissionRow
  BY <1>2 DEF Ready, SubmissionRow
<1>4. row.began <= clock /\ row.answer \notin References
  BY <1>1, <1>2, ClaimAssumption DEF Time
<1>5. submission' = [submission EXCEPT ![s] = row]
      /\ UNCHANGED <<clock, campaign, draft, document, claim, record>>
  BY DEF BeginSubmission
<1> HIDE DEF row
<1>6. LetsGo(s, row)
  BY <1>1, <1>2, <1>4, <1>5 DEF LetsGo
<1> QED  BY <1>3, <1>6, LetsGoKeeps

LEMMA BreakOffKeeps ==
  ASSUME ClaimInv, NEW s \in Submissions, BreakOff(s)
  PROVE  ClaimInv'
<1>1. Ready.at = "ready" /\ Ready.began = 0 /\ Ready.answer = "none"
  BY DEF Ready
<1>2. clock \in Time /\ Ready.began <= clock /\ Ready.answer \notin References
  BY <1>1, ClaimAssumption DEF ClaimInv, ClaimTypeOK, Time
<1>3. LetsGo(s, Ready)
  BY <1>1, <1>2 DEF BreakOff, LetsGo
<1> QED  BY <1>3, ReadyRow, LetsGoKeeps

LEMMA CollideKeeps ==
  ASSUME ClaimInv, NEW s \in Submissions, Collide(s)
  PROVE  ClaimInv'
<1>1. submission \in [Submissions -> SubmissionRow] /\ submission[s] \in SubmissionRow
  BY SubmissionParts DEF ClaimInv
<1> DEFINE row == [submission[s] EXCEPT !.at = "collided"]
<1>2. /\ row \in SubmissionRow /\ row.at = "collided"
      /\ row.hash = submission[s].hash /\ row.key = submission[s].key
      /\ row.began = submission[s].began /\ row.answer = submission[s].answer
  BY <1>1 DEF SubmissionRow
<1>3. submission' = [submission EXCEPT ![s] = row]
      /\ UNCHANGED <<clock, campaign, draft, document, claim, record>>
  BY <1>1 DEF Collide
<1>4. submission[s].at # "ready"
  BY DEF Collide
<1>5. row.hash \in Hashes /\ row.key \in Keys /\ row.began <= clock
  BY <1>2, <1>4 DEF ClaimInv, RequestsAreWhole, SeenIsOver
<1>6. row.answer \in References =>
        claim[row.answer].hash = row.hash /\ claim[row.answer].key = row.key
  BY <1>2 DEF ClaimInv, OneCasePerDraft
<1> HIDE DEF row
<1>7. LetsGo(s, row)
  BY <1>2, <1>3, <1>5, <1>6 DEF LetsGo
<1> QED  BY <1>2, <1>7, LetsGoKeeps

(* replay names the case the request was made into, or none. *)
LEMMA ReplayIsRight ==
  ASSUME ClaimInv, NEW s \in Submissions, submission[s].at # "ready", Answering(s)
  PROVE  \/ Replay(s) = "conflict"
         \/ /\ Replay(s) \in Submitted
            /\ claim[Replay(s)].hash = submission[s].hash
            /\ claim[Replay(s)].key = submission[s].key
<1> DEFINE k == submission[s].key
<1>1. k \in Keys /\ submission[s].hash \in Hashes
  BY DEF ClaimInv, RequestsAreWhole
<1>2. submission[s].began \in Nat
  BY SubmissionParts DEF ClaimInv, SubmissionRow, Time
<1>3. record[k] # NoRecord
  BY <1>2 DEF Answering, NoRecord
<1>4. /\ record[k].claim \in Submitted
      /\ claim[record[k].claim].hash = record[k].hash
      /\ claim[record[k].claim].key = k
  BY <1>1, <1>3 DEF ClaimInv, RecordsNameClaims
<1> QED  BY <1>4 DEF Replay

LEMMA AnswerCollisionKeeps ==
  ASSUME ClaimInv, NEW s \in Submissions, AnswerCollision(s)
  PROVE  ClaimInv'
<1> DEFINE answer == IF Answering(s) THEN Replay(s) ELSE "refused"
<1>1. submission[s].at # "ready" /\ Finish(s, answer)
      /\ UNCHANGED <<clock, campaign, draft, document, claim, record>>
  BY DEF AnswerCollision
<1>2. /\ answer \in References \cup {"none", "refused", "conflict"}
      /\ answer \in References => claim[answer].hash = submission[s].hash
                                  /\ claim[answer].key = submission[s].key
  BY <1>1, ReplayIsRight, ClaimAssumption DEF Submitted
<1> HIDE DEF answer
<1> QED  BY <1>1, <1>2, FinishLetsGo

LEMMA RunOutKeeps ==
  ASSUME ClaimInv, NEW s \in Submissions, RunOutOfReferences(s)
  PROVE  ClaimInv'
BY FinishLetsGo, ClaimAssumption DEF RunOutOfReferences

(* A step that makes no case, submits no draft and answers nobody. *)
Answers(s) == <<submission[s].answer, submission[s].hash, submission[s].key>>

LEMMA OneCaseFrame ==
  ASSUME OneCasePerDraft, UNCHANGED claim,
         \A d \in Drafts : draft'[d].status = "submitted" <=> draft[d].status = "submitted",
         \A t \in Submissions : Answers(t)' = Answers(t)
  PROVE  OneCasePerDraft'
<1>1. Submitted' = Submitted
  BY DEF Submitted
<1>2. \A m, n \in Submitted : claim[m].hash[1] = claim[n].hash[1] => m = n
  BY DEF OneCasePerDraft
<1>3. \A d \in Drafts :
        draft'[d].status = "submitted" <=> \E n \in Submitted : claim[n].hash[1] = d
  BY DEF OneCasePerDraft
<1>4. \A t \in Submissions :
        LET n == submission'[t].answer IN
        n \in References =>
          claim[n].hash = submission'[t].hash /\ claim[n].key = submission'[t].key
  BY DEF OneCasePerDraft, Answers
<1> QED  BY <1>1, <1>2, <1>3, <1>4 DEF OneCasePerDraft

(* The gate: the row of the draft is taken from here on. *)
LEMMA GateKeeps ==
  ASSUME ClaimInv, NEW s \in Submissions, submission[s].at = "begun",
         ~DraftLocked(DraftOf(s)), draft[DraftOf(s)].status = "active", ~Answering(s),
         submission' = [submission EXCEPT ![s].at = "gated",
                          ![s].seen = record[submission[s].key]],
         UNCHANGED <<clock, campaign, draft, document, claim, record>>
  PROVE  ClaimInv'
<1> DEFINE row == [submission[s] EXCEPT !.at = "gated", !.seen = record[submission[s].key]]
<1>1. submission \in [Submissions -> SubmissionRow] /\ submission[s] \in SubmissionRow
  BY SubmissionParts DEF ClaimInv
<1>2. submission[s].hash \in Hashes /\ submission[s].key \in Keys
  BY DEF ClaimInv, RequestsAreWhole
<1>3. record[submission[s].key] \in RecordRow \cup {NoRecord}
  BY <1>2 DEF ClaimInv, ClaimTypeOK
<1>4. /\ row \in SubmissionRow /\ row.at = "gated"
      /\ row.hash = submission[s].hash /\ row.key = submission[s].key
      /\ row.began = submission[s].began /\ row.answer = submission[s].answer
      /\ row.seen = record[submission[s].key]
  BY <1>1, <1>3 DEF SubmissionRow
<1>5. submission' = [submission EXCEPT ![s] = row]
  BY <1>1
<1> HIDE DEF row
<1>6. submission'[s] = row /\ \A t \in Submissions \ {s} : submission'[t] = submission[t]
  BY <1>1, <1>5
<1>7. /\ \A t \in Submissions \ {s} : Holding(t)' <=> Holding(t)
      /\ \A t \in Submissions : submission'[t].at = "checked" =>
           t # s /\ submission[t].at = "checked"
      /\ \A t \in Submissions : DraftOf(t)' = DraftOf(t) /\ BodyOf(t)' = BodyOf(t)
  BY <1>4, <1>6 DEF Holding, DraftOf, BodyOf
<1>8. ClaimTypeOK'
  <2>1. submission' \in [Submissions -> SubmissionRow]
    BY <1>1, <1>4, <1>5
  <2> QED  BY <2>1 DEF ClaimInv, ClaimTypeOK, SubmissionRow
<1>9. RequestsAreWhole'
  BY <1>2, <1>4, <1>6 DEF ClaimInv, RequestsAreWhole
<1>10. DraftsAreHeld'
  <2>1. \A t \in Submissions \ {s} : Holding(t) => DraftOf(t) # DraftOf(s)
    BY DEF DraftLocked, Holding
  <2> QED  BY <1>7, <2>1 DEF ClaimInv, DraftsAreHeld
<1>11. DocumentsAreHeld'
  BY <1>7 DEF ClaimInv, DocumentsAreHeld
<1>12. Submitted' = Submitted
  BY DEF Submitted
<1>13. CasesHaveTheirFiles' /\ RecordsNameClaims' /\ RecordsAnswer'
  BY <1>12 DEF ClaimInv, CasesHaveTheirFiles, RecordsNameClaims, RecordsAnswer
<1>14. SeenIsOver'
  <2>1. row.began <= clock
    BY <1>4 DEF ClaimInv, SeenIsOver
  <2>2. row.seen.expires <= row.began
    BY <1>1, <1>2, <1>4, RecordParts DEF ClaimInv, Answering, Later, SubmissionRow, Time
  <2> QED  BY <1>6, <1>7, <2>1, <2>2 DEF ClaimInv, SeenIsOver
<1>15. OneCasePerDraft'
  <2>1. \A t \in Submissions : Answers(t)' = Answers(t)
    BY <1>4, <1>6 DEF Answers
  <2> QED  BY <2>1, OneCaseFrame DEF ClaimInv
<1> QED
  BY <1>8, <1>9, <1>10, <1>11, <1>13, <1>14, <1>15 DEF ClaimInv
LEMMA LockDraftKeeps ==
  ASSUME ClaimInv, NEW s \in Submissions, LockDraft(s)
  PROVE  ClaimInv'
<1>1. submission[s].at # "ready" /\ UNCHANGED <<clock, campaign, draft, document, claim, record>>
  BY DEF LockDraft
<1>2. ASSUME NEW answer \in {"refused", "conflict"}, Finish(s, answer) PROVE ClaimInv'
  BY <1>1, <1>2, FinishLetsGo, ClaimAssumption
<1>3. ASSUME Answering(s), Finish(s, Replay(s)) PROVE ClaimInv'
  <2> DEFINE answer == Replay(s)
  <2>1. /\ answer \in References \cup {"none", "refused", "conflict"}
        /\ answer \in References => claim[answer].hash = submission[s].hash
                                    /\ claim[answer].key = submission[s].key
    BY <1>1, <1>3, ReplayIsRight, ClaimAssumption DEF Submitted
  <2> HIDE DEF answer
  <2> QED  BY <1>1, <1>3, <2>1, FinishLetsGo DEF answer
<1>4. \/ Finish(s, "refused") \/ Finish(s, "conflict")
      \/ Answering(s) /\ Finish(s, Replay(s))
      \/ /\ submission[s].at = "begun" /\ ~DraftLocked(DraftOf(s))
         /\ draft[DraftOf(s)].status = "active" /\ ~Answering(s)
         /\ submission' = [submission EXCEPT ![s].at = "gated",
                              ![s].seen = record[submission[s].key]]
  BY DEF LockDraft
<1> QED  BY <1>1, <1>2, <1>3, <1>4, GateKeeps

(* The check: the rows of the documents are taken from here on. *)
LEMMA CheckKeeps ==
  ASSUME ClaimInv, NEW s \in Submissions, CheckSubmission(s)
  PROVE  ClaimInv'
<1>0. submission[s].at = "gated" /\ UNCHANGED <<clock, campaign, draft, document, claim, record>>
  BY DEF CheckSubmission
<1>1. CASE Finish(s, "refused")
  BY <1>0, <1>1, FinishLetsGo, ClaimAssumption
<1>2. CASE /\ Submittable(s)
           /\ submission' = [submission EXCEPT ![s].at = "checked"]
  <2> DEFINE row == [submission[s] EXCEPT !.at = "checked"]
  <2>1. submission \in [Submissions -> SubmissionRow] /\ submission[s] \in SubmissionRow
    BY SubmissionParts DEF ClaimInv
  <2>2. /\ row \in SubmissionRow /\ row.at = "checked"
        /\ row.hash = submission[s].hash /\ row.key = submission[s].key
        /\ row.began = submission[s].began /\ row.answer = submission[s].answer
        /\ row.seen = submission[s].seen
    BY <2>1 DEF SubmissionRow
  <2>3. submission' = [submission EXCEPT ![s] = row]
    BY <1>2, <2>1
  <2> HIDE DEF row
  <2>4. submission'[s] = row /\ \A t \in Submissions \ {s} : submission'[t] = submission[t]
    BY <2>1, <2>3
  <2>5. /\ \A t \in Submissions : Holding(t)' <=> Holding(t)
        /\ \A t \in Submissions : DraftOf(t)' = DraftOf(t) /\ BodyOf(t)' = BodyOf(t)
        /\ \A t \in Submissions : Answers(t)' = Answers(t)
    BY <1>0, <2>2, <2>4 DEF Holding, DraftOf, BodyOf, Answers
  <2>6. ClaimTypeOK'
    <3>1. submission' \in [Submissions -> SubmissionRow]
      BY <2>1, <2>2, <2>3
    <3> QED  BY <1>0, <3>1 DEF ClaimInv, ClaimTypeOK, SubmissionRow
  <2>7. RequestsAreWhole'
    BY <1>0, <2>2, <2>4 DEF ClaimInv, RequestsAreWhole
  <2>8. DraftsAreHeld'
    BY <1>0, <2>5 DEF ClaimInv, DraftsAreHeld
  <2>9. DocumentsAreHeld'
    <3>1. \A t \in Submissions \ {s} : submission[t].at = "checked" =>
            \A f \in BodyOf(s).documents : f \notin BodyOf(t).documents
      BY DEF CheckSubmission, DocumentLocked
    <3>2. \A f \in BodyOf(s).documents :
            document[f] = [status |-> "verified", owner |-> DraftOf(s)]
      BY <1>2 DEF Submittable
    <3>3. \A t \in Submissions \ {s} :
            submission'[t].at = "checked" <=> submission[t].at = "checked"
      BY <2>4
    <3> QED  BY <1>0, <2>5, <3>1, <3>2, <3>3 DEF ClaimInv, DocumentsAreHeld
  <2>10. Submitted' = Submitted
    BY <1>0 DEF Submitted
  <2>11. CasesHaveTheirFiles' /\ RecordsNameClaims' /\ RecordsAnswer'
    BY <1>0, <2>10 DEF ClaimInv, CasesHaveTheirFiles, RecordsNameClaims, RecordsAnswer
  <2>12. SeenIsOver'
    BY <1>0, <2>2, <2>4, <2>5 DEF ClaimInv, SeenIsOver
  <2>13. OneCasePerDraft'
    BY <1>0, <2>5, OneCaseFrame DEF ClaimInv
  <2> QED
    BY <2>6, <2>7, <2>8, <2>9, <2>11, <2>12, <2>13 DEF ClaimInv
<1> QED  BY <1>1, <1>2 DEF CheckSubmission
-----------------------------------------------------------------------------
(* The world around submissions keeps what they hold.                      *)

LEMMA WorldKeeps ==
  ASSUME ClaimInv, UNCHANGED <<claim, record, submission>>,
         clock' \in Time, clock <= clock', campaign' \in {"active", "closed"},
         draft' \in [Drafts -> DraftRow], document' \in [Documents -> DocumentRow],
         \A d \in Drafts :
           /\ draft'[d].status = "submitted" <=> draft[d].status = "submitted"
           /\ draft[d].status = "active" => draft'[d].status = "active",
         \A f \in Documents :
           /\ DocumentLocked(f) => document'[f] = document[f]
           /\ \/ document'[f] = document[f]
              \/ document'[f].status # "linked" /\ document[f].status # "linked"
  PROVE  ClaimInv'
<1>1. ClaimTypeOK' /\ RequestsAreWhole'
  BY DEF ClaimInv, ClaimTypeOK, RequestsAreWhole
<1>2. \A s \in Submissions :
        /\ Holding(s)' = Holding(s)
        /\ DraftOf(s)' = DraftOf(s) /\ BodyOf(s)' = BodyOf(s)
        /\ Answers(s)' = Answers(s)
  BY DEF Holding, DraftOf, BodyOf, Answers
<1>3. \A s \in Submissions : Holding(s) => DraftOf(s) \in Drafts
  BY RequestParts DEF ClaimInv, Holding
<1>4. DraftsAreHeld'
  BY <1>2, <1>3 DEF ClaimInv, DraftsAreHeld
<1>5. DocumentsAreHeld'
  <2>1. ASSUME NEW s \in Submissions, submission[s].at = "checked",
               NEW f \in BodyOf(s).documents
        PROVE  document'[f] = document[f]
    <3>1. f \in Documents
      BY <2>1, RequestParts DEF ClaimInv
    <3> QED  BY <2>1, <3>1 DEF DocumentLocked
  <2> QED  BY <1>2, <2>1 DEF ClaimInv, DocumentsAreHeld
<1>6. Submitted' = Submitted
  BY DEF Submitted
<1>7. CasesHaveTheirFiles'
  <2>1. \A f \in Documents, n \in References :
          document'[f] = [status |-> "linked", owner |-> n]
            <=> document[f] = [status |-> "linked", owner |-> n]
    OBVIOUS
  <2>2. \A f \in Documents : document'[f].status = "linked" => document'[f] = document[f]
    OBVIOUS
  <2>3. Submitted \subseteq References
    BY DEF Submitted
  <2> QED  BY <1>6, <2>1, <2>2, <2>3 DEF ClaimInv, CasesHaveTheirFiles
<1>8. RecordsNameClaims'
  BY <1>6 DEF ClaimInv, RecordsNameClaims
<1>9. clock \in Nat /\ clock' \in Nat
  BY DEF ClaimInv, ClaimTypeOK, Time
<1>10. RecordsAnswer'
  <2>1. \A n \in Submitted : claim[n].at \in Nat
    BY CaseParts DEF ClaimInv, Time, Submitted
  <2> QED  BY <1>6, <1>9, <2>1, ClaimAssumption DEF ClaimInv, RecordsAnswer
<1>11. SeenIsOver'
  <2>1. \A s \in Submissions : submission[s].began \in Nat
    BY SubmissionParts DEF ClaimInv, SubmissionRow, Time
  <2> QED  BY <1>2, <1>9, <2>1 DEF ClaimInv, SeenIsOver
<1>12. OneCasePerDraft'
  BY <1>2, OneCaseFrame DEF ClaimInv
<1> QED
  BY <1>1, <1>4, <1>5, <1>7, <1>8, <1>10, <1>11, <1>12 DEF ClaimInv

LEMMA WorldSteps ==
  ASSUME ClaimInv,
         \/ Tick \/ CloseCampaign
         \/ \E d \in Drafts : CreateDraft(d)
         \/ \E f \in Documents : RemoveDocument(f) \/ \E d \in Drafts : UploadDocument(f, d)
         \/ UNCHANGED claimVars
  PROVE  ClaimInv'
<1>1. /\ clock \in Time /\ clock \in Nat /\ clock <= clock /\ campaign \in {"active", "closed"}
      /\ draft \in [Drafts -> DraftRow] /\ document \in [Documents -> DocumentRow]
  BY DEF ClaimInv, ClaimTypeOK, Time
<1>2. CASE Tick
  <2>1. clock' \in Time /\ clock <= clock'
    BY <1>1, <1>2, ClaimAssumption DEF Tick, Time
  <2> QED  BY <1>1, <1>2, <2>1, WorldKeeps DEF Tick
<1>3. CASE CloseCampaign
  BY <1>1, <1>3, WorldKeeps DEF CloseCampaign
<1>4. CASE UNCHANGED claimVars
  BY <1>1, <1>4, WorldKeeps DEF claimVars
<1>5. ASSUME NEW d \in Drafts, CreateDraft(d) PROVE ClaimInv'
  <2>1. clock + DraftTTL \in Later
    BY <1>1, ClaimAssumption DEF Time, Later
  <2>2. /\ draft' \in [Drafts -> DraftRow]
        /\ \A e \in Drafts : /\ draft'[e].status = "submitted" <=> draft[e].status = "submitted"
                            /\ draft[e].status = "active" => draft'[e].status = "active"
    BY <1>1, <1>5, <2>1 DEF CreateDraft, DraftRow
  <2> QED  BY <1>1, <1>5, <2>2, WorldKeeps DEF CreateDraft
<1>6. ASSUME NEW f \in Documents, NEW d \in Drafts, UploadDocument(f, d) PROVE ClaimInv'
  <2>1. ~DocumentLocked(f)
    <3>1. ASSUME NEW s \in Submissions, submission[s].at = "checked",
                 f \in BodyOf(s).documents
          PROVE  document[f].status = "verified"
      <4>1. document[f] = [status |-> "verified", owner |-> DraftOf(s)]
        BY <3>1 DEF ClaimInv, DocumentsAreHeld
      <4> QED  BY <4>1
    <3> QED  BY <1>6, <3>1 DEF UploadDocument, DocumentLocked
  <2>2. document' = [document EXCEPT ![f] = [status |-> "verified", owner |-> d]]
        /\ document[f].status = "absent"
    BY <1>6 DEF UploadDocument
  <2>3. [status |-> "verified", owner |-> d] \in DocumentRow
    BY DEF DocumentRow
  <2>4. document' \in [Documents -> DocumentRow]
    BY <1>1, <2>2, <2>3
  <2>5. \A g \in Documents :
          /\ DocumentLocked(g) => document'[g] = document[g]
          /\ \/ document'[g] = document[g]
             \/ document'[g].status # "linked" /\ document[g].status # "linked"
    BY <1>1, <2>1, <2>2
  <2> QED  BY <1>1, <1>6, <2>4, <2>5, WorldKeeps DEF UploadDocument
<1>7. ASSUME NEW f \in Documents, RemoveDocument(f) PROVE ClaimInv'
  <2>1. /\ [document[f] EXCEPT !.status = "deletion_pending"] \in DocumentRow
        /\ [document[f] EXCEPT !.status = "deletion_pending"].status = "deletion_pending"
    BY <1>1 DEF DocumentRow
  <2>2. /\ document' = [document EXCEPT ![f] = [document[f] EXCEPT !.status = "deletion_pending"]]
        /\ document[f].status = "verified" /\ ~DocumentLocked(f)
    BY <1>1, <1>7 DEF RemoveDocument
  <2>3. document' \in [Documents -> DocumentRow]
    BY <1>1, <2>1, <2>2
  <2>4. \A g \in Documents :
          /\ DocumentLocked(g) => document'[g] = document[g]
          /\ \/ document'[g] = document[g]
             \/ document'[g].status # "linked" /\ document[g].status # "linked"
    BY <1>1, <2>1, <2>2
  <2> QED  BY <1>1, <1>7, <2>3, <2>4, WorldKeeps DEF RemoveDocument
<1> QED  BY <1>2, <1>3, <1>4, <1>5, <1>6, <1>7
-----------------------------------------------------------------------------
(* The commit.                                                             *)

LEMMA CommitKeeps ==
  ASSUME ClaimInv, NEW s \in Submissions, NEW n \in References, CommitSubmission(s, n)
  PROVE  ClaimInv'
<1> DEFINE d == DraftOf(s)
           body == BodyOf(s)
           k == submission[s].key
           new == [hash |-> submission[s].hash, key |-> k, at |-> submission[s].began]
           found == [hash |-> submission[s].hash, claim |-> n,
                     expires |-> submission[s].began + RecordTTL]
<1>1. /\ submission[s].at = "checked" /\ claim[n] = NoClaim /\ KeyFree(s)
      /\ claim' = [claim EXCEPT ![n] = new]
      /\ document' = [f \in Documents |-> IF f \in body.documents
                                         THEN [status |-> "linked", owner |-> n]
                                         ELSE document[f]]
      /\ draft' = [draft EXCEPT ![d].status = "submitted"]
      /\ record' = [record EXCEPT ![k] = found]
      /\ Finish(s, n)
      /\ clock' = clock /\ campaign' = campaign
  BY DEF CommitSubmission
<1>2. /\ d \in Drafts /\ body \in Bodies /\ body.documents \subseteq Documents
      /\ submission[s].hash = <<d, body>> /\ submission[s].hash \in Hashes /\ k \in Keys
  BY <1>1, RequestParts DEF ClaimInv
<1>3. submission \in [Submissions -> SubmissionRow] /\ submission[s] \in SubmissionRow
  BY SubmissionParts DEF ClaimInv
<1>4. submission[s].began \in Time /\ clock \in Time /\ submission[s].began <= clock
  BY <1>3 DEF ClaimInv, ClaimTypeOK, SubmissionRow, SeenIsOver
<1>5. /\ claim \in [References -> [hash : Hashes, key : Keys, at : Time] \cup {NoClaim}]
      /\ record \in [Keys -> RecordRow \cup {NoRecord}]
      /\ draft \in [Drafts -> DraftRow] /\ document \in [Documents -> DocumentRow]
      /\ draft[d] \in DraftRow
  BY <1>2 DEF ClaimInv, ClaimTypeOK
<1>6. Holding(s) /\ draft[d].status = "active"
  BY <1>1 DEF ClaimInv, DraftsAreHeld, Holding
<1>7. new \in [hash : Hashes, key : Keys, at : Time] /\ new # NoClaim
      /\ new.hash = <<d, body>> /\ new.key = k /\ new.at = submission[s].began
  <2>1. new.key # NoClaim.key
    BY <1>2, ClaimAssumption DEF NoClaim
  <2> QED  BY <1>2, <1>4, <2>1
<1>8. found \in RecordRow /\ found.claim = n /\ found.hash = <<d, body>>
      /\ found.expires = submission[s].began + RecordTTL
  BY <1>2, <1>4, ClaimAssumption DEF RecordRow, Later, Time
<1>9. /\ \A m \in References : claim'[m] = IF m = n THEN new ELSE claim[m]
      /\ \A j \in Keys : record'[j] = IF j = k THEN found ELSE record[j]
      /\ \A e \in Drafts \ {d} : draft'[e] = draft[e]
      /\ draft'[d].status = "submitted" /\ draft' \in [Drafts -> DraftRow]
  <2>1. [draft[d] EXCEPT !.status = "submitted"] \in DraftRow
        /\ [draft[d] EXCEPT !.status = "submitted"].status = "submitted"
    BY <1>5 DEF DraftRow
  <2>2. draft' = [draft EXCEPT ![d] = [draft[d] EXCEPT !.status = "submitted"]]
    BY <1>1, <1>5
  <2>3. /\ \A e \in Drafts \ {d} : draft'[e] = draft[e]
        /\ draft'[d].status = "submitted" /\ draft' \in [Drafts -> DraftRow]
    BY <1>2, <1>5, <2>1, <2>2
  <2> QED  BY <1>1, <1>2, <1>5, <2>3
<1> DEFINE row == [submission[s] EXCEPT !.at = "done", !.answer = n, !.seen = NoRecord]
<1>10. /\ row \in SubmissionRow /\ row.at = "done" /\ row.answer = n
       /\ row.hash = <<d, body>> /\ row.key = k /\ row.began = submission[s].began
  BY <1>2, <1>3 DEF SubmissionRow
<1>11. submission' = [submission EXCEPT ![s] = row]
  BY <1>1, <1>3 DEF Finish
<1> HIDE DEF row, new, found, d, body, k
<1>12. /\ submission'[s] = row /\ submission' \in [Submissions -> SubmissionRow]
       /\ \A t \in Submissions \ {s} : submission'[t] = submission[t]
  BY <1>3, <1>10, <1>11
<1>13. /\ \A t \in Submissions : Holding(t)' => t # s /\ Holding(t)
       /\ \A t \in Submissions : submission'[t].at = "checked" =>
            t # s /\ submission[t].at = "checked"
       /\ \A t \in Submissions \ {s} : DraftOf(t)' = DraftOf(t) /\ BodyOf(t)' = BodyOf(t)
  BY <1>10, <1>12 DEF Holding, DraftOf, BodyOf
<1>14. Submitted' = Submitted \cup {n} /\ n \notin Submitted
  BY <1>1, <1>7, <1>9 DEF Submitted
<1>15. ClaimTypeOK'
  <2>1. claim' \in [References -> [hash : Hashes, key : Keys, at : Time] \cup {NoClaim}]
    BY <1>1, <1>5, <1>7
  <2>2. record' \in [Keys -> RecordRow \cup {NoRecord}]
    BY <1>1, <1>5, <1>8
  <2>3. document' \in [Documents -> DocumentRow]
    <3>1. [status |-> "linked", owner |-> n] \in DocumentRow
      BY DEF DocumentRow
    <3> QED  BY <1>1, <1>5, <3>1
  <2> QED
    BY <1>1, <1>9, <1>12, <2>1, <2>2, <2>3 DEF ClaimInv, ClaimTypeOK, SubmissionRow
<1>16. RequestsAreWhole'
  BY <1>2, <1>10, <1>12 DEF ClaimInv, RequestsAreWhole
<1>17. DraftsAreHeld'
  <2>1. \A t \in Submissions \ {s} : Holding(t) => DraftOf(t) # d /\ DraftOf(t) \in Drafts
    BY <1>6, RequestParts DEF ClaimInv, DraftsAreHeld, Holding, d
  <2> QED  BY <1>9, <1>13, <2>1 DEF ClaimInv, DraftsAreHeld
<1>18. \A f \in body.documents : document[f].status = "verified"
  <2>1. \A f \in body.documents : document[f] = [status |-> "verified", owner |-> d]
    BY <1>1 DEF ClaimInv, DocumentsAreHeld, d, body
  <2> QED  BY <2>1
<1>19. DocumentsAreHeld'
  <2>1. ASSUME NEW t \in Submissions \ {s}, submission[t].at = "checked",
               NEW f \in BodyOf(t).documents
        PROVE  document'[f] = document[f]
    <3>1. f \in Documents
      BY <2>1, RequestParts DEF ClaimInv
    <3>2. f \notin body.documents
      BY <1>1, <2>1, <3>1 DEF ClaimInv, DocumentsAreHeld, body
    <3> QED  BY <1>1, <3>1, <3>2
  <2> QED  BY <1>13, <2>1 DEF ClaimInv, DocumentsAreHeld
<1>20. CasesHaveTheirFiles'
  <2>1. /\ \A f \in body.documents : document'[f] = [status |-> "linked", owner |-> n]
        /\ \A f \in Documents \ body.documents : document'[f] = document[f]
    BY <1>1, <1>2
  <2>2. claim'[n].hash[2] = body /\ \A m \in Submitted : m # n /\ claim'[m] = claim[m]
    BY <1>7, <1>9, <1>14 DEF Submitted
  <2>3. \A f \in Documents : document[f] # [status |-> "linked", owner |-> n]
    BY <1>14 DEF ClaimInv, CasesHaveTheirFiles
  <2>4. {f \in Documents : document'[f] = [status |-> "linked", owner |-> n]} = body.documents
    BY <1>2, <2>1, <2>3
  <2>5. ASSUME NEW m \in Submitted
        PROVE  {f \in Documents : document'[f] = [status |-> "linked", owner |-> m]}
                 = claim[m].hash[2].documents
    <3>1. \A f \in Documents : document'[f] = [status |-> "linked", owner |-> m]
                           <=> document[f] = [status |-> "linked", owner |-> m]
      <4>1. ASSUME NEW f \in body.documents
            PROVE  /\ document'[f] # [status |-> "linked", owner |-> m]
                   /\ document[f] # [status |-> "linked", owner |-> m]
        <5>1. document'[f].owner = n /\ document[f].status = "verified"
          BY <1>18, <2>1
        <5>2. m # n
          BY <2>2
        <5> QED  BY <5>1, <5>2
      <4> QED  BY <2>1, <4>1
    <3> QED  BY <3>1 DEF ClaimInv, CasesHaveTheirFiles
  <2>6. \A f \in Documents : document'[f].status = "linked" =>
          document'[f].owner \in Submitted \cup {n}
    BY <2>1 DEF ClaimInv, CasesHaveTheirFiles
  <2> QED  BY <1>14, <2>2, <2>4, <2>5, <2>6 DEF CasesHaveTheirFiles
<1>21. RecordsNameClaims'
  <2>1. /\ found.claim \in Submitted' /\ claim'[found.claim].hash = found.hash
        /\ claim'[found.claim].key = k
    BY <1>7, <1>8, <1>9, <1>14
  <2>2. ASSUME NEW j \in Keys \ {k}, record[j] # NoRecord
        PROVE  /\ record[j].claim \in Submitted /\ claim'[record[j].claim] = claim[record[j].claim]
               /\ claim[record[j].claim].hash = record[j].hash
               /\ claim[record[j].claim].key = j
    <3>1. /\ record[j].claim \in Submitted
          /\ claim[record[j].claim].hash = record[j].hash
          /\ claim[record[j].claim].key = j
      BY <2>2 DEF ClaimInv, RecordsNameClaims
    <3> QED  BY <1>9, <1>14, <3>1 DEF Submitted
  <2> QED  BY <1>9, <1>14, <2>1, <2>2 DEF RecordsNameClaims
<1>22. RecordsAnswer'
  <2>1. ASSUME NEW m \in Submitted, claim[m].key = k
        PROVE  claim[m].at + RecordTTL <= clock
    <3>1. m \in References /\ m # "none" /\ claim[m].at \in Nat
      BY <2>1, CaseParts, ClaimAssumption DEF ClaimInv, Submitted, Time
    <3>2. CASE record[k].claim = m /\ record[k].expires = claim[m].at + RecordTTL
      <4>1. record[k] # NoRecord
        BY <3>1, <3>2 DEF NoRecord
      <4>2. record[k] = submission[s].seen
        BY <1>1, <4>1 DEF KeyFree, k
      <4>3. submission[s].seen.expires <= submission[s].began
        BY <1>6, <4>1, <4>2 DEF ClaimInv, SeenIsOver
      <4> QED  BY <1>4, <3>1, <3>2, <4>2, <4>3, ClaimAssumption DEF Time
    <3> QED  BY <2>1, <3>2 DEF ClaimInv, RecordsAnswer
  <2>2. ASSUME NEW m \in Submitted, claim[m].key # k
        PROVE  record'[claim[m].key] = record[claim[m].key]
    <3>1. claim[m].key \in Keys
      BY CaseParts DEF ClaimInv, Submitted
    <3> QED  BY <1>9, <2>2, <3>1
  <2>3. \A m \in Submitted : claim'[m] = claim[m]
    BY <1>9, <1>14 DEF Submitted
  <2>4. claim'[n].key = k /\ claim'[n].at = submission[s].began /\ record'[k] = found
    BY <1>2, <1>7, <1>9
  <2>5. record'[claim'[n].key].claim = n
        /\ record'[claim'[n].key].expires = claim'[n].at + RecordTTL
    BY <1>8, <2>4
  <2>6. ASSUME NEW m \in Submitted
        PROVE  \/ /\ record'[claim'[m].key].claim = m
                  /\ record'[claim'[m].key].expires = claim'[m].at + RecordTTL
               \/ claim'[m].at + RecordTTL <= clock'
    <3>1. CASE claim[m].key = k
      BY <1>1, <2>1, <2>3, <3>1
    <3>2. CASE claim[m].key # k
      BY <1>1, <2>2, <2>3, <3>2 DEF ClaimInv, RecordsAnswer
    <3> QED  BY <3>1, <3>2
  <2> QED  BY <1>14, <2>5, <2>6 DEF RecordsAnswer
<1>23. SeenIsOver'
  BY <1>1, <1>4, <1>10, <1>12, <1>13 DEF ClaimInv, SeenIsOver
<1>24. OneCasePerDraft'
  <2>1. \A m \in Submitted : m # n /\ claim'[m] = claim[m] /\ claim[m].hash[1] # d
    <3>1. ASSUME NEW m \in Submitted PROVE claim[m].hash[1] # d
      BY <1>2, <1>6, <3>1 DEF ClaimInv, OneCasePerDraft
    <3> QED  BY <1>9, <1>14, <3>1 DEF Submitted
  <2>2. claim'[n].hash = <<d, body>> /\ claim'[n].key = k /\ claim'[n].hash[1] = d
    BY <1>7, <1>9
  <2>3. \A m, j \in Submitted' : claim'[m].hash[1] = claim'[j].hash[1] => m = j
    BY <1>14, <2>1, <2>2 DEF ClaimInv, OneCasePerDraft
  <2>4. ASSUME NEW e \in Drafts
        PROVE  draft'[e].status = "submitted" <=> \E m \in Submitted' : claim'[m].hash[1] = e
    <3>1. CASE e = d
      BY <1>9, <1>14, <2>2, <3>1
    <3>2. CASE e # d
      <4>1. draft[e].status = "submitted" <=> \E m \in Submitted : claim[m].hash[1] = e
        BY DEF ClaimInv, OneCasePerDraft
      <4> QED  BY <1>9, <1>14, <2>1, <2>2, <3>2, <4>1
    <3> QED  BY <3>1, <3>2
  <2>5. ASSUME NEW t \in Submissions, submission'[t].answer \in References
        PROVE  /\ claim'[submission'[t].answer].hash = submission'[t].hash
               /\ claim'[submission'[t].answer].key = submission'[t].key
    <3>1. CASE t = s
      BY <1>10, <1>12, <2>2, <3>1
    <3>2. CASE t # s
      <4>1. submission'[t] = submission[t]
        BY <1>12, <3>2
      <4>2. /\ claim[submission[t].answer].hash = submission[t].hash
            /\ claim[submission[t].answer].key = submission[t].key
        BY <2>5, <4>1 DEF ClaimInv, OneCasePerDraft
      <4>3. submission[t].answer \in Submitted
        <5>1. submission[t].key \in Keys
          BY <2>5, <4>1 DEF ClaimInv, RequestsAreWhole
        <5> QED  BY <2>5, <4>1, <4>2, <5>1, ClaimAssumption DEF Submitted, NoClaim
      <4> QED  BY <2>1, <4>1, <4>2, <4>3
    <3> QED  BY <3>1, <3>2
  <2> QED  BY <2>3, <2>4, <2>5 DEF OneCasePerDraft
<1> QED
  BY <1>15, <1>16, <1>17, <1>19, <1>20, <1>21, <1>22, <1>23, <1>24 DEF ClaimInv

-----------------------------------------------------------------------------
(* The invariant.                                                          *)

LEMMA ClaimInitKeeps == ClaimInit => ClaimInv
<1> SUFFICES ASSUME ClaimInit PROVE ClaimInv
  OBVIOUS
<1>1. /\ clock = 0 /\ 0 \in Time /\ 0 \in Later /\ 0 <= 0
      /\ \A n \in References : claim[n] = NoClaim
      /\ \A k \in Keys : record[k] = NoRecord
      /\ \A f \in Documents : document[f] = [status |-> "absent", owner |-> "none"]
      /\ \A d \in Drafts : draft[d] = [status |-> "absent", expires |-> 0]
      /\ \A s \in Submissions : submission[s] = Ready
  BY ClaimAssumption DEF ClaimInit, Time, Later
<1>2. Ready.at = "ready" /\ Ready.answer = "none" /\ Ready.began = 0
  BY DEF Ready
<1>3. ClaimTypeOK
  <2>1. submission \in [Submissions -> SubmissionRow]
    BY ReadyRow DEF ClaimInit
  <2>2. /\ draft \in [Drafts -> DraftRow] /\ document \in [Documents -> DocumentRow]
        /\ claim \in [References -> [hash : Hashes, key : Keys, at : Time] \cup {NoClaim}]
        /\ record \in [Keys -> RecordRow \cup {NoRecord}]
    BY <1>1 DEF ClaimInit, DraftRow, DocumentRow
  <2> QED  BY <1>1, <2>1, <2>2 DEF ClaimInit, ClaimTypeOK, SubmissionRow
<1>4. Submitted = {}
  BY <1>1 DEF Submitted
<1>5. \A s \in Submissions : /\ ~Holding(s) /\ submission[s].at = "ready"
                             /\ submission[s].answer \notin References
                             /\ submission[s].began <= clock
  BY <1>1, <1>2, ClaimAssumption DEF Holding
<1>6. RequestsAreWhole /\ DraftsAreHeld /\ DocumentsAreHeld /\ SeenIsOver
  BY <1>5 DEF RequestsAreWhole, DraftsAreHeld, DocumentsAreHeld, SeenIsOver
<1>7. CasesHaveTheirFiles /\ RecordsNameClaims /\ RecordsAnswer
  BY <1>1, <1>4 DEF CasesHaveTheirFiles, RecordsNameClaims, RecordsAnswer
<1>8. OneCasePerDraft
  BY <1>1, <1>4, <1>5 DEF OneCasePerDraft
<1> QED  BY <1>3, <1>6, <1>7, <1>8 DEF ClaimInv

LEMMA ClaimStepKeeps ==
  ASSUME ClaimInv, [ClaimNext]_claimVars
  PROVE  ClaimInv'
<1>1. ASSUME NEW s \in Submissions, Submit(s) PROVE ClaimInv'
  <2>1. CASE LockDraft(s)
    BY <2>1, LockDraftKeeps
  <2>2. CASE CheckSubmission(s)
    BY <2>2, CheckKeeps
  <2>3. CASE RunOutOfReferences(s)
    BY <2>3, RunOutKeeps
  <2>4. CASE Collide(s)
    BY <2>4, CollideKeeps
  <2>5. CASE AnswerCollision(s)
    BY <2>5, AnswerCollisionKeeps
  <2>6. CASE BreakOff(s)
    BY <2>6, BreakOffKeeps
  <2>7. ASSUME NEW n \in References, CommitSubmission(s, n) PROVE ClaimInv'
    BY <2>7, CommitKeeps
  <2>8. ASSUME NEW d \in Drafts, NEW body \in Bodies, NEW k \in Keys,
               BeginSubmission(s, d, body, k)
        PROVE  ClaimInv'
    BY <2>8, BeginKeeps
  <2> QED
    BY <1>1, <2>1, <2>2, <2>3, <2>4, <2>5, <2>6, <2>7, <2>8 DEF Submit
<1> QED  BY <1>1, WorldSteps DEF ClaimNext

LEMMA ClaimInvHolds == ClaimSpec => []ClaimInv
BY ClaimInitKeeps, ClaimStepKeeps, PTL DEF ClaimSpec

(* Every variable of the submission keeps its type (the columns of         *)
(* claim_drafts, document_uploads, recall_cases and idempotency_records).  *)
THEOREM ClaimTyping == ClaimSpec => []ClaimTypeOK
<1>1. ClaimInv => ClaimTypeOK
  BY DEF ClaimInv
<1> QED  BY <1>1, ClaimInvHolds, PTL

(* A draft becomes one case under any number of submissions and keys, and  *)
(* a reference is told only to who sent the request and key it was made of *)
(* (submit, replay, the catch of submit).                                  *)
THEOREM OneCasePerDraftHolds == ClaimSpec => []OneCasePerDraft
<1>1. ClaimInv => OneCasePerDraft
  BY DEF ClaimInv
<1> QED  BY <1>1, ClaimInvHolds, PTL

-----------------------------------------------------------------------------
(* A repeated request.                                                     *)

(* Only the look at the draft, and a failure, end what has just begun. *)
LEMMA BegunSteps ==
  ASSUME ClaimInv, [ClaimNext]_claimVars, NEW s \in Submissions,
         submission[s].at = "begun", submission'[s] # submission[s]
  PROVE  LockDraft(s) \/ BreakOff(s)
<1>1. submission \in [Submissions -> SubmissionRow]
  BY SubmissionParts DEF ClaimInv
<1>2. PICK t \in Submissions : Submit(t)
  BY DEF ClaimNext, claimVars, Tick, CloseCampaign, CreateDraft, RemoveDocument,
         UploadDocument
<1>3. t = s
  BY <1>1, <1>2 DEF Submit, BeginSubmission, LockDraft, CheckSubmission,
     RunOutOfReferences, CommitSubmission, Collide, AnswerCollision, BreakOff, Finish
<1> QED
  BY <1>2, <1>3 DEF Submit, BeginSubmission, CheckSubmission, RunOutOfReferences,
     CommitSubmission, Collide, AnswerCollision

LEMMA RetryIsAnswered ==
  ASSUME ClaimInv, [ClaimNext]_claimVars, NEW s \in Submissions, NEW n \in References,
         submission[s].at = "begun", submission'[s].at # "ready",
         submission'[s] # submission[s],
         claim[n] # NoClaim,
         claim[n].hash = submission[s].hash, claim[n].key = submission[s].key,
         claim[n].at + RecordTTL > clock
  PROVE  submission'[s].at = "done" /\ submission'[s].answer = n
<1> DEFINE k == submission[s].key
           d == DraftOf(s)
<1>1. submission \in [Submissions -> SubmissionRow] /\ submission[s] \in SubmissionRow
  BY SubmissionParts DEF ClaimInv
<1>2. k \in Keys /\ d \in Drafts /\ submission[s].hash = <<d, BodyOf(s)>>
  BY RequestParts DEF ClaimInv
<1>3. n \in Submitted /\ claim[n].at \in Nat
  BY CaseParts DEF ClaimInv, Submitted, Time
<1>4. draft[d].status = "submitted"
  <2>1. claim[n].hash[1] = d
    BY <1>2
  <2> QED  BY <1>2, <1>3, <2>1 DEF ClaimInv, OneCasePerDraft
<1>5. submission[s].began \in Nat /\ clock \in Nat /\ submission[s].began <= clock
  BY <1>1 DEF ClaimInv, ClaimTypeOK, SubmissionRow, SeenIsOver, Time
<1>6. record[k].claim = n /\ record[k].expires = claim[n].at + RecordTTL
  BY <1>3, <1>5, ClaimAssumption DEF ClaimInv, RecordsAnswer
<1>7. Answering(s)
  BY <1>3, <1>5, <1>6, ClaimAssumption DEF Answering
<1>8. Replay(s) = n
  <2>1. record[k] # NoRecord
    BY <1>5, <1>7 DEF Answering, NoRecord
  <2>2. record[k].hash = submission[s].hash
    BY <1>2, <1>6, <2>1 DEF ClaimInv, RecordsNameClaims
  <2> QED  BY <1>6, <2>2 DEF Replay
<1>9. LockDraft(s)
  BY BegunSteps, <1>1, ReadyRow DEF BreakOff, Ready
<1>10. Finish(s, n)
  BY <1>4, <1>7, <1>8, <1>9 DEF LockDraft, DraftUsable
<1> QED  BY <1>1, <1>10 DEF Finish, SubmissionRow

(* A repeated request is given its case as long as its record answers,     *)
(* also when the draft has expired or the campaign has closed meanwhile    *)
(* (submit, findIdempotency).                                              *)
THEOREM RetriesAreAnsweredHolds == ClaimSpec => RetriesAreAnswered
<1> DEFINE Answered ==
      \A s \in Submissions, n \in References :
        /\ submission[s].at = "begun" /\ submission'[s].at # "ready"
        /\ submission'[s] # submission[s]
        /\ claim[n] # NoClaim
        /\ claim[n].hash = submission[s].hash /\ claim[n].key = submission[s].key
        /\ claim[n].at + RecordTTL > clock
        => submission'[s].at = "done" /\ submission'[s].answer = n
<1>1. ClaimInv /\ [ClaimNext]_claimVars => Answered
  BY RetryIsAnswered
<1>2. RetriesAreAnswered <=> [][Answered]_claimVars
  BY DEF RetriesAreAnswered
<1> HIDE DEF Answered
<1> QED  BY <1>1, <1>2, ClaimInvHolds, PTL DEF ClaimSpec

-----------------------------------------------------------------------------
(* What a case starts as.                                                  *)

LEMMA IncidentsGoToCompliance ==
  ASSUME NEW body \in Bodies
  PROVE  HasIncident(body) <=> Stage(StartingView(body)) = "compliance_review"
<1> DEFINE view == StartingView(body)
<1>1. /\ view.status = StartingStatus(body) /\ view.incident = HasIncident(body)
      /\ view.review = (IF HasIncident(body) THEN "pending" ELSE "none")
  BY DEF StartingView
<1>2. view.status \in {"submitted", "escalated", "triage"}
  BY <1>1 DEF StartingStatus
<1>3. IncidentPending(view) <=> HasIncident(body)
  BY <1>1 DEF IncidentPending
<1> HIDE DEF view
<1>4. CASE IncidentPending(view)
  BY <1>2, <1>3, <1>4 DEF Stage, view
<1>5. CASE ~IncidentPending(view)
  <2>1. Stage(view) \in {"intake_review", "triage"}
    BY <1>2, <1>5 DEF Stage, TerminalStatuses
  <2> QED  BY <1>3, <1>5, <2>1 DEF view
<1> QED  BY <1>4, <1>5

LEMMA LinkingSteps ==
  ASSUME ClaimInv, [ClaimNext]_claimVars, NEW f \in Documents,
         document'[f].status = "linked"
  PROVE  document[f].status \in {"verified", "linked"}
<1>1. document \in [Documents -> DocumentRow]
  BY DEF ClaimInv, ClaimTypeOK
<1>2. CASE document' = document
  BY <1>2
<1>3. ASSUME NEW g \in Documents, RemoveDocument(g) PROVE document'[f] = document[f]
  BY <1>1, <1>3 DEF RemoveDocument, DocumentRow
<1>4. ASSUME NEW g \in Documents, NEW d \in Drafts, UploadDocument(g, d)
      PROVE  document'[f] = document[f]
  BY <1>1, <1>4 DEF UploadDocument, DocumentRow
<1>5. ASSUME NEW s \in Submissions, NEW n \in References, CommitSubmission(s, n)
      PROVE  document[f].status \in {"verified", "linked"}
  <2>1. CASE f \in BodyOf(s).documents
    <3>1. document[f] = [status |-> "verified", owner |-> DraftOf(s)]
      BY <1>5, <2>1 DEF CommitSubmission, ClaimInv, DocumentsAreHeld
    <3> QED  BY <3>1
  <2>2. CASE f \notin BodyOf(s).documents
    BY <1>5, <2>2 DEF CommitSubmission
  <2> QED  BY <2>1, <2>2
<1>6. \/ document' = document
      \/ \E g \in Documents : RemoveDocument(g) \/ \E d \in Drafts : UploadDocument(g, d)
      \/ \E s \in Submissions, n \in References : CommitSubmission(s, n)
  BY DEF ClaimNext, claimVars, Tick, CloseCampaign, CreateDraft, Submit, BeginSubmission,
         LockDraft, CheckSubmission, RunOutOfReferences, Collide, AnswerCollision, BreakOff
<1> QED  BY <1>2, <1>3, <1>4, <1>5, <1>6

(* A case has every file it named from the moment it exists, none of them  *)
(* on its way out, and is in front of compliance exactly when it reports   *)
(* an incident (assertDocumentsSubmittable, deriveSubmissionStatus).       *)
THEOREM CasesStartWholeHolds == ClaimSpec => CasesStartWhole
<1> DEFINE Whole ==
      \A n \in Submitted :
        LET body == claim[n].hash[2]
        IN  /\ {f \in Documents : document[f] = [status |-> "linked", owner |-> n]}
                 = body.documents
            /\ HasIncident(body) <=> Stage(StartingView(body)) = "compliance_review"
      Linking ==
        \A f \in Documents :
          document'[f].status = "linked" => document[f].status \in {"verified", "linked"}
<1>1. ClaimInv => Whole
  <2> SUFFICES ASSUME ClaimInv, NEW n \in Submitted
               PROVE  /\ {f \in Documents : document[f] = [status |-> "linked", owner |-> n]}
                           = claim[n].hash[2].documents
                      /\ HasIncident(claim[n].hash[2]) <=>
                           Stage(StartingView(claim[n].hash[2])) = "compliance_review"
    OBVIOUS
  <2>1. claim[n].hash[2] \in Bodies
    BY CaseParts DEF ClaimInv, Submitted
  <2> QED  BY <2>1, IncidentsGoToCompliance DEF ClaimInv, CasesHaveTheirFiles
<1>2. ClaimInv /\ [ClaimNext]_claimVars => Linking
  BY LinkingSteps
<1>3. CasesStartWhole <=> []Whole /\ [][Linking]_claimVars
  BY DEF CasesStartWhole
<1> HIDE DEF Whole, Linking
<1> QED  BY <1>1, <1>2, <1>3, ClaimInvHolds, PTL DEF ClaimSpec
=============================================================================
