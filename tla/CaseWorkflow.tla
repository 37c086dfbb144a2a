----------------------------- MODULE CaseWorkflow -----------------------------
(***************************************************************************)
(* The rules a recall case moves by, all pure: which status may follow     *)
(* which (modules/workflow/policy.ts), what the consumer is told           *)
(* (modules/cases/public-status.ts), which e-mail a transition owes        *)
(* (modules/communications/case-status-emails.ts), and which queue lists a *)
(* case (modules/admin/drizzle-admin-service.ts).                          *)
(*                                                                         *)
(* A view is what evaluate() is given: the status of the case, whether an  *)
(* incident was reported, the status of the safety review that was read,   *)
(* and the resolution.  A null of the code is "none".                      *)
(***************************************************************************)

CaseStatuses ==
  {"submitted", "escalated", "triage", "under_review", "need_info", "approved",
   "rejected", "duplicate", "withdrawn", "closure_review", "closed"}

TerminalStatuses == {"closed", "rejected", "duplicate", "withdrawn"}

DecidedReviews  == {"filed", "documented_non_reportable"}
ReviewStatuses  == {"none", "pending"} \cup DecidedReviews
ResolutionTypes == {"replacement", "refund"}
ResolutionStatuses == {"requested", "approved", "externally_completed", "cancelled"}

EscalationCategories ==
  {"injury", "battery_ingestion", "legal", "regulator", "media",
   "suspected_fraud", "data_privacy", "other"}

(* The categories that owe a decided review before the case may close.     *)
ReviewRequiredCategories ==
  {"injury", "battery_ingestion", "legal", "regulator", "media"}

-----------------------------------------------------------------------------
(* The transition table and its two gates.                                 *)

BaseTransitions ==
  LET intake == {"triage", "under_review", "rejected", "duplicate", "withdrawn"}
  IN  [submitted      |-> intake,
       escalated      |-> intake,
       triage         |-> {"under_review", "need_info", "approved", "rejected",
                           "duplicate", "withdrawn"},
       under_review   |-> {"need_info", "approved", "rejected", "closure_review",
                           "withdrawn"},
       need_info      |-> {"under_review", "approved", "rejected", "withdrawn"},
       approved       |-> {"closure_review"},
       closure_review |-> {"closed", "under_review"},
       closed         |-> {}, rejected |-> {}, duplicate |-> {}, withdrawn |-> {}]

IncidentPending(view) == view.incident /\ view.review = "pending"

RemedyCompleted(view) == view.resolution.status = "externally_completed"

AllowedTransitions(view) ==
  {next \in BaseTransitions[view.status] :
     /\ view.status = "approved" /\ next = "closure_review" => RemedyCompleted(view)
     /\ view.status = "closure_review" /\ next = "closed" =>
          RemedyCompleted(view) /\ ~IncidentPending(view)}

ResolutionActions(view) ==
  CASE view.resolution.status = "requested" -> {"approve", "cancel"}
    [] view.resolution.status = "approved"  ->
         {"complete", "cancel"} \cup
         (IF view.resolution.approved = "replacement" THEN {"ship"} ELSE {})
    [] OTHER -> {}

-----------------------------------------------------------------------------
(* Where the console shows a case.  An open safety review outranks the     *)
(* ordinary stage in the statuses of intake and review.                    *)

ApprovedStage(view) ==
  IF view.resolution.status = "approved"
  THEN IF view.resolution.approved = "refund"
       THEN "refund_processing" ELSE "replacement_processing"
  ELSE IF RemedyCompleted(view) THEN "closure_review" ELSE "resolution_approval"

Stage(view) ==
  IF /\ IncidentPending(view)
     /\ view.status \in {"submitted", "escalated", "triage", "under_review"}
  THEN "compliance_review"
  ELSE CASE view.status \in {"submitted", "escalated"} -> "intake_review"
         [] view.status = "triage"                     -> "triage"
         [] view.status = "under_review"               -> "case_review"
         [] view.status = "need_info"                  -> "awaiting_consumer_information"
         [] view.status = "approved"                   -> ApprovedStage(view)
         [] view.status = "closure_review"             -> "closure_review"
         [] view.status = "closed"                     -> "completed"
         [] view.status \in TerminalStatuses \ {"closed"} -> "final"

QueueStatuses ==
  [standard      |-> {"submitted", "escalated"},
   manual_review |-> {"triage", "under_review"},
   need_info     |-> {"need_info"},
   decision      |-> {"under_review", "approved"},
   closure       |-> {"closure_review"},
   incident      |-> {}]

(* Mutant: the closure queue lists nothing. *)
ListedButClosure(queue, view) ==
  CASE queue = "incident" -> view.incident /\ view.status \notin TerminalStatuses
    [] queue = "closure"  -> FALSE
    [] OTHER              -> view.status \in QueueStatuses[queue]

Listed(queue, view) ==
  IF queue = "incident"
  THEN view.incident /\ view.status \notin TerminalStatuses
  ELSE view.status \in QueueStatuses[queue]

-----------------------------------------------------------------------------
(* What the consumer is told.                                              *)

(* Mutant: the remedy is looked at before the status. *)
PublicStatusByRemedy(view) == IF RemedyCompleted(view) THEN "completed" ELSE "in_review"

PublicStatus(view) ==
  CASE view.status \in {"submitted", "escalated"}    -> "received"
    [] view.status \in {"triage", "under_review"}    -> "in_review"
    [] view.status = "need_info"                     -> "action_required"
    [] view.status = "approved"                      ->
         IF RemedyCompleted(view) THEN "resolution_in_progress" ELSE "resolution_approved"
    [] view.status = "closure_review"                -> "resolution_in_progress"
    [] view.status \in {"rejected", "duplicate"}     -> "not_approved"
    [] view.status = "withdrawn"                     -> "closed"
    [] view.status = "closed"                        ->
         IF RemedyCompleted(view) \/ view.resolution.approved # "none"
         THEN "completed" ELSE "closed"

ApprovalShown(view) ==
  /\ view.resolution.approved # "none"
  /\ PublicStatus(view) \in
       {"resolution_approved", "resolution_in_progress", "completed"}

(* A transition that needs a note is refused without one, so the note that *)
(* these e-mails render is there whenever they are sent.                   *)
StatusEmail(next, resolution) ==
  CASE next = "need_info"                 -> {"need_info"}
    [] next \in {"rejected", "duplicate"} -> {"claim_rejected"}
    [] next = "closed"                    ->
         IF resolution.status = "externally_completed"
         THEN {"case_completed"} ELSE {"case_closed"}
    [] next = "withdrawn"                 -> {"case_closed"}
    [] OTHER                              -> {}
=============================================================================
