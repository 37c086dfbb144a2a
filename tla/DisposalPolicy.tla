--------------------------- MODULE DisposalPolicy ---------------------------
(***************************************************************************)
(* The disposal gate of modules/disposal/policy.ts: a pure function from   *)
(* the state of one disposal task to the reasons that block a disposal     *)
(* permission and to the actions that are open.  Every operation of the    *)
(* disposal service consults it; module Disposal does so through the       *)
(* operators below.                                                        *)
(***************************************************************************)
EXTENDS Naturals

TaskStatuses          == {"open", "completed", "cancelled", "expired"}
EligibilityStatuses   == {"pending_confirmation", "confirmed_eligible",
                          "not_applicable", "ineligible"}
InstructionStatuses   == {"draft", "approved", "withdrawn"}
BatchReviewStatuses   == {"pending", "accepted", "needs_resubmission",
                          "superseded"}
AuthorizationStatuses == {"active", "suspended", "revoked"}

(* A column or a join that yields no row: `null` in the policy state. *)
Null == "null"

Materials == {"recall_expectation_letter", "cap_or_written_coordination",
              "nov", "laboratory_report", "form_332_inventory_procedure",
              "cbp_seizure_record", "other"}
Scopes    == {"consumer_held_product", "enterprise_inventory",
              "port_involved_goods", "not_determined"}
Measures  == {"consumer_disposal", "consumer_return",
              "professional_recycling", "other_compensation",
              "not_determined"}

(* What a caller may record as the material behind an instruction version. *)
ApprovalInput == [material : Materials, scope : Scopes, measure : Measures]

(* The state the gate is asked about. *)
PolicyState ==
  [taskStatus          : TaskStatuses,
   eligibility         : EligibilityStatuses,
   instruction         : InstructionStatuses \cup {Null},
   approvalAuthorizes  : BOOLEAN,
   latestBatch         : BatchReviewStatuses \cup {Null},
   holdActive          : BOOLEAN,
   authorization       : AuthorizationStatuses \cup {Null}]

-----------------------------------------------------------------------------
(* The authorizing algebra: of everything that can be recorded, only a     *)
(* recall letter or a written coordination, for the consumer-held product, *)
(* with disposal as the measure, ever authorizes.                          *)
ConsumerAuthorizingMaterials ==
  {"recall_expectation_letter", "cap_or_written_coordination"}

AuthorizesConsumerDisposal(input) ==
  /\ input.measure = "consumer_disposal"
  /\ input.scope = "consumer_held_product"
  /\ input.material \in ConsumerAuthorizingMaterials

(* Valid from the first instant, invalid at the expiry instant.  A null    *)
(* endpoint is the window's own extreme.                                   *)
ApprovalWindowIncludes(window, now) ==
  /\ window.from <= now
  /\ now < window.until

-----------------------------------------------------------------------------
TaskOpen(st)             == st.taskStatus = "open"
EligibilityConfirmed(st) == st.eligibility = "confirmed_eligible"
InstructionUsable(st)    == st.instruction = "approved"
ApprovalAuthorizes(st)   == InstructionUsable(st) /\ st.approvalAuthorizes

EligibilityReasons(st) ==
  CASE st.eligibility = "pending_confirmation" -> {"ELIGIBILITY_NOT_CONFIRMED"}
    [] st.eligibility = "not_applicable"       -> {"DISPOSAL_NOT_APPLICABLE"}
    [] st.eligibility = "ineligible"           -> {"PRODUCT_RULED_INELIGIBLE"}
    [] OTHER                                   -> {}

InstructionReasons(st) ==
  CASE st.instruction \in {Null, "draft"} -> {"INSTRUCTION_NOT_APPROVED"}
    [] st.instruction = "withdrawn"       -> {"INSTRUCTION_WITHDRAWN"}
    [] OTHER -> {r \in {"APPROVAL_NOT_AUTHORIZING"} : ~st.approvalAuthorizes}

EvidenceReasons(st) ==
  CASE st.latestBatch = Null       -> {"EVIDENCE_NOT_SUBMITTED"}
    [] st.latestBatch = "pending"  -> {"EVIDENCE_PENDING_REVIEW"}
    [] st.latestBatch = "accepted" -> {}
    [] OTHER                       -> {"EVIDENCE_NEEDS_RESUBMISSION"}

BlockingReasons(st) ==
  {r \in {"TASK_CLOSED"} : ~TaskOpen(st)}
    \cup EligibilityReasons(st)
    \cup InstructionReasons(st)
    \cup EvidenceReasons(st)
    \cup {r \in {"DISPOSAL_ON_HOLD"} : st.holdActive}

CanIssueAuthorization(st) == BlockingReasons(st) = {}

MaySeeInstructions(st) ==
  /\ TaskOpen(st)
  /\ EligibilityConfirmed(st)
  /\ ApprovalAuthorizes(st)
  /\ ~st.holdActive

MaySubmitEvidence(st) ==
  /\ MaySeeInstructions(st)
  /\ st.latestBatch \in {Null, "needs_resubmission", "superseded"}

MayDeclareCompletion(st) ==
  /\ TaskOpen(st)
  /\ st.authorization = "active"
  /\ CanIssueAuthorization(st)

MayDeclareException(st) == TaskOpen(st) /\ ~MayDeclareCompletion(st)

MayReviewEvidence(st) == TaskOpen(st) /\ st.latestBatch = "pending"

AllowedActions(st) ==
  {a \in {"disposal.review_batch"} : MayReviewEvidence(st)}
    \cup {a \in {"disposal.submit_evidence"} :
            MaySubmitEvidence(st) /\ st.latestBatch = Null}
    \cup {a \in {"disposal.resubmit_evidence"} :
            MaySubmitEvidence(st) /\ st.latestBatch # Null}
    \cup {a \in {"disposal.declare_completion"} : MayDeclareCompletion(st)}
    \cup {a \in {"disposal.declare_exception"} : MayDeclareException(st)}
    \cup {a \in {"disposal.hold.place"} : TaskOpen(st)}
    \cup {a \in {"disposal.hold.release"} : TaskOpen(st) /\ st.holdActive}
    \cup {a \in {"disposal.issue_authorization"} :
            st.authorization # "active" /\ CanIssueAuthorization(st)}
    \cup {a \in {"disposal.authorization.revoke"} :
            st.authorization = "active"}
=============================================================================
