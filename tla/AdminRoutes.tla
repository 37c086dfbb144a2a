----------------------------- MODULE AdminRoutes -----------------------------
(***************************************************************************)
(* What staff can ask for (routes/admin.ts, routes/disposal.ts): under     *)
(* which permission, and how the audit trail learns of it.                 *)
(*                                                                         *)
(* A read leaves no row.  A disclosure is answered once its row is         *)
(* written.  A change and its row are one transaction.  An announcement is *)
(* committed by its service before the row is written.                     *)
(***************************************************************************)
EXTENDS FiniteSets

AllPermissions ==
  {"case.queue.read", "case.detail.read", "case.detail.read_pii_raw", "case.export",
   "case.assign", "case.status.transition", "campaign.publish", "review.close",
   "disposal.review", "disposal.hold.manage", "disposal.instructions.publish",
   "audit.read", "staff.read", "staff.manage"}

StaffRoles == {"ADMIN", "MANAGER", "COMPLIANCE"}

CaseRead == {"case.queue.read", "case.detail.read"}

ManagerPermissions ==
  CaseRead \cup {"case.detail.read_pii_raw", "case.export", "case.assign",
                 "case.status.transition", "campaign.publish", "audit.read", "staff.read"}

CompliancePermissions ==
  CaseRead \cup {"case.detail.read_pii_raw", "review.close", "disposal.review",
                 "disposal.hold.manage", "disposal.instructions.publish", "audit.read",
                 "staff.read"}

RolePermissions ==
  [role \in StaffRoles |->
     CASE role = "MANAGER"    -> ManagerPermissions
       [] role = "COMPLIANCE" -> CompliancePermissions
       [] role = "ADMIN"      -> ManagerPermissions \cup CompliancePermissions
                                   \cup {"staff.manage"}]

-----------------------------------------------------------------------------
Kinds == {"read", "disclosure", "change", "announcement"}

Route(name, permission, kind) == [name |-> name, permission |-> permission, kind |-> kind]

(* Everybody signed in may do these.                                       *)
OwnAccount ==
  {Route("staff.update_profile", "none", "change"),
   Route("staff.change_password", "none", "change"),
   Route("session.revoke", "none", "change"),
   Route("session.refresh", "none", "change")}

AccessPolicy ==
  {Route("access.policy.read", "none", "read"),
   Route("access.policy.update", "owner", "change")}

StaffManagement ==
  {Route("staff.list", "staff.read", "read"),
   Route("staff.create", "staff.manage", "change")}

StaffChanges ==
  {Route("staff.role.change", "staff.manage", "change"),
   Route("staff.delete", "staff.manage", "change"),
   Route("session.revoke_all", "staff.manage", "change")}

CaseLists ==
  {Route("case.list", "case.queue.read", "read"),
   Route("case.export", "case.export", "disclosure"),
   Route("incident.list", "case.queue.read", "read"),
   Route("incident.detail", "case.queue.read", "read"),
   Route("campaign.list", "case.queue.read", "read")}

CampaignPublication == {Route("campaign.publish", "campaign.publish", "announcement")}

(* The case as it is shown by default, and with the consumer in the clear, *)
(* which needs case.detail.read_pii_raw or is shown as by default.         *)
CaseDetails ==
  {Route("case.detail", "case.detail.read", "read"),
   Route("pii.view_raw", "case.detail.read", "disclosure"),
   Route("document.download", "case.detail.read", "disclosure")}

CaseChanges ==
  {Route("case.assign", "case.assign", "change"),
   Route("case.status.transition", "case.status.transition", "change")}

ResolutionChanges ==
  {Route("case.resolution.approve", "case.status.transition", "change"),
   Route("case.resolution.complete", "case.status.transition", "change"),
   Route("case.shipment.record", "case.status.transition", "change"),
   Route("case.resolution.cancel", "case.status.transition", "change")}

RefundExportRoutes ==
  {Route("refund_export.list", "case.export", "read"),
   Route("refund_export.create", "case.export", "change")}

SafetyReviews ==
  {Route("case.escalation.list", "review.close", "read"),
   Route("case.escalation.open", "review.close", "change"),
   Route("case.escalation.close", "review.close", "change"),
   Route("review.close", "review.close", "change")}

AuditTrail == {Route("audit.list", "audit.read", "read")}

DisposalReviews ==
  {Route("disposal.queue", "disposal.review", "read"),
   Route("disposal.detail", "disposal.review", "read"),
   Route("disposal.product.confirm", "disposal.review", "change"),
   Route("disposal.eligibility.confirm", "disposal.review", "change")}

DisposalDecisions ==
  {Route("disposal.batch.review", "disposal.review", "change"),
   Route("disposal.authorization.issue", "disposal.review", "change"),
   Route("disposal.authorization.revoke", "disposal.review", "change")}

DisposalHolds ==
  {Route("disposal.hold.place", "disposal.hold.manage", "change"),
   Route("disposal.hold.release", "disposal.hold.manage", "change")}

DisposalInstructions ==
  {Route("disposal.instructions.list", "disposal.instructions.publish", "read"),
   Route("disposal.instructions.create", "disposal.instructions.publish", "change"),
   Route("disposal.instructions.approval.record", "disposal.instructions.publish", "change")}

DisposalPublication ==
  {Route("disposal.instructions.publish", "disposal.instructions.publish", "change"),
   Route("disposal.instructions.withdraw", "disposal.instructions.publish", "change"),
   Route("disposal.retention.read", "disposal.review", "read"),
   Route("disposal.retention.update", "disposal.hold.manage", "change")}

AdminRoutes ==
  UNION {OwnAccount, AccessPolicy, StaffManagement, StaffChanges, CaseLists,
         CampaignPublication, CaseDetails, CaseChanges, ResolutionChanges,
         RefundExportRoutes, SafetyReviews, AuditTrail, DisposalReviews,
         DisposalDecisions, DisposalHolds, DisposalInstructions, DisposalPublication}
=============================================================================
