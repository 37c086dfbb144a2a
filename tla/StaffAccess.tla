----------------------------- MODULE StaffAccess -----------------------------
(***************************************************************************)
(* Staff accounts, the access policy, and the calls staff makes            *)
(* (modules/staff, middleware/staff-auth.ts, routes/admin-guard.ts).       *)
(*                                                                         *)
(* A call resolves its session once, when it arrives, and goes on with     *)
(* what it held then.  Assigning roles and editing the policy serialise on *)
(* the row of the policy; everything else runs in between.  The Owner      *)
(* holds every permission and no role, and is never disabled or deleted:   *)
(* the rule that the last ADMIN stays never bites while there is an Owner. *)
(***************************************************************************)
EXTENDS AdminRoutes, Naturals

CONSTANTS
  Staff,         \* accounts other than the Owner's
  CustomRoles,   \* roles a policy may add to the built-in ones
  RolesInPlay,   \* built-in roles the policy is edited and assigned over
  Grants,        \* sets of permissions an edit gives a role
  RoutesInPlay,  \* names of the routes that are called
  Calls,         \* calls and open pages at the same time
  MaxRevision    \* bound: revisions of the policy

ASSUME StaffAssumption ==
  /\ "Owner" \notin Staff
  /\ RolesInPlay \subseteq StaffRoles /\ CustomRoles \cap StaffRoles = {}
  /\ Grants \subseteq SUBSET AllPermissions
  /\ RoutesInPlay \subseteq {op.name : op \in AdminRoutes}
  /\ MaxRevision \in Nat

VARIABLES
  policy,    \* staff_access_policy: revision, and what each role grants
  account,   \* staff_users with its active sessions
  trail,     \* the grants the audit rows of policy edits add up to
  call       \* what each call under way has established, and left behind

staffVars == <<policy, account, trail, call>>

-----------------------------------------------------------------------------
Owner == "Owner"
Roles == RolesInPlay \cup CustomRoles

(* What a role the policy does not have is given.                          *)
NoRole == {"no such role"}

DefaultGrants ==
  [role \in Roles |-> IF role \in StaffRoles THEN RolePermissions[role] ELSE NoRole]

OpenRoutes == {op \in AdminRoutes : op.name \in RoutesInPlay}

PolicyRow == [revision : 1..(MaxRevision + 1),
              grants   : [Roles -> Grants \cup {RolePermissions[r] : r \in StaffRoles} \cup {NoRole}]]

AccountRow == [status : {"absent", "active", "disabled"},
               roles  : SUBSET Roles,
               signed : BOOLEAN]

NoPolicy == [revision |-> 0, grants |-> DefaultGrants]

(* What a call asks of an account: a status, and roles by their            *)
(* identifiers or one built-in role by its name.                           *)
Changes == [status : {"same", "active", "disabled", "absent"},
            assigns : BOOLEAN, byId : BOOLEAN, roles : SUBSET Roles]

NoChange == [status |-> "same", assigns |-> FALSE, byId |-> FALSE, roles |-> {}]

IdleCall == [at |-> "idle", actor |-> Owner, op |-> Route("staff.list", "staff.read", "read"),
             holds |-> {}, target |-> Owner, change |-> NoChange, page |-> NoPolicy,
             before |-> NoPolicy, edit |-> DefaultGrants, effect |-> FALSE, logged |-> FALSE]

StaffTypeOK ==
  /\ policy \in PolicyRow
  /\ account \in [Staff -> AccountRow]
  /\ trail = policy.grants \/ trail \in [Roles -> SUBSET AllPermissions \cup {NoRole}]
  /\ \A c \in Calls :
       /\ call[c].at \in {"idle", "denied", "allowed", "page", "begun", "checked",
                          "locked", "answer"}
       /\ call[c].actor \in Staff \cup {Owner}
       /\ \E op \in AdminRoutes : call[c].op \in {op, [op EXCEPT !.kind = "read"]}
       /\ call[c].target \in Staff \cup {Owner} /\ call[c].change \in Changes
       /\ {call[c].page, call[c].before} \subseteq PolicyRow \cup {NoPolicy}
       /\ call[c].effect \in BOOLEAN /\ call[c].logged \in BOOLEAN

StaffInit ==
  /\ policy = [revision |-> 1, grants |-> DefaultGrants]
  /\ account = [u \in Staff |-> [status |-> "absent", roles |-> {}, signed |-> FALSE]]
  /\ trail = DefaultGrants
  /\ call = [c \in Calls |-> IdleCall]

-----------------------------------------------------------------------------
(* Who may do what.                                                        *)

Existing(grants) == {role \in Roles : grants[role] # NoRole}

(* effectivePermissions: a role that is gone grants nothing.               *)
EffectivePermissions(grants, roles) ==
  UNION {grants[role] : role \in roles \cap Existing(grants)}

HeldBy(u) ==
  IF u = Owner THEN AllPermissions \cup {"none", "owner"}
  ELSE EffectivePermissions(policy.grants, account[u].roles) \cup {"none"}

(* A session that was issued and not revoked, of an account in force; a    *)
(* session issued to a sign-in that a revocation overtook counts as issued *)
(* after it.                                                               *)
SignedIn(u) == u \in Staff => account[u].status = "active" /\ account[u].signed

SignIn(u) ==
  /\ account[u].status = "active" /\ ~account[u].signed
  /\ account' = [account EXCEPT ![u].signed = TRUE]
  /\ UNCHANGED <<policy, trail, call>>

(* A raw view without the permission for it is a masked one.               *)
AsHeld(op, holds) ==
  IF op.name = "pii.view_raw" /\ "case.detail.read_pii_raw" \notin holds
  THEN [op EXCEPT !.kind = "read"] ELSE op

(* createStaffAuthMiddleware and requirePermission.                        *)
Arrive(c, u, op) ==
  /\ call[c] = IdleCall
  /\ SignedIn(u)
  /\ call' = [call EXCEPT ![c] = [IdleCall EXCEPT
                !.at = IF op.permission \in HeldBy(u) THEN "allowed" ELSE "denied",
                !.actor = u, !.op = AsHeld(op, HeldBy(u)), !.holds = HeldBy(u)]]
  /\ UNCHANGED <<policy, account, trail>>

End(c) ==
  /\ call' = [call EXCEPT ![c] = IdleCall]
  /\ UNCHANGED <<policy, account, trail>>

(* The denial is recorded, and the call refused.                           *)
RecordDenial(c) ==
  /\ call[c].at = "denied"
  /\ End(c)

(* A refusal of the handler, an error, or the function stops: whatever is  *)
(* not committed is rolled back.                                           *)
BreakCall(c) ==
  /\ call[c].at \notin {"idle", "denied"}
  /\ End(c)

-----------------------------------------------------------------------------
(* What is committed or written so far, with only the answer to come.      *)
Settle(c, effect, logged) ==
  call' = [call EXCEPT ![c] = [IdleCall EXCEPT
             !.at = "answer", !.op = call[c].op,
             !.effect = effect, !.logged = logged]]

(* Calls whose effects are modelled elsewhere, by what the trail learns.   *)

Managed == {"staff.create", "staff.role.change", "staff.delete", "session.revoke_all",
            "access.policy.update"}

Kind(c) == call[c].op.kind

Note(c, effect, logged) ==
  /\ Settle(c, effect, logged)
  /\ UNCHANGED <<policy, account, trail>>

AnswerRead(c) ==
  /\ call[c].at = "allowed" /\ Kind(c) = "read"
  /\ Note(c, FALSE, FALSE)

(* The row of a disclosure is written, and then it is answered.            *)
LogDisclosure(c) ==
  /\ call[c].at = "allowed" /\ Kind(c) = "disclosure"
  /\ Note(c, FALSE, TRUE)

Disclose(c) ==
  /\ call[c].at = "answer" /\ Kind(c) = "disclosure" /\ ~call[c].effect
  /\ Note(c, TRUE, call[c].logged)

(* Mutant: the row is written after the transaction. *)
CommitChangeFirst(c) ==
  /\ call[c].at = "allowed" /\ Kind(c) = "change" /\ call[c].op.name \notin Managed
  /\ Note(c, TRUE, FALSE)

CommitChange(c) ==
  /\ call[c].at = "allowed" /\ Kind(c) = "change" /\ call[c].op.name \notin Managed
  /\ Note(c, TRUE, TRUE)

Announce(c) ==
  /\ call[c].at = "allowed" /\ Kind(c) = "announcement"
  /\ Note(c, TRUE, FALSE)

LogAnnouncement(c) ==
  /\ call[c].at = "answer" /\ Kind(c) = "announcement" /\ ~call[c].logged
  /\ Note(c, TRUE, TRUE)

Answer(c) ==
  /\ call[c].at = "answer"
  /\ Kind(c) = "disclosure" => call[c].effect
  /\ Kind(c) = "announcement" => call[c].logged
  /\ End(c)

-----------------------------------------------------------------------------
(* The row of the policy.                                                  *)

(* Mutant: the policy is read without FOR UPDATE. *)
PolicyUnlocked == FALSE

PolicyLocked == \E c \in Calls : call[c].at = "locked"

-----------------------------------------------------------------------------
(* Managing accounts.                                                      *)

(* What each route may ask for.                                            *)
ChangesOf(name) ==
  {change \in Changes :
     /\ ~change.assigns => change.roles = {} /\ ~change.byId
     /\ change.assigns /\ ~change.byId =>
          change.roles \subseteq StaffRoles /\ Cardinality(change.roles) = 1
     /\ CASE name = "staff.create"       -> change.assigns /\ change.status = "active"
          [] name = "staff.role.change"  -> change.status # "absent" /\ change # NoChange
          [] name = "staff.delete"       -> change = [NoChange EXCEPT !.status = "absent"]
          [] name = "session.revoke_all" -> change = NoChange
          [] OTHER                       -> FALSE}

(* Mutant: a status that was left out of the request is written as well. *)
ChangedAsSent(row, change, revokes) ==
  [status |-> change.status,
   roles  |-> IF change.assigns THEN change.roles ELSE row.roles,
   signed |-> row.signed /\ ~(revokes \/ change.assigns)]

(* A change of roles or the end of an account ends its sessions.           *)
Changed(row, change, revokes) ==
  [status |-> IF change.status = "same" THEN row.status ELSE change.status,
   roles  |-> IF change.assigns THEN change.roles
              ELSE IF change.status = "absent" THEN {} ELSE row.roles,
   signed |-> /\ row.signed
              /\ ~(revokes \/ change.assigns \/ change.status \in {"disabled", "absent"})]

(* The handler: nobody manages an account that holds more than they do, or *)
(* grants what they do not hold.                                           *)
MayManage(c, u, roles) ==
  /\ roles \subseteq Existing(policy.grants)
  /\ \/ call[c].actor = Owner
     \/ EffectivePermissions(policy.grants, account[u].roles \cup roles)
          \subseteq call[c].holds

CheckManagement(c, u, change) ==
  /\ call[c].at = "allowed"
  /\ change \in ChangesOf(call[c].op.name)
  /\ MayManage(c, u, change.roles)
  /\ call' = [call EXCEPT ![c].at = "checked", ![c].target = u, ![c].change = change]
  /\ UNCHANGED <<policy, account, trail>>

(* validateAccessRoleIds: identifiers are looked up again.                 *)
ValidateRoles(c) ==
  /\ call[c].at = "checked" /\ call[c].change.byId
  /\ ~PolicyLocked
  /\ call[c].change.roles \subseteq Existing(policy.grants)
  /\ call' = [call EXCEPT ![c].at = "locked"]
  /\ UNCHANGED <<policy, account, trail>>

(* createStaffUser, updateStaffUser, deleteStaffUser and revokeAllSessions *)
(* with the row of the trail.                                              *)
CommitManagement(c) ==
  LET u == call[c].target
      name == call[c].op.name
  IN  /\ u \in Staff
      /\ call[c].at = IF call[c].change.byId THEN "locked" ELSE "checked"
      /\ (account[u].status = "absent") <=> (name = "staff.create")
      /\ name = "staff.delete" => u # call[c].actor
      /\ account' = [account EXCEPT ![u] =
                        Changed(@, call[c].change, name = "session.revoke_all")]
      /\ Settle(c, TRUE, TRUE)
      /\ UNCHANGED <<policy, trail>>

-----------------------------------------------------------------------------
(* Editing the policy.                                                     *)

(* The page shows the policy with its revision, and sends all of it back.  *)
OpenPolicyPage(c) ==
  /\ call[c].at = "allowed" /\ call[c].op.name = "access.policy.update"
  /\ call[c].page = NoPolicy
  /\ call' = [call EXCEPT ![c].at = "page", ![c].page = policy]
  /\ UNCHANGED <<policy, account, trail>>

(* One role of the page is edited, added or taken out; built-in roles      *)
(* stay.  The transaction reads the policy as it is before.                *)
SendPolicy(c, role, grants) ==
  /\ call[c].at = "page"
  /\ grants = NoRole => role \notin StaffRoles
  /\ call' = [call EXCEPT ![c].at = "begun", ![c].before = policy,
                          ![c].edit = [call[c].page.grants EXCEPT ![role] = grants]]
  /\ UNCHANGED <<policy, account, trail>>

(* Mutant: the revision of the page is not compared. *)
AnyRevision(c) == policy.revision <= MaxRevision

RevisionStands(c) ==
  policy.revision = call[c].page.revision /\ policy.revision <= MaxRevision

(* updateAccessPolicy: the row is locked, no role in use is taken out, and *)
(* the row is written if its revision is the one of the page.              *)
LockPolicy(c) ==
  /\ call[c].at = "begun"
  /\ ~PolicyLocked
  /\ \A u \in Staff :
       account[u].roles \cap (Existing(policy.grants) \ Existing(call[c].edit)) = {}
  /\ RevisionStands(c)
  /\ call' = [call EXCEPT ![c].at = "locked"]
  /\ UNCHANGED <<policy, account, trail>>

(* The trail gets a row for each role that is not what it was before.      *)
CommitPolicy(c) ==
  /\ call[c].at = "locked" /\ call[c].op.name = "access.policy.update"
  /\ policy' = [revision |-> policy.revision + 1, grants |-> call[c].edit]
  /\ trail' = [role \in Roles |->
                 IF call[c].before.grants[role] # call[c].edit[role]
                 THEN call[c].edit[role] ELSE trail[role]]
  /\ Settle(c, TRUE, TRUE)
  /\ UNCHANGED account

-----------------------------------------------------------------------------
OrdinaryCall(c) ==
  \/ RecordDenial(c) \/ BreakCall(c) \/ AnswerRead(c) \/ LogDisclosure(c) \/ Disclose(c)
  \/ CommitChange(c) \/ Announce(c) \/ LogAnnouncement(c) \/ Answer(c)

ManagingCall(c) ==
  \/ \E u \in Staff, change \in Changes : CheckManagement(c, u, change)
  \/ ValidateRoles(c) \/ CommitManagement(c)
  \/ OpenPolicyPage(c)
  \/ \E role \in Roles, grants \in Grants \cup {NoRole} : SendPolicy(c, role, grants)
  \/ LockPolicy(c) \/ CommitPolicy(c)

StaffNext ==
  \/ \E u \in Staff : SignIn(u)
  \/ \E c \in Calls :
       \/ \E u \in Staff \cup {Owner}, op \in OpenRoutes : Arrive(c, u, op)
       \/ OrdinaryCall(c) \/ ManagingCall(c)

StaffSpec == StaffInit /\ [][StaffNext]_staffVars

-----------------------------------------------------------------------------
(* Properties.                                                             *)

(* A role somebody has is a role the policy knows, so that nobody loses    *)
(* what they may do to a role that was deleted while it was being given    *)
(* out (validateAccessRoleIds, updateAccessPolicy).                        *)
RolesInUseExist ==
  \A u \in Staff : account[u].roles \subseteq Existing(policy.grants)

(* An edit replaces the policy its page showed and no newer one; and who   *)
(* reads the rows of the trail, one per role and edit, knows the policy in *)
(* force (updateAccessPolicy, PUT /admin/access).                          *)
PolicyEditsAreNotLost ==
  /\ [](trail = policy.grants)
  /\ [][policy' # policy =>
          \E c \in Calls : call[c].at = "locked" /\ call[c].page = policy]_staffVars

(* However a call ends, what it did is in the trail, and the trail says    *)
(* nothing it did not do: a failure undoes both or neither, and what was   *)
(* disclosed was recorded first.  Only an announcement may be left without *)
(* its row (adminTransactions.run with audit.record in it).                *)
AuditTellsTheTruth ==
  [][\A c \in Calls : call[c] # IdleCall /\ call'[c] = IdleCall =>
       /\ call[c].effect => call[c].logged \/ Kind(c) = "announcement"
       /\ call[c].logged => call[c].effect \/ Kind(c) = "disclosure"]_staffVars
=============================================================================
