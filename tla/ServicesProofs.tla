---------------------------- MODULE ServicesProofs ----------------------------
(***************************************************************************)
(* Theorems about the services that share no state with one another: the   *)
(* loop of coverageFor, staff access, campaigns, product identification    *)
(* and consumer accounts, each for every value of its constants.  Claim    *)
(* submission has a module of its own.  At the end: the behaviours of      *)
(* module MCServices are behaviours of each of them.                       *)
(***************************************************************************)
EXTENDS MCServices, ClaimSubmissionProofs, DisposalCoverageProofs, FiniteSetTheorems

-----------------------------------------------------------------------------
(* The loop of coverageFor, for every number of products and documents and *)
(* every quantity.                                                         *)

(* What the Map holds of product p once the claims are taken. *)
Amount(claims, p) ==
  IF confirmed[p] # Unconfirmed /\ \E c \in claims : c.product \in {p, AllProducts}
  THEN CoveredQuantity(claims, confirmed, p) ELSE 0

LoopInv ==
  /\ TypeOK
  /\ Taken \in SUBSET Claim
  /\ \A p \in Products : covered[p] = Amount(Taken, p)

(* One more claim about a product raises the largest claim or leaves it. *)
LEMMA LargestWithOneMore ==
  ASSUME NEW claims \in SUBSET Claim, NEW p \in Products,
         NEW d \in Claim, d.product = p
  PROVE  LET before == Max(ClaimedQuantities(claims, p))
             after == Max(ClaimedQuantities(claims \cup {d}, p))
         IN  /\ (\E c \in claims : c.product = p) => after = Greater(before, d.quantity)
             /\ ~(\E c \in claims : c.product = p) => after = d.quantity
<1> DEFINE before == Max(ClaimedQuantities(claims, p))
           after == Max(ClaimedQuantities(claims \cup {d}, p))
<1>1. /\ \E c \in claims \cup {d} : c.product = p /\ c.quantity = after
      /\ \A c \in claims \cup {d} : c.product = p => c.quantity <= after
      /\ after \in 0..MaxQuantity
  BY LargestClaim
<1>2. d.quantity \in 0..MaxQuantity
  BY DEF Claim
<1>3. CASE \E c \in claims : c.product = p
  <2>1. /\ \E c \in claims : c.product = p /\ c.quantity = before
        /\ \A c \in claims : c.product = p => c.quantity <= before
        /\ before \in 0..MaxQuantity
    BY <1>3, LargestClaim
  <2> HIDE DEF before, after
  <2>2. after = d.quantity \/ after <= before
    BY <1>1, <2>1
  <2>3. before <= after /\ d.quantity <= after
    BY <1>1, <2>1
  <2>4. after = Greater(before, d.quantity)
    BY <1>1, <1>2, <2>1, <2>2, <2>3, CoverageAssumption DEF Greater
  <2> QED  BY <1>3, <2>4 DEF before, after
<1>4. CASE ~\E c \in claims : c.product = p
  BY <1>1, <1>4
<1> QED  BY <1>3, <1>4

(* One turn of the loop: the Map's entry for each product stays the amount *)
(* its claims add up to.                                                   *)
LEMMA OneMoreClaim ==
  ASSUME TypeOK, NEW claims \in SUBSET Claim, NEW p \in Products,
         NEW d \in Claim, covered[p] = Amount(claims, p)
  PROVE  /\ CoveredBy(d, p) = Amount(claims \cup {d}, p)
         /\ CoveredBy(d, p) \in 0..MaxQuantity
<1> DEFINE more == claims \cup {d}
<1>1. /\ confirmed[p] \in 0..MaxQuantity /\ covered[p] \in 0..MaxQuantity
      /\ d.quantity \in 0..MaxQuantity /\ MaxQuantity \in Nat
  BY CoverageAssumption DEF TypeOK, Claim
<1>2. CASE confirmed[p] = Unconfirmed
  BY <1>1, <1>2 DEF CoveredBy, Amount, Unconfirmed
<1>3. CASE confirmed[p] # Unconfirmed /\ d.product \notin {p, AllProducts}
  <2>1. FullyClaimed(more, p) <=> FullyClaimed(claims, p)
    BY <1>3 DEF FullyClaimed
  <2>2. ClaimedQuantities(more, p) = ClaimedQuantities(claims, p)
    BY <1>3 DEF ClaimedQuantities
  <2>3. (\E c \in more : c.product \in {p, AllProducts})
          <=> \E c \in claims : c.product \in {p, AllProducts}
    BY <1>3
  <2>4. CoveredQuantity(more, confirmed, p) = CoveredQuantity(claims, confirmed, p)
    BY <2>1, <2>2 DEF CoveredQuantity
  <2>5. CoveredBy(d, p) = covered[p]
    BY <1>3 DEF CoveredBy
  <2> QED  BY <1>1, <2>3, <2>4, <2>5 DEF Amount
<1>4. CASE confirmed[p] # Unconfirmed /\ d.product \in {p, AllProducts}
  <2>1. Amount(more, p) = CoveredQuantity(more, confirmed, p)
    BY <1>4 DEF Amount
  <2>2. CASE d.product = AllProducts
    <3>1. FullyClaimed(more, p)
      BY <2>2 DEF FullyClaimed
    <3> QED  BY <1>1, <2>1, <2>2, <3>1 DEF CoveredQuantity, CoveredBy
  <2>3. CASE d.product = p
    <3>1. d.product # AllProducts
      BY <2>3, CoverageAssumption
    <3>2. CoveredBy(d, p) = Lesser(confirmed[p], Greater(covered[p], Requested(d, p)))
      BY <1>4, <2>3, <3>1 DEF CoveredBy
    <3>3. CASE FullyClaimed(claims, p)
      <4>1. FullyClaimed(more, p)
        BY <3>3 DEF FullyClaimed
      <4>2. covered[p] = confirmed[p]
        BY <1>4, <3>3 DEF Amount, CoveredQuantity, FullyClaimed
      <4> QED
        BY <1>1, <2>1, <3>2, <4>1, <4>2
        DEF CoveredQuantity, Lesser, Greater, Requested
    <3>4. CASE d.quantity = NoQuantity
      <4>1. FullyClaimed(more, p)
        BY <2>3, <3>4 DEF FullyClaimed
      <4> QED
        BY <1>1, <2>1, <3>2, <3>4, <4>1
        DEF CoveredQuantity, Lesser, Greater, Requested
    <3>5. CASE ~FullyClaimed(claims, p) /\ d.quantity # NoQuantity
      <4> DEFINE before == Max(ClaimedQuantities(claims, p))
                 after == Max(ClaimedQuantities(more, p))
      <4>1. ~FullyClaimed(more, p)
        BY <3>1, <3>5 DEF FullyClaimed
      <4>2. /\ (\E c \in claims : c.product = p) => after = Greater(before, d.quantity)
            /\ ~(\E c \in claims : c.product = p) => after = d.quantity
        BY <2>3, LargestWithOneMore
      <4>3. Requested(d, p) = d.quantity
        BY <3>5 DEF Requested
      <4>4. after \in Nat
        <5>1. more \in SUBSET Claim /\ \E c \in more : c.product = p
          BY <2>3
        <5> HIDE DEF more
        <5> QED  BY <5>1, LargestClaim, CoverageAssumption
      <4>5. Amount(more, p) = Lesser(confirmed[p], after)
        <5>1. CoveredQuantity(more, confirmed, p) = Min({confirmed[p], after})
          BY <4>1 DEF CoveredQuantity
        <5> QED  BY <1>1, <2>1, <4>4, <5>1, MinOfTwo DEF Lesser
      <4>6. CASE \E c \in claims : c.product = p
        <5>1. before \in Nat
          BY <4>6, LargestClaim, CoverageAssumption
        <5>2. covered[p] = Min({confirmed[p], before})
          BY <1>4, <3>5, <4>6 DEF Amount, CoveredQuantity
        <5>3. covered[p] = Lesser(confirmed[p], before)
          BY <1>1, <5>1, <5>2, MinOfTwo DEF Lesser
        <5> HIDE DEF before, after, more
        <5> QED
          BY <1>1, <3>2, <4>2, <4>3, <4>5, <4>6, <5>1, <5>3 DEF Lesser, Greater, more
      <4>7. CASE ~\E c \in claims : c.product = p
        <5>1. covered[p] = 0
          BY <3>5, <4>7 DEF Amount, FullyClaimed
        <5> HIDE DEF before, after, more
        <5> QED
          BY <1>1, <3>2, <4>2, <4>3, <4>5, <4>7, <5>1 DEF Lesser, Greater, more
      <4> QED  BY <4>6, <4>7
    <3> QED  BY <3>3, <3>4, <3>5
  <2> QED  BY <1>4, <2>2, <2>3
<1> QED  BY <1>2, <1>3, <1>4

(* The entries of the Map are CoverageFor of what was taken. *)
LEMMA LoopInvGivesCoverage ==
  ASSUME LoopInv
  PROVE  LoopComputesCoverage
<1>1. \A p \in Products :
        (confirmed[p] # Unconfirmed
           /\ \E c \in Taken : c.product \in {p, AllProducts})
        <=> covered[p] # 0
  <2> SUFFICES ASSUME NEW p \in Products, confirmed[p] # Unconfirmed,
                      \E c \in Taken : c.product \in {p, AllProducts}
               PROVE  covered[p] # 0
    BY DEF LoopInv, Amount
  <2>1. [product |-> p, quantity |-> covered[p]] \in CoverageFor(Taken, confirmed)
    BY DEF LoopInv, Amount, CoverageFor
  <2>2. confirmed \in [Products -> 0..MaxQuantity] /\ Taken \in SUBSET Claim
    BY DEF LoopInv, TypeOK
  <2>3. covered[p] \in Quantities
    BY <2>1, <2>2, CoverageWithinConfirmed DEF CoveredItem
  <2> QED  BY <2>3, CoverageAssumption DEF Quantities
<1>2. \A p \in Products : covered[p] # 0 =>
        covered[p] = CoveredQuantity(Taken, confirmed, p)
  BY DEF LoopInv, Amount
<1> QED  BY <1>1, <1>2 DEF LoopComputesCoverage, Entries, CoverageFor

LEMMA LoopInitKeeps == Init => LoopInv
<1> SUFFICES ASSUME Init PROVE LoopInv
  OBVIOUS
<1>1. Taken = {}
  BY DEF Init, Taken
<1>2. TypeOK
  BY CoverageAssumption, DocumentsAssumption DEF Init, TypeOK
<1> QED  BY <1>1, <1>2 DEF Init, LoopInv, Amount

LEMMA LoopStepKeeps == LoopInv /\ [Next]_vars => LoopInv'
<1> SUFFICES ASSUME LoopInv, [Next]_vars PROVE LoopInv'
  OBVIOUS
<1>1. CASE TakeDocument
  <2> DEFINE d == documents[at + 1]
  <2>1. PICK n \in 0..MaxDocuments : documents \in [1..n -> Claim]
    BY DEF LoopInv, TypeOK
  <2>2. at \in Nat /\ n \in Nat /\ at + 1 \in 1..n
    BY <1>1, <2>1, DocumentsAssumption DEF LoopInv, TypeOK, TakeDocument
  <2>3. d \in Claim
    BY <2>1, <2>2
  <2>4. Taken' = Taken \cup {d}
    BY <1>1, <2>2 DEF TakeDocument, Taken
  <2>5. \A p \in Products : /\ CoveredBy(d, p) = Amount(Taken \cup {d}, p)
                            /\ CoveredBy(d, p) \in 0..MaxQuantity
    BY <2>3, OneMoreClaim DEF LoopInv
  <2>6. TypeOK'
    BY <1>1, <2>2, <2>5, DocumentsAssumption DEF LoopInv, TypeOK, TakeDocument
  <2>7. \A p \in Products : covered'[p] = Amount(Taken, p)'
    BY <1>1, <2>4, <2>5 DEF TakeDocument, Amount
  <2> QED  BY <2>3, <2>4, <2>6, <2>7 DEF LoopInv
<1>2. CASE UNCHANGED vars
  <2>1. Taken' = Taken /\ covered' = covered /\ confirmed' = confirmed
    BY <1>2 DEF vars, Taken
  <2>2. TypeOK'
    BY <1>2 DEF vars, LoopInv, TypeOK
  <2> QED  BY <2>1, <2>2 DEF LoopInv, Amount
<1> QED  BY <1>1, <1>2 DEF Next

LEMMA LoopInvHolds == Spec => []LoopInv
BY LoopInitKeeps, LoopStepKeeps, PTL DEF Spec

(* Whatever the documents and their order, after every turn the loop of    *)
(* coverageFor holds what CoverageFor says of the documents taken.         *)
THEOREM LoopIsCoverage == Spec => []LoopComputesCoverage
BY LoopInvHolds, LoopInvGivesCoverage, PTL

-----------------------------------------------------------------------------
(* Staff access.  Assigning roles and editing the policy take the row of   *)
(* the policy one by one (OneHoldsPolicy), and who holds it knows that the *)
(* policy did not move since its page was shown (PageIsOld).  Built-in     *)
(* roles are in every policy, so that giving them out needs no lock.       *)

Operations == AdminRoutes \cup {[op EXCEPT !.kind = "read"] : op \in AdminRoutes}

(* A policy that has every built-in role. *)
GrantTable ==
  {grants \in [Roles -> Grants \cup {RolePermissions[r] : r \in StaffRoles} \cup {NoRole}] :
     \A role \in Roles \cap StaffRoles : grants[role] # NoRole}

PolicyShown == {shown \in PolicyRow \cup {NoPolicy} : shown.grants \in GrantTable}

CallRow ==
  [at      : {"idle", "denied", "allowed", "page", "begun", "checked", "locked", "answer"},
   actor   : Staff \cup {Owner},
   op      : Operations,
   holds   : SUBSET (AllPermissions \cup {"none", "owner", "no such role"}),
   target  : Staff \cup {Owner},
   change  : Changes,
   page    : PolicyShown,
   before  : PolicyShown,
   edit    : GrantTable,
   effect  : BOOLEAN,
   logged  : BOOLEAN]

StaffTyped ==
  /\ policy \in PolicyRow /\ policy.grants \in GrantTable
  /\ account \in [Staff -> AccountRow]
  /\ call \in [Calls -> CallRow]

EditsPolicy(row) == row.op.name = "access.policy.update"

(* How far a call has come says what it is about. *)
InOrder(row) ==
  /\ row.at \in {"page", "begun"} => EditsPolicy(row)
  /\ row.at = "checked" => ~EditsPolicy(row)
  /\ row.at = "locked" => (EditsPolicy(row) <=> ~row.change.byId)
  /\ row.at \in {"allowed", "page", "begun"} => ~row.change.byId
  /\ row.at \in {"checked", "locked"} /\ ~EditsPolicy(row) =>
       row.change \in ChangesOf(row.op.name)

OlderThan(shown, current) ==
  /\ shown.revision <= current.revision
  /\ shown.revision = current.revision => shown = current

PageIsOld(row) ==
  EditsPolicy(row) =>
    /\ row.at \in {"page", "begun", "locked"} => OlderThan(row.page, policy)
    /\ row.at \in {"begun", "locked"} =>
         OlderThan(row.before, policy) /\ row.page.revision <= row.before.revision
    /\ row.at = "locked" =>
         row.page.revision = policy.revision /\ policy.revision <= MaxRevision

(* What is about to be given out or taken away leaves nobody without. *)
RolesStand(row) ==
  row.at = "locked" =>
    IF EditsPolicy(row)
    THEN \A u \in Staff : account[u].roles \subseteq Existing(row.edit)
    ELSE row.change.roles \subseteq Existing(policy.grants)

(* What a call did so far, and whether its row is written. *)
IsLogged(row) ==
  /\ row.at # "answer" => ~row.effect /\ ~row.logged
  /\ row.effect => row.logged \/ row.op.kind = "announcement"
  /\ row.logged => row.effect \/ row.op.kind = "disclosure"
  /\ row.at = "answer" /\ row.op.kind = "disclosure" => row.logged

CallStands(row) == InOrder(row) /\ PageIsOld(row) /\ RolesStand(row) /\ IsLogged(row)

OneHoldsPolicy ==
  \A c, d \in Calls : call[c].at = "locked" /\ call[d].at = "locked" => c = d

StaffInv ==
  /\ StaffTyped
  /\ \A c \in Calls : CallStands(call[c])
  /\ OneHoldsPolicy
  /\ trail = policy.grants
  /\ RolesInUseExist

LEMMA BuiltInRolesGrant ==
  ASSUME NEW role \in StaffRoles
  PROVE  /\ RolePermissions[role] \subseteq AllPermissions
         /\ RolePermissions[role] # NoRole
<1>1. /\ ManagerPermissions \subseteq AllPermissions
      /\ CompliancePermissions \subseteq AllPermissions
      /\ "audit.read" \in ManagerPermissions /\ "audit.read" \in CompliancePermissions
  BY DEF ManagerPermissions, CompliancePermissions, CaseRead, AllPermissions
<1>2. "staff.manage" \in AllPermissions
  BY DEF AllPermissions
<1> DEFINE granted == RolePermissions[role]
<1>3. granted \subseteq AllPermissions /\ "audit.read" \in granted
  <2>1. CASE role = "MANAGER"
    BY <1>1, <2>1 DEF RolePermissions, StaffRoles
  <2>2. CASE role = "COMPLIANCE"
    BY <1>1, <2>2 DEF RolePermissions, StaffRoles
  <2>3. CASE role = "ADMIN"
    BY <1>1, <1>2, <2>3 DEF RolePermissions, StaffRoles
  <2> QED  BY <2>1, <2>2, <2>3 DEF StaffRoles
<1> HIDE DEF granted
<1>4. "audit.read" \notin NoRole
  BY DEF NoRole
<1> QED  BY <1>3, <1>4 DEF granted

LEMMA GrantsAreRoles ==
  /\ NoRole \notin Grants
  /\ \A grants \in GrantTable : \A role \in Roles :
       grants[role] \subseteq AllPermissions \cup NoRole
  /\ DefaultGrants \in GrantTable
<1>1. "no such role" \notin AllPermissions
  BY DEF AllPermissions
<1>2. NoRole \notin Grants
  BY <1>1, StaffAssumption DEF NoRole
<1>3. \A set \in Grants \cup {RolePermissions[r] : r \in StaffRoles} \cup {NoRole} :
        set \subseteq AllPermissions \cup NoRole
  BY StaffAssumption, BuiltInRolesGrant
<1>4. DefaultGrants \in GrantTable
  BY BuiltInRolesGrant DEF DefaultGrants, GrantTable
<1> QED  BY <1>2, <1>3, <1>4 DEF GrantTable

LEMMA IdleCallStands ==
  /\ IdleCall \in CallRow /\ CallStands(IdleCall)
  /\ IdleCall.at = "idle" /\ IdleCall.change = NoChange /\ ~NoChange.byId
  /\ IdleCall.page = NoPolicy /\ ~IdleCall.effect /\ ~IdleCall.logged
<1>1. /\ IdleCall.at = "idle" /\ IdleCall.change = NoChange /\ ~NoChange.byId
      /\ IdleCall.page = NoPolicy /\ ~IdleCall.effect /\ ~IdleCall.logged
  BY DEF IdleCall, NoChange
<1>2. NoChange \in Changes
  BY DEF NoChange, Changes
<1>3. NoPolicy \in PolicyShown
  BY GrantsAreRoles DEF NoPolicy, PolicyShown
<1>4. Route("staff.list", "staff.read", "read") \in Operations
  <2>1. StaffManagement \in {OwnAccount, AccessPolicy, StaffManagement, StaffChanges, CaseLists,
         CampaignPublication, CaseDetails, CaseChanges, ResolutionChanges,
         RefundExportRoutes, SafetyReviews, AuditTrail, DisposalReviews,
         DisposalDecisions, DisposalHolds, DisposalInstructions, DisposalPublication}
    OBVIOUS
  <2>2. StaffManagement \subseteq AdminRoutes
    BY <2>1 DEF AdminRoutes
  <2> QED  BY <2>2 DEF StaffManagement, Operations
<1>5. IdleCall \in CallRow
  BY <1>2, <1>3, <1>4, GrantsAreRoles DEF IdleCall, CallRow
<1>6. CallStands(IdleCall)
  BY <1>1 DEF CallStands, InOrder, PageIsOld, RolesStand, IsLogged
<1> QED  BY <1>1, <1>5, <1>6

LEMMA HeldIsKnown ==
  ASSUME StaffTyped, NEW u \in Staff \cup {Owner}
  PROVE  HeldBy(u) \subseteq AllPermissions \cup {"none", "owner", "no such role"}
<1>1. ASSUME NEW roles
      PROVE  EffectivePermissions(policy.grants, roles)
               \subseteq AllPermissions \cup {"none", "owner", "no such role"}
  <2>1. \A role \in Roles : policy.grants[role] \subseteq AllPermissions \cup NoRole
    BY GrantsAreRoles DEF StaffTyped
  <2> QED  BY <2>1 DEF EffectivePermissions, Existing, NoRole
<1> QED  BY <1>1 DEF HeldBy

(* A step of one call that writes neither policy nor account. *)
LEMMA OneCallMoves ==
  ASSUME StaffInv, NEW c \in Calls, NEW row \in CallRow, CallStands(row),
         row.at = "locked" => ~PolicyLocked,
         call' = [call EXCEPT ![c] = row],
         UNCHANGED <<policy, account, trail>>
  PROVE  StaffInv'
<1>1. call \in [Calls -> CallRow]
  BY DEF StaffInv, StaffTyped
<1>2. call'[c] = row /\ \A d \in Calls \ {c} : call'[d] = call[d]
  BY <1>1
<1>3. StaffTyped'
  BY <1>1 DEF StaffInv, StaffTyped
<1>4. \A d \in Calls : CallStands(call[d])'
  <2>1. ASSUME NEW d \in Calls, CallStands(call'[d]) PROVE CallStands(call[d])'
    BY <2>1 DEF CallStands, InOrder, PageIsOld, RolesStand, IsLogged, EditsPolicy, OlderThan
  <2> QED  BY <1>2, <2>1 DEF StaffInv
<1>5. OneHoldsPolicy'
  BY <1>2 DEF StaffInv, OneHoldsPolicy, PolicyLocked
<1> QED  BY <1>3, <1>4, <1>5 DEF StaffInv, RolesInUseExist

LEMMA EndKeeps ==
  ASSUME StaffInv, NEW c \in Calls, End(c)
  PROVE  StaffInv'
BY IdleCallStands, OneCallMoves DEF End

LEMMA ArriveKeeps ==
  ASSUME StaffInv, NEW c \in Calls, NEW u \in Staff \cup {Owner}, NEW op \in OpenRoutes,
         Arrive(c, u, op)
  PROVE  StaffInv'
<1> DEFINE outcome == IF op.permission \in HeldBy(u) THEN "allowed" ELSE "denied"
           row == [IdleCall EXCEPT !.at = outcome, !.actor = u,
                                   !.op = AsHeld(op, HeldBy(u)), !.holds = HeldBy(u)]
<1>1. AsHeld(op, HeldBy(u)) \in Operations
  BY DEF AsHeld, Operations, OpenRoutes
<1>2. HeldBy(u) \subseteq AllPermissions \cup {"none", "owner", "no such role"}
  BY HeldIsKnown DEF StaffInv
<1>3. /\ row \in CallRow /\ row.at \in {"allowed", "denied"} /\ ~row.change.byId
      /\ ~row.effect /\ ~row.logged
  <2> HIDE DEF outcome
  <2>1. outcome \in {"allowed", "denied"}
    BY DEF outcome
  <2>2. row \in CallRow /\ row.at = outcome /\ row.change = IdleCall.change
        /\ row.effect = IdleCall.effect /\ row.logged = IdleCall.logged
    BY <1>1, <1>2, <2>1, IdleCallStands DEF CallRow
  <2> QED  BY <2>1, <2>2, IdleCallStands
<1> HIDE DEF row
<1>4. CallStands(row)
  BY <1>3 DEF CallStands, InOrder, PageIsOld, RolesStand, IsLogged
<1> QED  BY <1>3, <1>4, OneCallMoves DEF Arrive, row

LEMMA SettledStands ==
  ASSUME StaffTyped, NEW c \in Calls, NEW effect \in BOOLEAN, NEW logged \in BOOLEAN,
         Settle(c, effect, logged)
  PROVE  \E row \in CallRow :
           /\ call' = [call EXCEPT ![c] = row]
           /\ row.at = "answer" /\ row.op = call[c].op
           /\ row.effect = effect /\ row.logged = logged
<1> DEFINE row == [IdleCall EXCEPT !.at = "answer", !.op = call[c].op,
                                   !.effect = effect, !.logged = logged]
<1>1. call[c].op \in Operations
  BY DEF StaffTyped, CallRow
<1>2. /\ row \in CallRow /\ row.at = "answer" /\ row.op = call[c].op
      /\ row.effect = effect /\ row.logged = logged
  BY <1>1, IdleCallStands DEF CallRow
<1>3. call' = [call EXCEPT ![c] = row]
  BY DEF Settle
<1> QED  BY <1>2, <1>3

(* A call has done something, and what the trail knows of it fits. *)
LEMMA NoteKeeps ==
  ASSUME StaffInv, NEW c \in Calls, NEW effect \in BOOLEAN, NEW logged \in BOOLEAN,
         Note(c, effect, logged),
         effect => logged \/ Kind(c) = "announcement",
         logged => effect \/ Kind(c) = "disclosure",
         Kind(c) = "disclosure" => logged
  PROVE  StaffInv'
<1>1. PICK row \in CallRow :
        /\ call' = [call EXCEPT ![c] = row]
        /\ row.at = "answer" /\ row.op = call[c].op
        /\ row.effect = effect /\ row.logged = logged
  BY SettledStands DEF StaffInv, Note
<1>2. CallStands(row)
  BY <1>1 DEF CallStands, InOrder, PageIsOld, RolesStand, IsLogged, Kind
<1> QED  BY <1>1, <1>2, OneCallMoves DEF Note

LEMMA OrdinaryCallKeeps ==
  ASSUME StaffInv, NEW c \in Calls, OrdinaryCall(c)
  PROVE  StaffInv'
<1>1. IsLogged(call[c])
  BY DEF StaffInv, CallStands
<1>2. call[c].logged \in BOOLEAN /\ call[c].effect \in BOOLEAN
  BY DEF StaffInv, StaffTyped, CallRow
<1>3. CASE RecordDenial(c) \/ BreakCall(c) \/ Answer(c)
  BY <1>3, EndKeeps DEF RecordDenial, BreakCall, Answer
<1>4. CASE AnswerRead(c)
  BY <1>4, NoteKeeps DEF AnswerRead
<1>5. CASE LogDisclosure(c)
  BY <1>5, NoteKeeps DEF LogDisclosure
<1>6. CASE Disclose(c)
  BY <1>1, <1>2, <1>6, NoteKeeps DEF Disclose, IsLogged, Kind
<1>7. CASE CommitChange(c)
  BY <1>7, NoteKeeps DEF CommitChange
<1>8. CASE Announce(c)
  BY <1>8, NoteKeeps DEF Announce
<1>9. CASE LogAnnouncement(c)
  BY <1>9, NoteKeeps DEF LogAnnouncement
<1> QED
  BY <1>3, <1>4, <1>5, <1>6, <1>7, <1>8, <1>9 DEF OrdinaryCall

LEMMA CheckManagementKeeps ==
  ASSUME StaffInv, NEW c \in Calls, NEW u \in Staff, NEW change \in Changes,
         CheckManagement(c, u, change)
  PROVE  StaffInv'
<1> DEFINE row == [call[c] EXCEPT !.at = "checked", !.target = u, !.change = change]
<1>1. call \in [Calls -> CallRow] /\ call[c] \in CallRow
  BY DEF StaffInv, StaffTyped
<1>2. /\ row \in CallRow /\ row.at = "checked" /\ row.change = change
      /\ row.op = call[c].op /\ row.effect = call[c].effect /\ row.logged = call[c].logged
  BY <1>1 DEF CallRow
<1>3. call' = [call EXCEPT ![c] = row]
  BY <1>1 DEF CheckManagement
<1>4. change \in ChangesOf(call[c].op.name) /\ call[c].at = "allowed"
  BY DEF CheckManagement
<1>5. call[c].op.name # "access.policy.update"
  BY <1>4 DEF ChangesOf
<1>6. ~call[c].effect /\ ~call[c].logged
  BY <1>4 DEF StaffInv, CallStands, IsLogged
<1> HIDE DEF row
<1>7. CallStands(row)
  BY <1>2, <1>4, <1>5, <1>6
     DEF CallStands, InOrder, PageIsOld, RolesStand, IsLogged, EditsPolicy
<1> QED  BY <1>2, <1>3, <1>7, OneCallMoves DEF CheckManagement

LEMMA ValidateRolesKeeps ==
  ASSUME StaffInv, NEW c \in Calls, ValidateRoles(c)
  PROVE  StaffInv'
<1> DEFINE row == [call[c] EXCEPT !.at = "locked"]
<1>1. call \in [Calls -> CallRow] /\ call[c] \in CallRow
  BY DEF StaffInv, StaffTyped
<1>2. /\ row \in CallRow /\ row.at = "locked" /\ row.change = call[c].change
      /\ row.op = call[c].op /\ row.effect = call[c].effect /\ row.logged = call[c].logged
  BY <1>1 DEF CallRow
<1>3. call' = [call EXCEPT ![c] = row]
  BY <1>1 DEF ValidateRoles
<1>4. /\ call[c].at = "checked" /\ call[c].change.byId /\ ~PolicyLocked
      /\ call[c].change.roles \subseteq Existing(policy.grants)
  BY DEF ValidateRoles
<1>5. /\ ~EditsPolicy(call[c]) /\ call[c].change \in ChangesOf(call[c].op.name)
      /\ ~call[c].effect /\ ~call[c].logged
  BY <1>4 DEF StaffInv, CallStands, InOrder, IsLogged
<1> HIDE DEF row
<1>6. CallStands(row)
  BY <1>2, <1>4, <1>5
     DEF CallStands, InOrder, PageIsOld, RolesStand, IsLogged, EditsPolicy
<1> QED  BY <1>2, <1>3, <1>4, <1>6, OneCallMoves DEF ValidateRoles

LEMMA OpenPolicyPageKeeps ==
  ASSUME StaffInv, NEW c \in Calls, OpenPolicyPage(c)
  PROVE  StaffInv'
<1> DEFINE row == [call[c] EXCEPT !.at = "page", !.page = policy]
<1>1. call \in [Calls -> CallRow] /\ call[c] \in CallRow /\ policy \in PolicyShown
  BY DEF StaffInv, StaffTyped, PolicyShown
<1>2. /\ row \in CallRow /\ row.at = "page" /\ row.change = call[c].change
      /\ row.page = policy
      /\ row.op = call[c].op /\ row.effect = call[c].effect /\ row.logged = call[c].logged
  BY <1>1 DEF CallRow
<1>3. call' = [call EXCEPT ![c] = row]
  BY <1>1 DEF OpenPolicyPage
<1>4. /\ EditsPolicy(call[c])
      /\ ~call[c].change.byId /\ ~call[c].effect /\ ~call[c].logged
  BY DEF OpenPolicyPage, EditsPolicy, StaffInv, CallStands, InOrder, IsLogged
<1>5. OlderThan(policy, policy)
  BY StaffAssumption DEF OlderThan, StaffInv, StaffTyped, PolicyRow
<1> HIDE DEF row
<1>6. CallStands(row)
  BY <1>2, <1>4, <1>5
     DEF CallStands, InOrder, PageIsOld, RolesStand, IsLogged, EditsPolicy
<1> QED  BY <1>2, <1>3, <1>6, OneCallMoves DEF OpenPolicyPage

LEMMA SendPolicyKeeps ==
  ASSUME StaffInv, NEW c \in Calls, NEW role \in Roles, NEW grants \in Grants \cup {NoRole},
         SendPolicy(c, role, grants)
  PROVE  StaffInv'
<1> DEFINE edit == [call[c].page.grants EXCEPT ![role] = grants]
           row == [call[c] EXCEPT !.at = "begun", !.before = policy, !.edit = edit]
<1>1. call \in [Calls -> CallRow] /\ call[c] \in CallRow /\ policy \in PolicyShown
  BY DEF StaffInv, StaffTyped, PolicyShown
<1>2. edit \in GrantTable
  <2>1. call[c].page.grants \in GrantTable
    BY <1>1 DEF CallRow, PolicyShown
  <2>2. role \in StaffRoles => grants # NoRole
    BY DEF SendPolicy
  <2> QED  BY <2>1, <2>2 DEF GrantTable
<1> HIDE DEF edit
<1>3. /\ row \in CallRow /\ row.at = "begun" /\ row.change = call[c].change
      /\ row.page = call[c].page /\ row.before = policy
      /\ row.op = call[c].op /\ row.effect = call[c].effect /\ row.logged = call[c].logged
  BY <1>1, <1>2 DEF CallRow
<1>4. call' = [call EXCEPT ![c] = row]
  BY <1>1 DEF SendPolicy, edit
<1>5. /\ EditsPolicy(call[c]) /\ OlderThan(call[c].page, policy)
      /\ ~call[c].change.byId /\ ~call[c].effect /\ ~call[c].logged
  BY DEF SendPolicy, StaffInv, CallStands, InOrder, PageIsOld, IsLogged
<1>6. OlderThan(policy, policy) /\ call[c].page.revision <= policy.revision
  BY <1>5, StaffAssumption DEF OlderThan, StaffInv, StaffTyped, PolicyRow
<1> HIDE DEF row
<1>7. CallStands(row)
  BY <1>3, <1>5, <1>6
     DEF CallStands, InOrder, PageIsOld, RolesStand, IsLogged, EditsPolicy
<1> QED  BY <1>3, <1>4, <1>7, OneCallMoves DEF SendPolicy

LEMMA LockPolicyKeeps ==
  ASSUME StaffInv, NEW c \in Calls, LockPolicy(c)
  PROVE  StaffInv'
<1> DEFINE row == [call[c] EXCEPT !.at = "locked"]
<1>1. call \in [Calls -> CallRow] /\ call[c] \in CallRow
  BY DEF StaffInv, StaffTyped
<1>2. /\ row \in CallRow /\ row.at = "locked" /\ row.change = call[c].change
      /\ row.page = call[c].page /\ row.before = call[c].before /\ row.edit = call[c].edit
      /\ row.op = call[c].op /\ row.effect = call[c].effect /\ row.logged = call[c].logged
  BY <1>1 DEF CallRow
<1>3. call' = [call EXCEPT ![c] = row]
  BY <1>1 DEF LockPolicy
<1>4. /\ call[c].at = "begun" /\ ~PolicyLocked
      /\ policy.revision = call[c].page.revision /\ policy.revision <= MaxRevision
  BY DEF LockPolicy, RevisionStands
<1>5. /\ EditsPolicy(call[c])
      /\ OlderThan(call[c].page, policy) /\ OlderThan(call[c].before, policy)
      /\ call[c].page.revision <= call[c].before.revision
      /\ ~call[c].change.byId /\ ~call[c].effect /\ ~call[c].logged
  BY <1>4 DEF StaffInv, CallStands, InOrder, PageIsOld, IsLogged
<1>6. \A u \in Staff : account[u].roles \subseteq Existing(call[c].edit)
  <2>1. \A u \in Staff :
          /\ account[u].roles \subseteq Existing(policy.grants)
          /\ account[u].roles \cap (Existing(policy.grants) \ Existing(call[c].edit)) = {}
    BY DEF LockPolicy, StaffInv, RolesInUseExist
  <2> QED  BY <2>1
<1> HIDE DEF row
<1>7. CallStands(row)
  <2>1. InOrder(row) /\ IsLogged(row)
    BY <1>2, <1>5 DEF InOrder, IsLogged, EditsPolicy
  <2>2. PageIsOld(row)
    BY <1>2, <1>4, <1>5 DEF PageIsOld
  <2>3. RolesStand(row)
    BY <1>2, <1>5, <1>6 DEF RolesStand, EditsPolicy
  <2> QED  BY <2>1, <2>2, <2>3 DEF CallStands
<1> QED  BY <1>2, <1>3, <1>4, <1>7, OneCallMoves DEF LockPolicy

LEMMA SignInKeeps ==
  ASSUME StaffInv, NEW u \in Staff, SignIn(u)
  PROVE  StaffInv'
<1>1. account \in [Staff -> AccountRow] /\ account[u] \in AccountRow
  BY DEF StaffInv, StaffTyped
<1> DEFINE row == [account[u] EXCEPT !.signed = TRUE]
<1>2. row \in AccountRow /\ row.roles = account[u].roles
  BY <1>1 DEF AccountRow
<1>3. account' = [account EXCEPT ![u] = row]
  BY <1>1 DEF SignIn
<1> HIDE DEF row
<1>4. /\ account' \in [Staff -> AccountRow]
      /\ \A v \in Staff : account'[v].roles = account[v].roles
  BY <1>1, <1>2, <1>3
<1>5. StaffTyped' /\ RolesInUseExist'
  BY <1>4 DEF SignIn, StaffInv, StaffTyped, RolesInUseExist
<1>6. ASSUME NEW c \in Calls PROVE CallStands(call[c])'
  <2>1. CallStands(call[c]) /\ call' = call /\ policy' = policy
    BY DEF SignIn, StaffInv
  <2>2. InOrder(call[c])' /\ PageIsOld(call[c])' /\ IsLogged(call[c])'
    BY <2>1 DEF CallStands, InOrder, PageIsOld, IsLogged, EditsPolicy, OlderThan
  <2>3. RolesStand(call[c])'
    BY <1>4, <2>1 DEF CallStands, RolesStand, EditsPolicy
  <2> QED  BY <2>2, <2>3 DEF CallStands
<1> QED  BY <1>5, <1>6 DEF SignIn, StaffInv, OneHoldsPolicy

LEMMA BuiltInRolesExist ==
  ASSUME NEW grants \in GrantTable
  PROVE  StaffRoles \cap Roles \subseteq Existing(grants)
BY DEF GrantTable, Existing

(* What a change that was checked gives out, and to whom it leaves what. *)
LEMMA RolesGivenOut ==
  ASSUME StaffInv, NEW c \in Calls, NEW u \in Staff, NEW revokes \in BOOLEAN,
         call[c].at \in {"checked", "locked"}, ~EditsPolicy(call[c]),
         call[c].at = IF call[c].change.byId THEN "locked" ELSE "checked"
  PROVE  LET row == Changed(account[u], call[c].change, revokes)
         IN  /\ row \in AccountRow
             /\ \/ row.roles \subseteq account[u].roles
                \/ /\ call[c].at = "checked"
                   /\ row.roles \subseteq StaffRoles \cap Roles
                \/ /\ call[c].at = "locked"
                   /\ row.roles \subseteq Existing(policy.grants)
<1> DEFINE change == call[c].change
           row == Changed(account[u], change, revokes)
<1>1. call[c] \in CallRow /\ account[u] \in AccountRow
  BY DEF StaffInv, StaffTyped
<1>2. change \in Changes
  BY <1>1 DEF CallRow
<1>3. change \in ChangesOf(call[c].op.name)
  BY DEF StaffInv, CallStands, InOrder
<1>4. /\ change.status \in {"same", "active", "disabled", "absent"}
      /\ change.assigns \in BOOLEAN /\ change.byId \in BOOLEAN /\ change.roles \subseteq Roles
  BY <1>2 DEF Changes
<1>5. change.assigns /\ ~change.byId => change.roles \subseteq StaffRoles
  BY <1>3 DEF ChangesOf
<1>6. /\ row.roles = IF change.assigns THEN change.roles
                     ELSE IF change.status = "absent" THEN {} ELSE account[u].roles
      /\ row.status = IF change.status = "same" THEN account[u].status ELSE change.status
  BY DEF Changed
<1>7. row \in AccountRow
  <2>1. row.roles \in SUBSET Roles
    BY <1>1, <1>4, <1>6 DEF AccountRow
  <2>2. row.status \in {"absent", "active", "disabled"}
    BY <1>1, <1>4, <1>6 DEF AccountRow
  <2> QED  BY <2>1, <2>2 DEF AccountRow, Changed
<1>8. call[c].at = "locked" => change.roles \subseteq Existing(policy.grants)
  BY DEF StaffInv, CallStands, RolesStand
<1> HIDE DEF row, change
<1>9. CASE change.assigns /\ change.byId
  BY <1>6, <1>7, <1>8, <1>9 DEF row, change
<1>10. CASE change.assigns /\ ~change.byId
  <2>1. call[c].at = "checked"
    BY <1>10 DEF change
  <2>2. row.roles \subseteq StaffRoles \cap Roles
    BY <1>4, <1>5, <1>6, <1>10
  <2> QED  BY <1>7, <2>1, <2>2 DEF row, change
<1>11. CASE ~change.assigns
  <2>1. row.roles \subseteq account[u].roles
    BY <1>6, <1>11
  <2> QED  BY <1>7, <2>1 DEF row, change
<1> QED  BY <1>9, <1>10, <1>11

LEMMA CommitManagementKeeps ==
  ASSUME StaffInv, NEW c \in Calls, CommitManagement(c)
  PROVE  StaffInv'
<1> DEFINE u == call[c].target
           revokes == call[c].op.name = "session.revoke_all"
           row == Changed(account[u], call[c].change, revokes)
<1>1. /\ account \in [Staff -> AccountRow] /\ call \in [Calls -> CallRow]
      /\ call[c] \in CallRow
  BY DEF StaffInv, StaffTyped
<1>2. /\ u \in Staff /\ account' = [account EXCEPT ![u] = row]
      /\ policy' = policy /\ trail' = trail
      /\ call[c].at = IF call[c].change.byId THEN "locked" ELSE "checked"
  BY <1>1 DEF CommitManagement
<1>3. ~EditsPolicy(call[c]) /\ call[c].at \in {"checked", "locked"}
  BY <1>2 DEF StaffInv, CallStands, InOrder
<1>4. /\ row \in AccountRow
      /\ \/ row.roles \subseteq account[u].roles
         \/ call[c].at = "checked" /\ row.roles \subseteq StaffRoles \cap Roles
         \/ call[c].at = "locked" /\ row.roles \subseteq Existing(policy.grants)
  BY <1>2, <1>3, RolesGivenOut
<1>5. PICK done \in CallRow :
        /\ call' = [call EXCEPT ![c] = done]
        /\ done.at = "answer" /\ done.op = call[c].op /\ done.effect /\ done.logged
  BY SettledStands DEF StaffInv, CommitManagement
<1> HIDE DEF row, u
<1>6. /\ account' \in [Staff -> AccountRow] /\ account'[u] = row
      /\ \A v \in Staff \ {u} : account'[v] = account[v]
  BY <1>1, <1>2, <1>4
<1>7. call' \in [Calls -> CallRow] /\ call'[c] = done
      /\ \A d \in Calls \ {c} : call'[d] = call[d]
  BY <1>1, <1>5
<1>8. StaffTyped'
  BY <1>2, <1>6, <1>7 DEF StaffInv, StaffTyped
<1>9. RolesInUseExist'
  <2>1. StaffRoles \cap Roles \subseteq Existing(policy.grants)
    BY BuiltInRolesExist DEF StaffInv, StaffTyped
  <2>2. row.roles \subseteq Existing(policy.grants)
    BY <1>2, <1>4, <2>1 DEF StaffInv, RolesInUseExist
  <2> QED  BY <1>2, <1>6, <2>2 DEF StaffInv, RolesInUseExist
<1>10. ASSUME NEW d \in Calls \ {c} PROVE CallStands(call[d])'
  <2>1. CallStands(call[d]) /\ call'[d] = call[d]
    BY <1>7 DEF StaffInv
  <2>2. InOrder(call[d])' /\ PageIsOld(call[d])' /\ IsLogged(call[d])'
    BY <1>2, <2>1 DEF CallStands, InOrder, PageIsOld, IsLogged, EditsPolicy, OlderThan
  <2>3. ASSUME call[d].at = "locked", EditsPolicy(call[d])
        PROVE  \A v \in Staff : account'[v].roles \subseteq Existing(call[d].edit)
    <3>1. call[c].at # "locked"
      BY <2>3 DEF StaffInv, OneHoldsPolicy
    <3>2. \A v \in Staff : account[v].roles \subseteq Existing(call[d].edit)
      BY <2>1, <2>3 DEF CallStands, RolesStand
    <3>3. StaffRoles \cap Roles \subseteq Existing(call[d].edit)
      <4>1. call[d].edit \in GrantTable
        BY <1>1 DEF CallRow
      <4> QED  BY <4>1, BuiltInRolesExist
    <3>4. row.roles \subseteq Existing(call[d].edit)
      BY <1>2, <1>4, <3>1, <3>2, <3>3
    <3> QED  BY <1>6, <3>2, <3>4
  <2>4. ASSUME call[d].at = "locked", ~EditsPolicy(call[d])
        PROVE  call[d].change.roles \subseteq Existing(policy.grants)
    BY <2>1, <2>4 DEF CallStands, RolesStand
  <2>5. RolesStand(call[d])'
    BY <1>2, <2>1, <2>3, <2>4 DEF RolesStand, EditsPolicy
  <2> QED  BY <2>2, <2>5 DEF CallStands
<1>11. CallStands(call[c])'
  BY <1>5, <1>7 DEF CallStands, InOrder, PageIsOld, RolesStand, IsLogged, EditsPolicy
<1>12. OneHoldsPolicy'
  BY <1>5, <1>7 DEF StaffInv, OneHoldsPolicy
<1> QED
  BY <1>2, <1>8, <1>9, <1>10, <1>11, <1>12 DEF StaffInv

LEMMA RevisionsAreNumbers ==
  ASSUME NEW shown \in PolicyRow \cup {NoPolicy}
  PROVE  shown.revision \in Nat
BY StaffAssumption DEF PolicyRow, NoPolicy

(* Who holds the policy edits the policy the page showed, and its rows     *)
(* start from the policy in force.                                         *)
LEMMA PolicyIsAsShown ==
  ASSUME StaffInv, NEW c \in Calls, CommitPolicy(c)
  PROVE  /\ call[c].page = policy /\ call[c].before = policy
         /\ policy.revision \in 0..MaxRevision
<1>1. /\ PageIsOld(call[c]) /\ EditsPolicy(call[c]) /\ call[c].at = "locked"
      /\ call[c] \in CallRow
  BY DEF StaffInv, StaffTyped, CallStands, CommitPolicy, EditsPolicy
<1>2. /\ OlderThan(call[c].page, policy) /\ OlderThan(call[c].before, policy)
      /\ call[c].page.revision <= call[c].before.revision
      /\ call[c].page.revision = policy.revision /\ policy.revision <= MaxRevision
  BY <1>1 DEF PageIsOld
<1>3. call[c].before.revision \in Nat /\ policy.revision \in Nat
  <2>1. call[c].before \in PolicyRow \cup {NoPolicy} /\ policy \in PolicyRow
    BY <1>1 DEF CallRow, PolicyShown, StaffInv, StaffTyped
  <2> QED  BY <2>1, RevisionsAreNumbers
<1> QED  BY <1>2, <1>3, StaffAssumption DEF OlderThan

LEMMA CommitPolicyKeeps ==
  ASSUME StaffInv, NEW c \in Calls, CommitPolicy(c)
  PROVE  StaffInv'
<1> DEFINE edit == call[c].edit
<1>1. /\ call \in [Calls -> CallRow] /\ call[c] \in CallRow
      /\ edit \in GrantTable /\ policy.grants \in GrantTable
  BY DEF StaffInv, StaffTyped, CallRow
<1>2. /\ call[c].at = "locked" /\ EditsPolicy(call[c])
      /\ policy' = [revision |-> policy.revision + 1, grants |-> edit]
      /\ account' = account
  BY DEF CommitPolicy, EditsPolicy
<1>3. call[c].before = policy /\ policy.revision \in 0..MaxRevision
  BY PolicyIsAsShown
<1>4. trail' = policy'.grants
  <2>1. trail' = [role \in Roles |-> IF policy.grants[role] # edit[role]
                                     THEN edit[role] ELSE policy.grants[role]]
    BY <1>3 DEF CommitPolicy, StaffInv
  <2>2. edit = [role \in Roles |-> edit[role]]
    BY <1>1 DEF GrantTable
  <2> HIDE DEF edit
  <2>3. trail' = [role \in Roles |-> edit[role]]
    BY <2>1
  <2> QED  BY <1>2, <2>2, <2>3
<1>5. PICK done \in CallRow :
        /\ call' = [call EXCEPT ![c] = done]
        /\ done.at = "answer" /\ done.op = call[c].op /\ done.effect /\ done.logged
  BY SettledStands DEF StaffInv, CommitPolicy
<1>6. call' \in [Calls -> CallRow] /\ call'[c] = done
      /\ \A d \in Calls \ {c} : call'[d] = call[d]
  BY <1>1, <1>5
<1>7. StaffTyped'
  <2>1. policy' \in PolicyRow
    BY <1>1, <1>2, <1>3, StaffAssumption DEF PolicyRow, GrantTable
  <2> QED  BY <1>1, <1>2, <1>6, <2>1 DEF StaffInv, StaffTyped
<1>8. RolesInUseExist'
  <2>1. \A u \in Staff : account[u].roles \subseteq Existing(edit)
    BY <1>2 DEF StaffInv, CallStands, RolesStand
  <2> QED  BY <1>2, <2>1 DEF RolesInUseExist
<1>9. ASSUME NEW d \in Calls \ {c} PROVE CallStands(call[d])'
  <2>1. CallStands(call[d]) /\ call'[d] = call[d] /\ call[d] \in CallRow
    BY <1>1, <1>6 DEF StaffInv
  <2>2. call[d].at # "locked"
    BY <1>2 DEF StaffInv, OneHoldsPolicy
  <2>3. InOrder(call[d])' /\ RolesStand(call[d])' /\ IsLogged(call[d])'
    BY <2>1, <2>2 DEF CallStands, InOrder, RolesStand, IsLogged, EditsPolicy
  <2>4. ASSUME NEW shown \in PolicyShown, OlderThan(shown, policy)
        PROVE  OlderThan(shown, policy')
    <3>1. shown.revision \in Nat
      BY RevisionsAreNumbers DEF PolicyShown
    <3> QED  BY <1>2, <1>3, <2>4, <3>1 DEF OlderThan
  <2>5. call[d].page \in PolicyShown /\ call[d].before \in PolicyShown
    BY <2>1 DEF CallRow
  <2>6. PageIsOld(call[d])'
    <3>1. PageIsOld(call[d])
      BY <2>1 DEF CallStands
    <3>2. ASSUME EditsPolicy(call[d]), call[d].at \in {"page", "begun"}
          PROVE  OlderThan(call[d].page, policy')
      BY <2>4, <2>5, <3>1, <3>2 DEF PageIsOld
    <3>3. ASSUME EditsPolicy(call[d]), call[d].at = "begun"
          PROVE  OlderThan(call[d].before, policy')
                   /\ call[d].page.revision <= call[d].before.revision
      BY <2>4, <2>5, <3>1, <3>3 DEF PageIsOld
    <3> QED  BY <2>1, <2>2, <3>2, <3>3 DEF PageIsOld, EditsPolicy, OlderThan
  <2> QED  BY <2>3, <2>6 DEF CallStands
<1>10. CallStands(call[c])'
  BY <1>5, <1>6 DEF CallStands, InOrder, PageIsOld, RolesStand, IsLogged, EditsPolicy
<1>11. OneHoldsPolicy'
  BY <1>5, <1>6 DEF StaffInv, OneHoldsPolicy
<1> QED
  BY <1>4, <1>7, <1>8, <1>9, <1>10, <1>11 DEF StaffInv

LEMMA StaffInitKeeps == StaffInit => StaffInv
<1> SUFFICES ASSUME StaffInit PROVE StaffInv
  OBVIOUS
<1>1. /\ policy = [revision |-> 1, grants |-> DefaultGrants] /\ trail = DefaultGrants
      /\ account = [u \in Staff |-> [status |-> "absent", roles |-> {}, signed |-> FALSE]]
      /\ call = [c \in Calls |-> IdleCall]
  BY DEF StaffInit
<1>2. policy.revision = 1 /\ policy.grants = DefaultGrants
  BY <1>1
<1>3. DefaultGrants \in GrantTable
  BY GrantsAreRoles
<1>4. StaffTyped
  <2>1. policy \in PolicyRow
    BY <1>1, <1>3, StaffAssumption DEF PolicyRow, GrantTable
  <2>2. account \in [Staff -> AccountRow]
    BY <1>1 DEF AccountRow
  <2>3. call \in [Calls -> CallRow]
    BY <1>1, IdleCallStands
  <2> QED  BY <1>2, <1>3, <2>1, <2>2, <2>3 DEF StaffTyped
<1>5. \A c \in Calls : call[c] = IdleCall
  BY <1>1
<1>6. (\A c \in Calls : CallStands(call[c])) /\ OneHoldsPolicy
  BY <1>5, IdleCallStands DEF OneHoldsPolicy
<1>7. RolesInUseExist
  BY <1>1 DEF RolesInUseExist
<1> QED  BY <1>1, <1>2, <1>4, <1>6, <1>7 DEF StaffInv

LEMMA StaffStepKeeps ==
  ASSUME StaffInv, [StaffNext]_staffVars
  PROVE  StaffInv'
<1>1. ASSUME NEW c \in Calls, ManagingCall(c) PROVE StaffInv'
  BY <1>1, CheckManagementKeeps, ValidateRolesKeeps, CommitManagementKeeps,
     OpenPolicyPageKeeps, SendPolicyKeeps, LockPolicyKeeps, CommitPolicyKeeps
  DEF ManagingCall
<1>2. CASE UNCHANGED staffVars
  <2>1. policy' = policy /\ account' = account /\ trail' = trail /\ call' = call
    BY <1>2 DEF staffVars
  <2>2. \A c \in Calls : CallStands(call[c])'
    BY <2>1 DEF StaffInv, CallStands, InOrder, PageIsOld, RolesStand, IsLogged,
                EditsPolicy, OlderThan
  <2> QED
    BY <2>1, <2>2 DEF StaffInv, StaffTyped, OneHoldsPolicy, RolesInUseExist
<1> QED
  BY <1>1, <1>2, SignInKeeps, ArriveKeeps, OrdinaryCallKeeps DEF StaffNext

LEMMA StaffInvHolds == StaffSpec => []StaffInv
BY StaffInitKeeps, StaffStepKeeps, PTL DEF StaffSpec

(* Policies, accounts and calls keep their types (staff_access_policy,     *)
(* staff_users).                                                           *)
THEOREM StaffTyping == StaffSpec => []StaffTypeOK
<1>1. StaffInv => StaffTypeOK
  <2> SUFFICES ASSUME StaffInv PROVE StaffTypeOK
    OBVIOUS
  <2>1. ASSUME NEW c \in Calls
        PROVE  /\ call[c].at \in {"idle", "denied", "allowed", "page", "begun", "checked",
                                  "locked", "answer"}
               /\ call[c].actor \in Staff \cup {Owner}
               /\ \E op \in AdminRoutes : call[c].op \in {op, [op EXCEPT !.kind = "read"]}
               /\ call[c].target \in Staff \cup {Owner} /\ call[c].change \in Changes
               /\ {call[c].page, call[c].before} \subseteq PolicyRow \cup {NoPolicy}
               /\ call[c].effect \in BOOLEAN /\ call[c].logged \in BOOLEAN
    <3>1. call[c] \in CallRow
      BY DEF StaffInv, StaffTyped
    <3>2. call[c].op \in Operations
      BY <3>1 DEF CallRow
    <3>3. \E op \in AdminRoutes : call[c].op \in {op, [op EXCEPT !.kind = "read"]}
      BY <3>2 DEF Operations
    <3> QED  BY <3>1, <3>3 DEF CallRow, PolicyShown
  <2> QED  BY <2>1 DEF StaffInv, StaffTyped, StaffTypeOK
<1> QED  BY <1>1, StaffInvHolds, PTL

(* A role somebody has is a role the policy knows, whatever is given out,  *)
(* edited and deleted at once (validateAccessRoleIds, updateAccessPolicy). *)
THEOREM RolesInUseExistHolds == StaffSpec => []RolesInUseExist
<1>1. StaffInv => RolesInUseExist
  BY DEF StaffInv
<1> QED  BY <1>1, StaffInvHolds, PTL

(* An edit replaces the policy its page showed and no newer one, and the   *)
(* rows of the trail add up to the policy in force (updateAccessPolicy).   *)
THEOREM PolicyEditsAreNotLostHolds == StaffSpec => PolicyEditsAreNotLost
<1> DEFINE AsShown ==
      policy' # policy => \E c \in Calls : call[c].at = "locked" /\ call[c].page = policy
<1>1. StaffInv => trail = policy.grants
  BY DEF StaffInv
<1>2. StaffInv /\ [StaffNext]_staffVars => AsShown
  <2> SUFFICES ASSUME StaffInv, [StaffNext]_staffVars, policy' # policy
               PROVE  \E c \in Calls : call[c].at = "locked" /\ call[c].page = policy
    OBVIOUS
  <2>1. PICK c \in Calls : OrdinaryCall(c) \/ ManagingCall(c)
    BY DEF StaffNext, staffVars, SignIn, Arrive
  <2>2. ~OrdinaryCall(c)
    BY DEF OrdinaryCall, RecordDenial, BreakCall, End, AnswerRead, LogDisclosure, Disclose,
           CommitChange, Announce, LogAnnouncement, Answer, Note
  <2>3. CommitPolicy(c)
    BY <2>1, <2>2
    DEF ManagingCall, CheckManagement, ValidateRoles, CommitManagement, OpenPolicyPage,
        SendPolicy, LockPolicy, Note, End, BreakCall
  <2> QED  BY <2>3, PolicyIsAsShown DEF CommitPolicy
<1>3. PolicyEditsAreNotLost <=> [](trail = policy.grants) /\ [][AsShown]_staffVars
  BY DEF PolicyEditsAreNotLost
<1> HIDE DEF AsShown
<1> QED  BY <1>1, <1>2, <1>3, StaffInvHolds, PTL DEF StaffSpec

(* However a call ends, what it did is in the trail, and the trail says    *)
(* nothing it did not do (adminTransactions.run with audit.record in it).  *)
THEOREM AuditTellsTheTruthHolds == StaffSpec => AuditTellsTheTruth
<1> DEFINE Told ==
      \A c \in Calls : call[c] # IdleCall /\ call'[c] = IdleCall =>
        /\ call[c].effect => call[c].logged \/ Kind(c) = "announcement"
        /\ call[c].logged => call[c].effect \/ Kind(c) = "disclosure"
<1>1. StaffInv /\ [StaffNext]_staffVars => Told
  BY DEF StaffInv, CallStands, IsLogged, Kind
<1>2. AuditTellsTheTruth <=> [][Told]_staffVars
  BY DEF AuditTellsTheTruth
<1> HIDE DEF Told
<1> QED  BY <1>1, <1>2, StaffInvHolds, PTL DEF StaffSpec

-----------------------------------------------------------------------------
(* Campaigns.  The gate is passed before the transaction, and the version  *)
(* may be published by another request meanwhile; the condition of the     *)
(* update lets one of them through.                                        *)

VersionRow == [status    : {"draft", "published"},
               approvals : SUBSET ApprovalRoles,
               by        : Publications \cup {"none"}]

PublicationRow ==
  [at : {"ready", "gated", "done", "refused"}, version : Versions \cup {"none"},
   approvals : SUBSET ApprovalRoles]

ReaderRow ==
  [at : {"away", "campaign", "version", "shown", "null"},
   locale : Locales \cup {"none"}, version : Versions \cup {"none"}]

GatedPassed ==
  \A p \in Publications : publication[p].at = "gated" =>
    /\ publication[p].version \in Versions
    /\ PublishGate(publication[p].version, publication[p].approvals)

(* What the campaign points to was approved, by whom it says. *)
PublishedIsApproved ==
  published.status = "active" =>
    LET row == version[published.version]
    IN  /\ published.version \in Versions
        /\ row.status = "published" /\ row.by \in Publications
        /\ PublishGate(published.version, row.approvals)
        /\ publication[row.by].at = "done" => publication[row.by].approvals = row.approvals

ReadersFindVersions ==
  \A r \in Readers : reader[r].at \in {"campaign", "version"} =>
    /\ reader[r].version \in Versions
    /\ version[reader[r].version].status = "published"

CampaignInv ==
  /\ CampaignTypeOK
  /\ GatedPassed /\ PublishedIsApproved /\ ReadersFindVersions

LEMMA CampaignRows ==
  ASSUME CampaignTypeOK
  PROVE  /\ version \in [Versions -> VersionRow]
         /\ publication \in [Publications -> PublicationRow]
         /\ reader \in [Readers -> ReaderRow]
BY DEF CampaignTypeOK, VersionRow, PublicationRow, ReaderRow

(* A request that is no longer on its way, or has just passed the gate. *)
LEMMA PublicationMoves ==
  ASSUME CampaignInv, NEW p \in Publications, NEW row \in PublicationRow,
         publication' = [publication EXCEPT ![p] = row], row.at # "done",
         row.at = "gated" => row.version \in Versions /\ PublishGate(row.version, row.approvals),
         UNCHANGED <<version, published, reader>>
  PROVE  CampaignInv'
<1>1. publication \in [Publications -> PublicationRow]
  BY CampaignRows DEF CampaignInv
<1>2. /\ publication' \in [Publications -> PublicationRow] /\ publication'[p] = row
      /\ \A q \in Publications \ {p} : publication'[q] = publication[q]
  BY <1>1
<1>3. CampaignTypeOK'
  BY <1>2 DEF CampaignInv, CampaignTypeOK, PublicationRow
<1>4. GatedPassed'
  BY <1>2 DEF CampaignInv, GatedPassed, PublishGate
<1>5. PublishedIsApproved'
  BY <1>2 DEF CampaignInv, PublishedIsApproved
<1> QED  BY <1>3, <1>4, <1>5 DEF CampaignInv, ReadersFindVersions

LEMMA GateKeepsPublications ==
  ASSUME CampaignInv, NEW p \in Publications, NEW v \in Versions, NEW approvals \in SignOffs,
         GatePublication(p, v, approvals)
  PROVE  CampaignInv'
<1> DEFINE outcome == IF version[v].status = "draft" /\ PublishGate(v, approvals)
                      THEN "gated" ELSE "refused"
           row == [at |-> outcome, version |-> v, approvals |-> approvals]
<1>1. row \in PublicationRow
  BY CampaignAssumption DEF PublicationRow
<1>2. /\ row.at # "done" /\ row.version = v /\ row.approvals = approvals
      /\ row.at = "gated" => PublishGate(v, approvals)
  OBVIOUS
<1>3. publication' = [publication EXCEPT ![p] = row] /\ UNCHANGED <<version, published, reader>>
  BY DEF GatePublication
<1> HIDE DEF row
<1> QED  BY <1>1, <1>2, <1>3, PublicationMoves

LEMMA PublishVersionKeeps ==
  ASSUME CampaignInv, NEW p \in Publications, PublishVersion(p)
  PROVE  CampaignInv'
<1> DEFINE v == publication[p].version
<1>1. /\ version \in [Versions -> VersionRow] /\ publication \in [Publications -> PublicationRow]
      /\ publication[p] \in PublicationRow
  BY CampaignRows DEF CampaignInv
<1>2. v \in Versions /\ PublishGate(v, publication[p].approvals)
  BY DEF CampaignInv, GatedPassed, PublishVersion
<1>3. CASE ~StillDraft(v)
  <2> DEFINE row == [publication[p] EXCEPT !.at = "refused"]
  <2>1. row \in PublicationRow /\ row.at = "refused"
    BY <1>1 DEF PublicationRow
  <2>2. publication' = [publication EXCEPT ![p] = row]
        /\ UNCHANGED <<version, published, reader>>
    BY <1>1, <1>3 DEF PublishVersion
  <2> HIDE DEF row
  <2> QED  BY <2>1, <2>2, PublicationMoves
<1>4. CASE StillDraft(v)
  <2> DEFINE row == [publication[p] EXCEPT !.at = "done"]
             new == [status |-> "published", approvals |-> publication[p].approvals, by |-> p]
             shown == [version |-> v, status |-> "active"]
  <2>1. row \in PublicationRow /\ row.at = "done" /\ row.approvals = publication[p].approvals
    BY <1>1 DEF PublicationRow
  <2>2. new \in VersionRow /\ new.status = "published" /\ new.by = p
        /\ new.approvals = publication[p].approvals
    BY <1>1 DEF PublicationRow, VersionRow
  <2>3. shown \in [version : Versions \cup {"none"}, status : {"draft", "active"}]
        /\ shown.version = v
    BY <1>2
  <2>4. /\ publication' = [publication EXCEPT ![p] = row]
        /\ version' = [version EXCEPT ![v] = new]
        /\ published' = shown /\ reader' = reader
    BY <1>1, <1>4 DEF PublishVersion
  <2> HIDE DEF row, new, shown, v
  <2>5. /\ publication' \in [Publications -> PublicationRow] /\ publication'[p] = row
        /\ \A q \in Publications \ {p} : publication'[q] = publication[q]
        /\ version' \in [Versions -> VersionRow] /\ version'[v] = new
        /\ \A w \in Versions \ {v} : version'[w] = version[w]
    BY <1>1, <1>2, <2>1, <2>2, <2>4
  <2>6. CampaignTypeOK'
    BY <2>3, <2>4, <2>5 DEF CampaignInv, CampaignTypeOK, PublicationRow, VersionRow
  <2>7. GatedPassed'
    BY <2>1, <2>5 DEF CampaignInv, GatedPassed, PublishGate
  <2>8. PublishedIsApproved'
    <3>1. RequiredApprovals \subseteq new.approvals
      BY <1>2, <2>2 DEF PublishGate
    <3> QED  BY <1>2, <2>1, <2>2, <2>3, <2>4, <2>5, <3>1 DEF PublishedIsApproved
  <2>9. ReadersFindVersions'
    BY <2>2, <2>4, <2>5 DEF CampaignInv, ReadersFindVersions
  <2> QED  BY <2>6, <2>7, <2>8, <2>9 DEF CampaignInv
<1> QED  BY <1>3, <1>4

LEMMA BreakPublicationKeeps ==
  ASSUME CampaignInv, NEW p \in Publications, BreakPublication(p)
  PROVE  CampaignInv'
<1>1. Unsent \in PublicationRow /\ Unsent.at = "ready"
  BY DEF Unsent, PublicationRow
<1> QED  BY <1>1, PublicationMoves DEF BreakPublication

(* A reader who found the campaign found a version that stays published. *)
LEMMA ReaderMoves ==
  ASSUME CampaignInv, NEW r \in Readers, NEW row \in ReaderRow,
         reader' = [reader EXCEPT ![r] = row],
         row.at \in {"campaign", "version"} =>
           row.version \in Versions /\ version[row.version].status = "published",
         UNCHANGED <<version, published, publication>>
  PROVE  CampaignInv'
<1>1. reader \in [Readers -> ReaderRow]
  BY CampaignRows DEF CampaignInv
<1>2. /\ reader' \in [Readers -> ReaderRow] /\ reader'[r] = row
      /\ \A q \in Readers \ {r} : reader'[q] = reader[q]
  BY <1>1
<1>3. CampaignTypeOK'
  BY <1>2 DEF CampaignInv, CampaignTypeOK, ReaderRow
<1>4. ReadersFindVersions'
  BY <1>2 DEF CampaignInv, ReadersFindVersions
<1> QED  BY <1>3, <1>4 DEF CampaignInv, GatedPassed, PublishedIsApproved, PublishGate

LEMMA ReadCampaignKeeps ==
  ASSUME CampaignInv, NEW r \in Readers, NEW l \in Locales, ReadCampaign(r, l)
  PROVE  CampaignInv'
<1> DEFINE found == published.status = "active" /\ published.version # "none"
           row == [at |-> IF found THEN "campaign" ELSE "null",
                   locale |-> l, version |-> published.version]
<1>1. published.version \in Versions \cup {"none"}
  BY DEF CampaignInv, CampaignTypeOK
<1>2. row \in ReaderRow /\ row.version = published.version
      /\ (row.at \in {"campaign", "version"} => found)
  BY <1>1 DEF ReaderRow
<1>3. found => /\ published.version \in Versions
               /\ version[published.version].status = "published"
  BY DEF CampaignInv, PublishedIsApproved
<1>4. reader' = [reader EXCEPT ![r] = row] /\ UNCHANGED <<version, published, publication>>
  BY DEF ReadCampaign
<1> HIDE DEF row, found
<1> QED  BY <1>2, <1>3, <1>4, ReaderMoves

LEMMA ReadOnKeeps ==
  ASSUME CampaignInv, NEW r \in Readers, ReadVersion(r) \/ ReadContent(r)
  PROVE  CampaignInv'
<1>1. reader \in [Readers -> ReaderRow] /\ reader[r] \in ReaderRow
  BY CampaignRows DEF CampaignInv
<1>2. PICK next \in {"version", "shown", "null"} :
        reader' = [reader EXCEPT ![r].at = next] /\ UNCHANGED <<version, published, publication>>
  BY DEF ReadVersion, ReadContent
<1>3. reader[r].version \in Versions /\ version[reader[r].version].status = "published"
  BY DEF ReadVersion, ReadContent, CampaignInv, ReadersFindVersions
<1> DEFINE row == [reader[r] EXCEPT !.at = next]
<1>4. row \in ReaderRow /\ row.version = reader[r].version
  BY <1>1 DEF ReaderRow
<1>5. reader' = [reader EXCEPT ![r] = row]
  BY <1>1, <1>2
<1> HIDE DEF row
<1> QED  BY <1>2, <1>3, <1>4, <1>5, ReaderMoves

LEMMA CampaignInitKeeps == CampaignInit => CampaignInv
<1> SUFFICES ASSUME CampaignInit PROVE CampaignInv
  OBVIOUS
<1>1. Unsent.at = "ready" /\ Away.at = "away" /\ Unsent \in PublicationRow /\ Away \in ReaderRow
  BY DEF Unsent, Away, PublicationRow, ReaderRow
<1>2. CampaignTypeOK
  BY <1>1 DEF CampaignInit, CampaignTypeOK, PublicationRow, ReaderRow
<1>3. GatedPassed /\ PublishedIsApproved /\ ReadersFindVersions
  BY <1>1 DEF CampaignInit, GatedPassed, PublishedIsApproved, ReadersFindVersions
<1> QED  BY <1>2, <1>3 DEF CampaignInv

LEMMA CampaignStepKeeps ==
  ASSUME CampaignInv, [CampaignNext]_campaignVars
  PROVE  CampaignInv'
<1>1. CASE UNCHANGED campaignVars
  BY <1>1 DEF campaignVars, CampaignInv, CampaignTypeOK, GatedPassed, PublishedIsApproved,
              ReadersFindVersions, PublishGate
<1> QED
  BY <1>1, GateKeepsPublications, PublishVersionKeeps, BreakPublicationKeeps,
     ReadCampaignKeeps, ReadOnKeeps DEF CampaignNext

LEMMA CampaignInvHolds == CampaignSpec => []CampaignInv
BY CampaignInitKeeps, CampaignStepKeeps, PTL DEF CampaignSpec

(* What was published stands, the campaign points to a whole and approved  *)
(* version of itself, and who found the campaign is shown a version unless *)
(* it has no copy in their locale (publishVersion, getPublishedCampaign).  *)
THEOREM PublicationsStandHolds == CampaignSpec => PublicationsStand
<1> DEFINE Kept ==
      \A v \in Versions : version[v].status = "published" => version'[v] = version[v]
    Approved ==
      published.status = "active" =>
        LET row == version[published.version]
        IN  /\ row.status = "published"
            /\ PublishGate(published.version, row.approvals)
            /\ publication[row.by].at = "done" =>
                 publication[row.by].approvals = row.approvals
    Shown ==
      \A r \in Readers :
        reader[r].at \in {"campaign", "version"} /\ reader'[r].at = "null" =>
          Content[reader[r].version].copy[reader[r].locale] = "none"
<1>1. CampaignInv /\ [CampaignNext]_campaignVars => Kept
  <2> SUFFICES ASSUME CampaignInv, [CampaignNext]_campaignVars, NEW v \in Versions,
                      version[v].status = "published"
               PROVE  version'[v] = version[v]
    OBVIOUS
  <2>1. version \in [Versions -> VersionRow]
    BY CampaignRows DEF CampaignInv
  <2>2. version' = version \/ \E p \in Publications : PublishVersion(p)
    BY DEF CampaignNext, campaignVars, GatePublication, BreakPublication, ReadCampaign,
           ReadVersion, ReadContent
  <2> QED  BY <2>1, <2>2 DEF PublishVersion, StillDraft
<1>2. CampaignInv => Approved
  BY DEF CampaignInv, PublishedIsApproved
<1>3. CampaignInv /\ [CampaignNext]_campaignVars => Shown
  <2> SUFFICES ASSUME CampaignInv, [CampaignNext]_campaignVars, NEW r \in Readers,
                      reader[r].at \in {"campaign", "version"}, reader'[r].at = "null"
               PROVE  Content[reader[r].version].copy[reader[r].locale] = "none"
    OBVIOUS
  <2>1. reader \in [Readers -> ReaderRow]
    BY CampaignRows DEF CampaignInv
  <2>2. PICK q \in Readers :
          (\E l \in Locales : ReadCampaign(q, l)) \/ ReadVersion(q) \/ ReadContent(q)
    BY DEF CampaignNext, campaignVars, GatePublication, PublishVersion, BreakPublication
  <2>3. q = r
    BY <2>1, <2>2 DEF ReadCampaign, ReadVersion, ReadContent
  <2>4. version[reader[r].version].status = "published"
    BY DEF CampaignInv, ReadersFindVersions
  <2>5. CASE ReadVersion(r)
    BY <2>1, <2>4, <2>5 DEF ReadVersion, ReaderRow
  <2>6. CASE ReadContent(r)
    BY <2>1, <2>6 DEF ReadContent, ReaderRow
  <2> QED  BY <2>2, <2>3, <2>5, <2>6 DEF ReadCampaign
<1>4. PublicationsStand <=>
        [][Kept]_campaignVars /\ []Approved /\ [][Shown]_campaignVars
  BY DEF PublicationsStand
<1> HIDE DEF Kept, Approved, Shown
<1> QED  BY <1>1, <1>2, <1>3, <1>4, CampaignInvHolds, PTL DEF CampaignSpec

-----------------------------------------------------------------------------
(* Product identification.  Whether a product is recalled does not depend  *)
(* on which products a question is about, so that the answer about all of  *)
(* them is put together from the answers about each.                       *)

LEMMA RecalledByItself ==
  ASSUME NEW s, NEW signals, NEW statuses, NEW p \in RecalledProducts
  PROVE  p \in Recalled(s, {p}, signals, statuses)
           <=> p \in Recalled(s, RecalledProducts, signals, statuses)
<1>1. LotsOf(s, {p}, p, signals.code) = LotsOf(s, RecalledProducts, p, signals.code)
  BY DEF LotsOf, LotsIn
<1> QED  BY <1>1 DEF Recalled

LEMMA ManualByItself ==
  ASSUME NEW s, NEW signals
  PROVE  LegacyManual(s, RecalledProducts, signals)
           <=> \E p \in RecalledProducts : LegacyManual(s, {p}, signals)
<1>1. \A p \in RecalledProducts :
        Recalled(s, {p}, signals, {"manual_review"}) \subseteq {p}
  BY DEF Recalled
<1>2. Recalled(s, RecalledProducts, signals, {"manual_review"}) \subseteq RecalledProducts
  BY DEF Recalled
<1>3. \A p \in RecalledProducts :
        LegacyManual(s, {p}, signals)
          <=> p \in Recalled(s, RecalledProducts, signals, {"manual_review"})
  <2> TAKE p \in RecalledProducts
  <2>1. LegacyManual(s, {p}, signals) <=> p \in Recalled(s, {p}, signals, {"manual_review"})
    BY <1>1 DEF LegacyManual
  <2>2. p \in Recalled(s, {p}, signals, {"manual_review"})
          <=> p \in Recalled(s, RecalledProducts, signals, {"manual_review"})
    BY RecalledByItself
  <2> QED  BY <2>1, <2>2
<1> QED  BY <1>2, <1>3 DEF LegacyManual

(* What matches for one product is what matches for all and is its own. *)
LEMMA MatchedByItself ==
  ASSUME NEW s \in Snapshot, NEW mode, NEW signals, NEW p \in RecalledProducts
  PROVE  Matched(s, {p}, mode, signals) =
           {v \in Matched(s, RecalledProducts, mode, signals) : s.owner[v] = p}
<1> DEFINE statuses == {"affected", "manual_review"}
<1>1. ASSUME NEW v \in Variants, s.owner[v] = p
      PROVE  v \in Matched(s, {p}, mode, signals)
               <=> v \in Matched(s, RecalledProducts, mode, signals)
  <2>1. /\ v \in UNION {VariantsOf(s, q) : q \in {p}}
        /\ v \in UNION {VariantsOf(s, q) : q \in RecalledProducts}
    BY <1>1 DEF VariantsOf
  <2>2. s.owner[v] \in Recalled(s, {p}, signals, statuses)
          <=> s.owner[v] \in Recalled(s, RecalledProducts, signals, statuses)
    BY <1>1, RecalledByItself
  <2> QED  BY <2>1, <2>2 DEF Matched
<1>2. /\ \A v \in Matched(s, {p}, mode, signals) : v \in Variants /\ s.owner[v] = p
      /\ Matched(s, RecalledProducts, mode, signals) \subseteq Variants
  BY DEF Matched, VariantsOf
<1> QED  BY <1>1, <1>2

LEMMA MatchedVariants ==
  ASSUME NEW s, NEW scope, NEW mode, NEW signals
  PROVE  LET matched == Matched(s, scope, mode, signals)
         IN  /\ matched \subseteq Variants /\ \A v \in matched : s.owner[v] \in scope
             /\ IsFiniteSet(matched) /\ Cardinality(matched) \in Nat
             /\ Cardinality(matched) = 0 <=> matched = {}
             /\ Cardinality(matched) = 1 <=> \E v : matched = {v}
<1> DEFINE matched == Matched(s, scope, mode, signals)
<1>1. matched \subseteq Variants /\ \A v \in matched : s.owner[v] \in scope
  BY DEF Matched, VariantsOf
<1> HIDE DEF matched
<1>2. IsFiniteSet(matched)
  BY <1>1, IdentificationAssumption, FS_Subset
<1>3. /\ Cardinality(matched) \in Nat
      /\ Cardinality(matched) = 0 <=> matched = {}
  BY <1>2, FS_CardinalityType, FS_EmptySet
<1>4. Cardinality(matched) = 1 <=> \E v : matched = {v}
  BY <1>2, FS_Singleton
<1> QED  BY <1>1, <1>2, <1>3, <1>4 DEF matched

(* identify, by how many variants match. *)
LEMMA Identified ==
  ASSUME NEW s, NEW scope, NEW mode, NEW signals
  PROVE  LET manual  == LegacyManual(s, scope, signals)
             matched == Matched(s, scope, mode, signals)
             answer  == Identify(s, scope, mode, signals)
             blind   == mode # "product_identifiers" \/ HasNoSignals(signals)
         IN  /\ answer = "potential_match" <=> ~manual /\ Cardinality(matched) = 1
             /\ answer = "not_matched" <=> ~manual /\ matched = {} /\ ~blind
             /\ answer \in {"potential_match", "not_matched", "manual_review"}
             /\ answer # "manual_review" \/ manual \/ matched # {} \/ blind
<1> DEFINE manual == LegacyManual(s, scope, signals)
           matched == Matched(s, scope, mode, signals)
           n == Cardinality(matched)
           blind == mode # "product_identifiers" \/ HasNoSignals(signals)
           answer == Identify(s, scope, mode, signals)
<1>1. n \in Nat /\ (n = 0 <=> matched = {})
  BY MatchedVariants
<1>2. answer = CASE manual -> "manual_review"
                 [] ~manual /\ n > 1 -> "manual_review"
                 [] ~manual /\ n = 1 -> "potential_match"
                 [] ~manual /\ n = 0 -> IF blind THEN "manual_review" ELSE "not_matched"
  BY DEF Identify
<1> HIDE DEF manual, matched, n, blind, answer
<1>3. CASE manual
  <2>1. answer = "manual_review"
    BY <1>2, <1>3
  <2> QED  BY <1>3, <2>1 DEF manual, matched, answer, blind
<1>4. CASE ~manual /\ n > 1
  <2>1. answer = "manual_review" /\ n # 1 /\ n # 0
    BY <1>1, <1>2, <1>4
  <2> QED  BY <1>1, <2>1 DEF manual, matched, answer, blind, n
<1>5. CASE ~manual /\ n = 1
  <2>1. answer = "potential_match" /\ n # 0
    BY <1>1, <1>2, <1>5
  <2> QED  BY <1>1, <1>5, <2>1 DEF manual, matched, answer, blind, n
<1>6. CASE ~manual /\ n = 0
  <2>1. answer = IF blind THEN "manual_review" ELSE "not_matched"
    BY <1>1, <1>2, <1>6
  <2>2. matched = {} /\ n # 1
    BY <1>1, <1>6
  <2> QED  BY <1>6, <2>1, <2>2 DEF manual, matched, answer, blind, n
<1>7. n = 0 \/ n = 1 \/ n > 1
  BY <1>1
<1> QED  BY <1>3, <1>4, <1>5, <1>6, <1>7

(* A purchase trail is no signal to match by. *)
LEMMA BareMatches ==
  ASSUME NEW s, NEW scope, NEW mode, NEW signals \in Signals
  PROVE  LET bare == [signals EXCEPT !.evidence = "absent"]
         IN  /\ Matched(s, scope, mode, bare) = Matched(s, scope, mode, signals)
             /\ LegacyManual(s, scope, bare) <=> LegacyManual(s, scope, signals)
<1> DEFINE bare == [signals EXCEPT !.evidence = "absent"]
<1>1. /\ bare.attribute = signals.attribute /\ bare.code = signals.code
      /\ bare.identifiers = signals.identifiers
  BY DEF Signals
<1> HIDE DEF bare
<1>2. \A statuses : Recalled(s, scope, bare, statuses) = Recalled(s, scope, signals, statuses)
  BY <1>1 DEF Recalled, Asked
<1> QED  BY <1>1, <1>2 DEF Matched, LegacyManual, bare

(* What the answer about all products says of the answers about each, when *)
(* all are given the same signals.                                         *)
LEMMA SameSignalsAgree ==
  ASSUME NEW s \in Snapshot, NEW mode, NEW signals \in Signals
  PROVE  SaysTheSame(s, mode, signals, signals)
<1> DEFINE all == Identify(s, RecalledProducts, mode, signals)
           of(p) == Identify(s, {p}, mode, signals)
           matched == Matched(s, RecalledProducts, mode, signals)
           profile == EvidenceProfile(s, RecalledProducts, mode, signals)
<1>2. \A p \in RecalledProducts :
        Matched(s, {p}, mode, signals) = {v \in matched : s.owner[v] = p}
  BY MatchedByItself
<1>3. \A v \in matched : s.owner[v] \in RecalledProducts
  BY MatchedVariants
<1>4. matched = UNION {Matched(s, {p}, mode, signals) : p \in RecalledProducts}
  <2>1. \A v \in matched : \E p \in RecalledProducts : v \in Matched(s, {p}, mode, signals)
    BY <1>2, <1>3
  <2>2. \A p \in RecalledProducts : Matched(s, {p}, mode, signals) \subseteq matched
    BY <1>2
  <2> HIDE DEF matched
  <2> QED  BY <2>1, <2>2
<1>5. LegacyManual(s, RecalledProducts, signals)
        <=> \E p \in RecalledProducts : LegacyManual(s, {p}, signals)
  BY ManualByItself
<1>6. ASSUME ~LegacyManual(s, RecalledProducts, signals), Cardinality(matched) = 1
      PROVE  \E q \in RecalledProducts :
               /\ \A p \in RecalledProducts : of(p) = "potential_match" <=> p = q
               /\ ~LegacyManual(s, {q}, signals)
               /\ Cardinality(Matched(s, {q}, mode, signals)) = 1
  <2>1. PICK v : matched = {v}
    BY <1>6, MatchedVariants
  <2> DEFINE q == s.owner[v]
  <2>2. q \in RecalledProducts
    BY <1>3, <2>1
  <2>3. ASSUME NEW p \in RecalledProducts
        PROVE  of(p) = "potential_match" <=> p = q
    <3>1. Matched(s, {p}, mode, signals) = IF p = q THEN {v} ELSE {}
      BY <1>2, <2>1
    <3> DEFINE mine == Matched(s, {p}, mode, signals)
    <3>2. Cardinality(mine) = 1 <=> p = q
      <4>1. Cardinality(mine) = 1 <=> \E w : mine = {w}
        BY MatchedVariants
      <4>2. mine = IF p = q THEN {v} ELSE {}
        BY <3>1
      <4> HIDE DEF mine, q, matched, all, of, profile
      <4> QED  BY <4>1, <4>2
    <3>3. ~LegacyManual(s, {p}, signals)
      BY <1>5, <1>6
    <3> QED  BY <3>2, <3>3, Identified
  <2>4. ~LegacyManual(s, {q}, signals)
    BY <1>5, <1>6, <2>2
  <2>5. Cardinality(Matched(s, {q}, mode, signals)) = 1
    BY <2>2, <2>3, Identified
  <2> QED  BY <2>2, <2>3, <2>4, <2>5
<1>7. all = "potential_match" =>
        Cardinality({p \in RecalledProducts : of(p) = "potential_match"}) = 1
  <2> SUFFICES ASSUME all = "potential_match"
               PROVE  Cardinality({p \in RecalledProducts : of(p) = "potential_match"}) = 1
    OBVIOUS
  <2>1. ~LegacyManual(s, RecalledProducts, signals) /\ Cardinality(matched) = 1
    BY Identified
  <2>2. PICK q \in RecalledProducts :
          \A p \in RecalledProducts : of(p) = "potential_match" <=> p = q
    BY <1>6, <2>1
  <2>3. {p \in RecalledProducts : of(p) = "potential_match"} = {q}
    BY <2>2
  <2> HIDE DEF of
  <2> QED  BY <2>3, FS_Singleton
<1>8. profile # "manual_review" =>
        \E p \in RecalledProducts : EvidenceProfile(s, {p}, mode, signals) = profile
  <2> SUFFICES ASSUME profile # "manual_review"
               PROVE  \E p \in RecalledProducts :
                        EvidenceProfile(s, {p}, mode, signals) = profile
    OBVIOUS
  <2>1. ~LegacyManual(s, RecalledProducts, signals) /\ Cardinality(matched) = 1
    BY DEF EvidenceProfile
  <2>2. PICK q \in RecalledProducts :
          /\ ~LegacyManual(s, {q}, signals)
          /\ Cardinality(Matched(s, {q}, mode, signals)) = 1
    BY <1>6, <2>1
  <2> DEFINE kind == CASE mode = "product_identifiers" -> "identifier_match"
                       [] mode = "purchase_evidence"   -> "order_evidence"
                       [] mode = "unknown"             -> "manual_review"
  <2>3. profile = kind
    BY <2>1 DEF EvidenceProfile
  <2>4. EvidenceProfile(s, {q}, mode, signals) = kind
    BY <2>2 DEF EvidenceProfile
  <2> HIDE DEF profile, kind
  <2> QED  BY <2>3, <2>4
<1>9. all = "not_matched" <=> \A p \in RecalledProducts : of(p) = "not_matched"
  <2> DEFINE blind == mode # "product_identifiers" \/ HasNoSignals(signals)
  <2>1. matched = {} <=> \A p \in RecalledProducts : Matched(s, {p}, mode, signals) = {}
    <3> HIDE DEF matched
    <3> QED  BY <1>2, <1>3
  <2>2. all = "not_matched" <=>
          ~LegacyManual(s, RecalledProducts, signals) /\ matched = {} /\ ~blind
    BY Identified
  <2>3. \A p \in RecalledProducts : of(p) = "not_matched" <=>
          ~LegacyManual(s, {p}, signals) /\ Matched(s, {p}, mode, signals) = {} /\ ~blind
    BY Identified
  <2> HIDE DEF all, of, matched, blind
  <2> QED  BY <1>5, <2>1, <2>2, <2>3, IdentificationAssumption
<1> QED  BY <1>4, <1>5, <1>7, <1>8, <1>9 DEF SaysTheSame

LEMMA TrailMatchesNothing ==
  ASSUME NEW s, NEW scope, NEW mode, NEW signals \in Signals
  PROVE  LET all == Identify(s, scope, mode, signals)
             plain == Identify(s, scope, mode, [signals EXCEPT !.evidence = "absent"])
         IN  plain # all => {all, plain} = {"not_matched", "manual_review"}
<1> DEFINE bare == [signals EXCEPT !.evidence = "absent"]
           all == Identify(s, scope, mode, signals)
           plain == Identify(s, scope, mode, bare)
<1>1. /\ Matched(s, scope, mode, bare) = Matched(s, scope, mode, signals)
      /\ LegacyManual(s, scope, bare) <=> LegacyManual(s, scope, signals)
  BY BareMatches
<1>2. plain = "potential_match" <=> all = "potential_match"
  BY <1>1, Identified
<1>3. /\ plain \in {"potential_match", "not_matched", "manual_review"}
      /\ all \in {"potential_match", "not_matched", "manual_review"}
  BY Identified
<1> HIDE DEF plain, all
<1>4. plain # all => {all, plain} = {"not_matched", "manual_review"}
  BY <1>2, <1>3
<1> QED  BY <1>4 DEF plain, all

(* The contracts differ in padded fields only, which match no row: what is *)
(* recalled by a claim is recalled by a check.                             *)
LEMMA SignalsOfContracts ==
  ASSUME NEW sent \in Sent
  PROVE  LET asked == CheckSignals(sent)
             claimed == ClaimSignals(sent)
         IN  /\ asked \in Signals /\ claimed \in Signals
             /\ ~Padded(sent.attribute) /\ ~Padded(sent.code) => asked = claimed
             /\ claimed.identifiers = asked.identifiers /\ claimed.evidence = asked.evidence
             /\ claimed.attribute \in {asked.attribute, "no row's"}
             /\ claimed.code \in {asked.code, "no row's"}
<1> DEFINE attribute == sent.attribute
           code == sent.code
<1>1. attribute \in Typed(Attributes) /\ code \in Typed(Codes)
  BY DEF Sent
<1>2. /\ attribute[1] \in Attributes \cup {"none"}
      /\ code[1] \in Codes \cup {"none"}
  BY <1>1 DEF Typed
<1>3. /\ Untrimmed(attribute) = IF Padded(attribute) THEN "no row's" ELSE attribute[1]
      /\ Untrimmed(code) = IF Padded(code) THEN "no row's" ELSE code[1]
  BY DEF Untrimmed
<1>4. /\ CheckSignals(sent) = [sent EXCEPT !.attribute = attribute[1], !.code = code[1]]
      /\ ClaimSignals(sent) =
           [sent EXCEPT !.attribute = Untrimmed(attribute), !.code = Untrimmed(code)]
  BY DEF CheckSignals, ClaimSignals
<1> HIDE DEF attribute, code
<1>5. /\ Untrimmed(attribute) \in {attribute[1], "no row's"}
      /\ Untrimmed(code) \in {code[1], "no row's"}
      /\ ~Padded(attribute) => Untrimmed(attribute) = attribute[1]
      /\ ~Padded(code) => Untrimmed(code) = code[1]
  BY <1>3
<1>6. /\ Untrimmed(attribute) \in Attributes \cup {"none", "no row's"}
      /\ Untrimmed(code) \in Codes \cup {"none", "no row's"}
  BY <1>2, <1>5
<1>7. /\ CheckSignals(sent) \in Signals
      /\ CheckSignals(sent).attribute = attribute[1] /\ CheckSignals(sent).code = code[1]
      /\ CheckSignals(sent).identifiers = sent.identifiers
      /\ CheckSignals(sent).evidence = sent.evidence
  BY <1>2, <1>4 DEF Sent, Signals
<1>8. /\ ClaimSignals(sent) \in Signals
      /\ ClaimSignals(sent).attribute = Untrimmed(attribute)
      /\ ClaimSignals(sent).code = Untrimmed(code)
      /\ ClaimSignals(sent).identifiers = sent.identifiers
      /\ ClaimSignals(sent).evidence = sent.evidence
  BY <1>4, <1>6 DEF Sent, Signals
<1>9. ~Padded(attribute) /\ ~Padded(code) => CheckSignals(sent) = ClaimSignals(sent)
  BY <1>4, <1>5
<1> QED  BY <1>5, <1>7, <1>8, <1>9 DEF attribute, code

LEMMA ClaimsRecallLess ==
  ASSUME NEW s \in Snapshot, NEW sent \in Sent, NEW scope \in SUBSET RecalledProducts,
         NEW statuses
  PROVE  Recalled(s, scope, ClaimSignals(sent), statuses)
           \subseteq Recalled(s, scope, CheckSignals(sent), statuses)
<1> DEFINE asked == CheckSignals(sent)
           claimed == ClaimSignals(sent)
<1>1. /\ claimed.attribute \in {asked.attribute, "no row's"}
      /\ claimed.code \in {asked.code, "no row's"}
  BY SignalsOfContracts
<1> HIDE DEF asked, claimed
<1> SUFFICES ASSUME NEW p \in Recalled(s, scope, claimed, statuses)
             PROVE  p \in Recalled(s, scope, asked, statuses)
  BY DEF asked, claimed
<1>2. /\ p \in scope /\ Asked(claimed)
      /\ claimed.attribute \in s.attributes[p] \cup {"none"}
  BY DEF Recalled
<1>3. PICK lot \in LotsOf(s, scope, p, claimed.code) : lot[3] \in statuses
  BY DEF Recalled
<1>4. claimed.attribute # "no row's"
  <2>1. s.attributes[p] \subseteq Attributes
    BY <1>2 DEF Snapshot
  <2> QED  BY <1>2, <2>1, IdentificationAssumption
<1>5. claimed.code # "no row's"
  <2>1. lot \in s.lots /\ claimed.code \in {"none", lot[2]}
    BY <1>3 DEF LotsOf, LotsIn
  <2>2. lot[2] \in Codes
    BY <2>1 DEF Snapshot
  <2> QED  BY <2>1, <2>2, IdentificationAssumption
<1>6. claimed.attribute = asked.attribute /\ claimed.code = asked.code
  BY <1>1, <1>4, <1>5
<1> QED  BY <1>2, <1>3, <1>6 DEF Recalled, Asked

LEMMA TypedQuestionsAgree == IdentificationTypeOK => ClaimsAgreeWithChecks
<1> SUFFICES ASSUME IdentificationTypeOK PROVE ClaimsAgreeWithChecks
  OBVIOUS
<1>1. checked.snapshot \in Snapshot /\ checked.sent \in Sent
  BY DEF IdentificationTypeOK
<1> DEFINE s == checked.snapshot
           mode == checked.mode
           sent == checked.sent
           asked == CheckSignals(sent)
           claimed == ClaimSignals(sent)
           all == Identify(s, RecalledProducts, mode, asked)
           of(p) == Identify(s, {p}, mode, claimed)
           exact == ~Padded(sent.attribute) /\ ~Padded(sent.code)
<1>2. /\ asked \in Signals /\ claimed \in Signals
      /\ exact => asked = claimed
      /\ claimed.identifiers = asked.identifiers /\ claimed.evidence = asked.evidence
      /\ claimed.attribute \in {asked.attribute, "no row's"}
      /\ claimed.code \in {asked.code, "no row's"}
  BY <1>1, SignalsOfContracts
<1>3. \A scope \in SUBSET RecalledProducts : \A statuses :
        Recalled(s, scope, claimed, statuses) \subseteq Recalled(s, scope, asked, statuses)
  BY <1>1, ClaimsRecallLess
<1> HIDE DEF s, mode, sent, asked, claimed, exact
<1>4. s \in Snapshot
  BY <1>1 DEF s
<1>5. exact => SaysTheSame(s, mode, asked, claimed)
  BY <1>2, <1>4, SameSignalsAgree
<1>6. ASSUME NEW p \in RecalledProducts
      PROVE  /\ Matched(s, {p}, mode, claimed) \subseteq Matched(s, {p}, mode, asked)
             /\ Matched(s, {p}, mode, asked) \subseteq Matched(s, RecalledProducts, mode, asked)
  <2>1. Matched(s, {p}, mode, claimed) \subseteq Matched(s, {p}, mode, asked)
    BY <1>2, <1>3 DEF Matched
  <2>2. Matched(s, {p}, mode, asked) \subseteq Matched(s, RecalledProducts, mode, asked)
    BY <1>4, MatchedByItself
  <2> QED  BY <2>1, <2>2
<1>7. ASSUME NEW p \in RecalledProducts, LegacyManual(s, {p}, claimed)
      PROVE  LegacyManual(s, RecalledProducts, asked)
  <2>1. LegacyManual(s, {p}, asked)
    BY <1>3, <1>7 DEF LegacyManual
  <2> QED  BY <2>1, ManualByItself
<1>8. LegacyManual(s, RecalledProducts, asked) => all = "manual_review"
  BY Identified
<1>9. ASSUME NEW p \in RecalledProducts, all = "not_matched"
      PROVE  of(p) = "not_matched"
  <2>1. /\ ~LegacyManual(s, RecalledProducts, asked)
        /\ Matched(s, RecalledProducts, mode, asked) = {}
        /\ mode = "product_identifiers" /\ ~HasNoSignals(asked)
    BY <1>9, Identified
  <2>2. ~LegacyManual(s, {p}, claimed) /\ Matched(s, {p}, mode, claimed) = {}
    BY <1>6, <1>7, <2>1
  <2>3. ~HasNoSignals(claimed)
    <3>1. asked = [identifiers |-> asked.identifiers, attribute |-> asked.attribute,
                   code |-> asked.code, evidence |-> asked.evidence]
      BY <1>2 DEF Signals
    <3>2. claimed = NoSignals =>
            /\ claimed.identifiers = {} /\ claimed.evidence = "absent"
            /\ claimed.attribute = "none" /\ claimed.code = "none"
      BY DEF NoSignals
    <3>3. claimed = NoSignals =>
            /\ asked.identifiers = {} /\ asked.evidence = "absent"
            /\ asked.attribute = "none" /\ asked.code = "none"
      BY <1>2, <3>2
    <3>4. claimed = NoSignals => asked = NoSignals
      BY <3>1, <3>3 DEF NoSignals
    <3> QED  BY <2>1, <3>4 DEF HasNoSignals
  <2> QED  BY <2>1, <2>2, <2>3, Identified
<1>10. LET plain == Identify(s, RecalledProducts, mode, [asked EXCEPT !.evidence = "absent"])
       IN  plain # all => {all, plain} = {"not_matched", "manual_review"}
  BY <1>2, TrailMatchesNothing
<1> HIDE DEF all, of
<1>11. \A p \in RecalledProducts :
         /\ Matched(s, {p}, mode, claimed) \subseteq Matched(s, RecalledProducts, mode, asked)
         /\ LegacyManual(s, {p}, claimed) => all = "manual_review"
         /\ all = "not_matched" => of(p) = "not_matched"
  BY <1>6, <1>7, <1>8, <1>9
<1> QED
  BY <1>5, <1>10, <1>11
  DEF ClaimsAgreeWithChecks, s, mode, sent, asked, claimed, all, of, exact

LEMMA IdentificationTypeInvariant ==
  /\ IdentificationInit => IdentificationTypeOK
  /\ IdentificationTypeOK /\ [IdentificationNext]_checked => IdentificationTypeOK'
<1>1. IdentificationInit => IdentificationTypeOK
  <2>1. EmptySnapshot \in Snapshot
    BY DEF EmptySnapshot, Snapshot
  <2>2. NothingSent \in Sent
    BY DEF NothingSent, Sent, Typed
  <2> QED  BY <2>1, <2>2 DEF IdentificationInit, IdentificationTypeOK, Modes
<1>2. IdentificationTypeOK /\ [IdentificationNext]_checked => IdentificationTypeOK'
  <2> SUFFICES ASSUME IdentificationTypeOK, [IdentificationNext]_checked
               PROVE  IdentificationTypeOK'
    OBVIOUS
  <2>1. CASE checked' = checked
    BY <2>1 DEF IdentificationTypeOK
  <2>2. ASSUME NEW s \in Snapshots, NEW mode \in Modes, NEW sent \in Sent,
               NEW by \in {"check", "claim"}, Ask(by, s, mode, sent)
        PROVE  IdentificationTypeOK'
    BY <2>2, IdentificationAssumption DEF Ask, IdentificationTypeOK
  <2> QED  BY <2>1, <2>2 DEF IdentificationNext, CheckProduct, ClaimProduct
<1> QED  BY <1>1, <1>2

(* The question on record, the snapshot it was asked of and its answer are *)
(* typed in every reachable state, whichever endpoint was asked.           *)
THEOREM IdentificationTyping == IdentificationSpec => []IdentificationTypeOK
BY IdentificationTypeInvariant, PTL DEF IdentificationSpec

(* Of one version and of what was typed without blanks around it, a claim  *)
(* is told of each of its products what a check says of them all; with     *)
(* blanks, which only the contract of a check trims, the claim matches,    *)
(* and holds for review, no more than the check.  A purchase trail neither *)
(* makes a match nor takes one away (identify, deriveEvidenceProfile).     *)
THEOREM ClaimsAgreeWithChecksHolds == IdentificationSpec => []ClaimsAgreeWithChecks
BY IdentificationTyping, TypedQuestionsAgree, PTL

-----------------------------------------------------------------------------
(* Consumer accounts.  What is stored is normal, so that equal mailboxes   *)
(* are equal hashes, and the unique index is what keeps a mailbox to one   *)
(* account.                                                                *)

NormalAddresses == Mailboxes \X {"normal"}

TokenRow == [of : Accounts, status : {"active", "revoked", "expired"}] \cup {NoToken}

RegistrationRow ==
  [at : {"ready", "checked", "inserted"}, address : Addresses \cup {NoAddress},
   account : Accounts \cup {"none"}]

FiledRow == [address : Addresses, view : CaseView]

AccountsAreNormal ==
  /\ \A u \in Accounts : Registered(u) => consumer[u] \in NormalAddresses
  /\ \A r \in Registrations :
       /\ registration[r].at # "ready" => registration[r].address \in NormalAddresses
       /\ registration[r].at = "inserted" => registration[r].account \in Accounts
  /\ \A c \in Claims : filed[c] # NotFiled => filed[c].address \in NormalAddresses

OneAccountPerMailbox ==
  \A u, v \in Accounts :
    Registered(u) /\ Registered(v) /\ consumer[u][1] = consumer[v][1] => u = v

AccountInv == AccountTypeOK /\ AccountsAreNormal /\ OneAccountPerMailbox

LEMMA AccountRows ==
  ASSUME AccountTypeOK
  PROVE  /\ consumer \in [Accounts -> Addresses \cup {NoAddress}]
         /\ token \in [Tokens -> TokenRow]
         /\ registration \in [Registrations -> RegistrationRow]
         /\ filed \in [Claims -> FiledRow \cup {NotFiled}]
BY DEF AccountTypeOK, TokenRow, RegistrationRow, FiledRow

LEMMA NormalIsNormal ==
  ASSUME NEW address \in Addresses
  PROVE  /\ Normal(address) \in NormalAddresses
         /\ Normal(address) = <<address[1], "normal">>
BY DEF Normal, NormalAddresses, Addresses

LEMMA NormalParts ==
  ASSUME NEW address \in NormalAddresses
  PROVE  /\ address \in Addresses
         /\ address[1] \in Mailboxes /\ address = <<address[1], "normal">>
<1>1. PICK m \in Mailboxes : address = <<m, "normal">>
  BY DEF NormalAddresses
<1>2. address[1] = m
  BY <1>1
<1> QED  BY <1>1, <1>2 DEF Addresses, Spellings

(* A registration moves, and no account is made. *)
LEMMA RegistrationMoves ==
  ASSUME AccountInv, NEW r \in Registrations, NEW row \in RegistrationRow,
         registration' = [registration EXCEPT ![r] = row],
         row.at # "ready" => row.address \in NormalAddresses,
         row.at # "inserted",
         token' \in [Tokens -> TokenRow], UNCHANGED <<consumer, filed>>
  PROVE  AccountInv'
<1>1. registration \in [Registrations -> RegistrationRow]
  BY AccountRows DEF AccountInv
<1>2. /\ registration' \in [Registrations -> RegistrationRow] /\ registration'[r] = row
      /\ \A q \in Registrations \ {r} : registration'[q] = registration[q]
  BY <1>1
<1>3. AccountTypeOK'
  BY <1>2 DEF AccountInv, AccountTypeOK, RegistrationRow, TokenRow
<1>4. AccountsAreNormal'
  BY <1>2 DEF AccountInv, AccountsAreNormal, Registered
<1>5. OneAccountPerMailbox'
  BY DEF AccountInv, OneAccountPerMailbox, Registered
<1> QED  BY <1>3, <1>4, <1>5 DEF AccountInv

LEMMA NoRegistrationRow ==
  NoRegistration \in RegistrationRow /\ NoRegistration.at = "ready"
BY DEF NoRegistration, RegistrationRow

LEMMA TokensMove ==
  ASSUME AccountInv, token' \in [Tokens -> TokenRow],
         UNCHANGED <<consumer, registration, filed>>
  PROVE  AccountInv'
BY DEF AccountInv, AccountTypeOK, TokenRow, AccountsAreNormal, OneAccountPerMailbox, Registered

LEMMA IssuedToken ==
  ASSUME AccountInv, NEW t \in Tokens, NEW u \in Accounts, IssueSession(t, u)
  PROVE  token' \in [Tokens -> TokenRow]
<1>1. [of |-> u, status |-> "active"] \in TokenRow
  BY DEF TokenRow
<1>2. token \in [Tokens -> TokenRow]
  BY AccountRows DEF AccountInv
<1> QED  BY <1>1, <1>2 DEF IssueSession

LEMMA CheckAddressKeeps ==
  ASSUME AccountInv, NEW r \in Registrations, NEW address \in Addresses,
         CheckAddress(r, address)
  PROVE  AccountInv'
<1> DEFINE row == [at |-> "checked", address |-> Normal(address), account |-> "none"]
<1>1. Normal(address) \in NormalAddresses /\ Normal(address) \in Addresses
  BY NormalIsNormal, NormalParts
<1>2. row \in RegistrationRow /\ row.at = "checked" /\ row.address = Normal(address)
  BY <1>1 DEF RegistrationRow
<1>3. token \in [Tokens -> TokenRow]
  BY AccountRows DEF AccountInv
<1>4. registration' = [registration EXCEPT ![r] = row] /\ UNCHANGED <<consumer, token, filed>>
  BY DEF CheckAddress
<1> HIDE DEF row
<1> QED  BY <1>1, <1>2, <1>3, <1>4, RegistrationMoves

LEMMA InsertAccountKeeps ==
  ASSUME AccountInv, NEW r \in Registrations, NEW u \in Accounts, InsertAccount(r, u)
  PROVE  AccountInv'
<1> DEFINE address == registration[r].address
<1>1. /\ consumer \in [Accounts -> Addresses \cup {NoAddress}]
      /\ token \in [Tokens -> TokenRow]
      /\ registration \in [Registrations -> RegistrationRow]
      /\ registration[r] \in RegistrationRow
  BY AccountRows DEF AccountInv
<1>2. registration[r].at = "checked" /\ address \in NormalAddresses
  BY DEF InsertAccount, AccountInv, AccountsAreNormal
<1>3. CASE ~IndexAdmits(address)
  BY <1>1, <1>3, NoRegistrationRow, RegistrationMoves DEF InsertAccount
<1>4. CASE IndexAdmits(address)
  <2> DEFINE row == [registration[r] EXCEPT !.at = "inserted", !.account = u]
  <2>1. row \in RegistrationRow /\ row.address = address /\ row.account = u
    BY <1>1 DEF RegistrationRow
  <2>2. /\ registration' = [registration EXCEPT ![r] = row]
        /\ consumer' = [consumer EXCEPT ![u] = address] /\ token' = token /\ filed' = filed
    BY <1>1, <1>4 DEF InsertAccount
  <2> HIDE DEF row, address
  <2>3. /\ registration' \in [Registrations -> RegistrationRow] /\ registration'[r] = row
        /\ \A q \in Registrations \ {r} : registration'[q] = registration[q]
        /\ consumer'[u] = address /\ \A v \in Accounts \ {u} : consumer'[v] = consumer[v]
    BY <1>1, <2>1, <2>2
  <2>4. consumer' \in [Accounts -> Addresses \cup {NoAddress}]
    BY <1>1, <1>2, <2>2, NormalParts
  <2>5. AccountTypeOK'
    BY <2>2, <2>3, <2>4 DEF AccountInv, AccountTypeOK, RegistrationRow
  <2>6. \A v \in Accounts \ {u} : Registered(v)' <=> Registered(v)
    BY <2>3 DEF Registered
  <2>7. AccountsAreNormal'
    BY <1>2, <2>1, <2>2, <2>3, <2>6 DEF AccountInv, AccountsAreNormal
  <2>8. \A v \in Accounts \ {u} : Registered(v) => consumer[v][1] # address[1]
    <3>1. ASSUME NEW v \in Accounts \ {u}, Registered(v), consumer[v][1] = address[1]
          PROVE  FALSE
      <4>1. consumer[v] \in NormalAddresses
        BY <3>1 DEF AccountInv, AccountsAreNormal
      <4>2. consumer[v] = address
        BY <1>2, <3>1, <4>1, NormalParts
      <4> QED  BY <1>4, <3>1, <4>2 DEF IndexAdmits, AccountsAt
    <3> QED  BY <3>1
  <2>9. OneAccountPerMailbox'
    BY <2>3, <2>6, <2>8 DEF AccountInv, OneAccountPerMailbox
  <2> QED  BY <2>5, <2>7, <2>9 DEF AccountInv
<1> QED  BY <1>3, <1>4

LEMMA EndRegistrationKeeps ==
  ASSUME AccountInv, NEW r \in Registrations, NEW t \in Tokens, EndRegistration(r, t)
  PROVE  AccountInv'
<1>1. registration[r].account \in Accounts
  BY DEF EndRegistration, AccountInv, AccountsAreNormal
<1>2. token' \in [Tokens -> TokenRow]
  BY <1>1, IssuedToken DEF EndRegistration
<1> QED  BY <1>2, NoRegistrationRow, RegistrationMoves DEF EndRegistration

LEMMA BreakRegistrationKeeps ==
  ASSUME AccountInv, NEW r \in Registrations, BreakRegistration(r)
  PROVE  AccountInv'
<1>1. token \in [Tokens -> TokenRow]
  BY AccountRows DEF AccountInv
<1> QED  BY <1>1, NoRegistrationRow, RegistrationMoves DEF BreakRegistration

LEMMA SessionsKeep ==
  ASSUME AccountInv, NEW t \in Tokens,
         \/ \E address \in Addresses : LogIn(address, t)
         \/ \E how \in {"revoked", "expired"} : EndSession(t, how)
  PROVE  AccountInv'
<1>1. ASSUME NEW address \in Addresses, LogIn(address, t) PROVE AccountInv'
  <2>1. PICK u \in AccountsAt(Normal(address)) : IssueSession(t, u)
    BY <1>1 DEF LogIn
  <2>2. token' \in [Tokens -> TokenRow]
    BY <2>1, IssuedToken DEF AccountsAt
  <2> QED  BY <1>1, <2>2, TokensMove DEF LogIn
<1>2. ASSUME NEW how \in {"revoked", "expired"}, EndSession(t, how) PROVE AccountInv'
  <2>1. PICK u \in Accounts : token[t] = [of |-> u, status |-> "active"]
    BY <1>2 DEF EndSession, Bearer
  <2>2. token \in [Tokens -> TokenRow]
    BY AccountRows DEF AccountInv
  <2>3. [token[t] EXCEPT !.status = how] \in TokenRow
    BY <2>1 DEF TokenRow
  <2>4. token' = [token EXCEPT ![t] = [token[t] EXCEPT !.status = how]]
    BY <1>2, <2>2 DEF EndSession
  <2>5. token' \in [Tokens -> TokenRow]
    BY <2>2, <2>3, <2>4
  <2> QED  BY <1>2, <2>5, TokensMove DEF EndSession
<1> QED  BY <1>1, <1>2

-----------------------------------------------------------------------------
(* Claims of consumers. *)

LEMMA ClaimMoves ==
  ASSUME AccountInv, NEW c \in Claims, NEW row \in FiledRow, row.address \in NormalAddresses,
         filed' = [filed EXCEPT ![c] = row], UNCHANGED <<consumer, token, registration>>
  PROVE  AccountInv'
<1>1. filed \in [Claims -> FiledRow \cup {NotFiled}]
  BY AccountRows DEF AccountInv
<1>2. /\ filed' \in [Claims -> FiledRow \cup {NotFiled}] /\ filed'[c] = row
      /\ \A d \in Claims \ {c} : filed'[d] = filed[d]
  BY <1>1
<1>3. AccountTypeOK'
  BY <1>2 DEF AccountInv, AccountTypeOK, FiledRow
<1>4. AccountsAreNormal'
  BY <1>2 DEF AccountInv, AccountsAreNormal, Registered
<1> QED  BY <1>3, <1>4 DEF AccountInv, OneAccountPerMailbox, Registered

LEMMA TransitionsAreStatuses ==
  ASSUME NEW view \in CaseView
  PROVE  AllowedTransitions(view) \subseteq CaseStatuses
<1>1. view.status \in CaseStatuses
  BY DEF CaseView
<1>2. \A status \in CaseStatuses : BaseTransitions[status] \subseteq CaseStatuses
  BY DEF CaseStatuses, BaseTransitions
<1> QED  BY <1>1, <1>2 DEF AllowedTransitions

LEMMA FileClaimKeeps ==
  ASSUME AccountInv, NEW c \in Claims, NEW address \in Addresses, FileClaim(c, address)
  PROVE  AccountInv'
<1>1. PICK status \in {"submitted", "triage"} :
        filed' = [filed EXCEPT ![c] =
          [address |-> StoredAddress(address),
           view    |-> [status |-> status, incident |-> FALSE, review |-> "none",
                        resolution |-> [status |-> "requested", approved |-> "none"]]]]
  BY DEF FileClaim
<1> DEFINE view == [status |-> status, incident |-> FALSE, review |-> "none",
                    resolution |-> [status |-> "requested", approved |-> "none"]]
           row == [address |-> StoredAddress(address), view |-> view]
<1>2. StoredAddress(address) \in NormalAddresses /\ StoredAddress(address) \in Addresses
  BY NormalIsNormal, NormalParts DEF StoredAddress
<1>3. view \in CaseView
  BY DEF CaseView, CaseStatuses, ResolutionStatuses
<1>4. filed' = [filed EXCEPT ![c] = row]
  BY <1>1
<1> HIDE DEF view
<1>5. row \in FiledRow /\ row.address \in NormalAddresses
  BY <1>2, <1>3 DEF FiledRow
<1> HIDE DEF row
<1> QED  BY <1>4, <1>5, ClaimMoves DEF FileClaim

LEMMA MoveCaseKeeps ==
  ASSUME AccountInv, NEW c \in Claims, MoveCase(c)
  PROVE  AccountInv'
<1> DEFINE old == filed[c]
<1>1. /\ filed \in [Claims -> FiledRow \cup {NotFiled}] /\ old \in FiledRow
      /\ old.address \in NormalAddresses
  BY AccountRows DEF AccountInv, AccountsAreNormal, MoveCase
<1>2. old.view \in CaseView
  BY <1>1 DEF FiledRow
<1>3. ASSUME NEW view \in CaseView, filed' = [filed EXCEPT ![c] = [old EXCEPT !.view = view]]
      PROVE  AccountInv'
  <2> DEFINE row == [old EXCEPT !.view = view]
  <2>1. row \in FiledRow /\ row.address = old.address
    BY <1>1, <1>3 DEF FiledRow
  <2> HIDE DEF row, old
  <2> QED  BY <1>1, <1>3, <2>1, ClaimMoves DEF MoveCase, row
<1>4. ASSUME NEW next \in AllowedTransitions(old.view),
             filed' = [filed EXCEPT ![c].view.status = next]
      PROVE  AccountInv'
  <2>1. next \in CaseStatuses
    BY <1>2, <1>4, TransitionsAreStatuses
  <2>2. [old.view EXCEPT !.status = next] \in CaseView
    BY <1>2, <2>1 DEF CaseView
  <2>3. filed' = [filed EXCEPT ![c] = [old EXCEPT !.view = [old.view EXCEPT !.status = next]]]
    BY <1>1, <1>4 DEF FiledRow
  <2> QED  BY <1>3, <2>2, <2>3
<1>5. ASSUME NEW status \in ResolutionStatuses,
             NEW approved \in ResolutionTypes \cup {"none"},
             filed' = [filed EXCEPT ![c].view.resolution =
                         [status |-> status, approved |-> approved]]
      PROVE  AccountInv'
  <2> DEFINE resolution == [status |-> status, approved |-> approved]
  <2>1. [old.view EXCEPT !.resolution = resolution] \in CaseView
    BY <1>2 DEF CaseView
  <2>2. filed' = [filed EXCEPT ![c] =
                    [old EXCEPT !.view = [old.view EXCEPT !.resolution = resolution]]]
    BY <1>1, <1>5 DEF FiledRow
  <2> QED  BY <1>3, <2>1, <2>2
<1>6. old.view.resolution.approved \in ResolutionTypes \cup {"none"}
  BY <1>2 DEF CaseView
<1>7. {"approved", "externally_completed", "cancelled"} \subseteq ResolutionStatuses
  BY DEF ResolutionStatuses
<1> QED  BY <1>4, <1>5, <1>6, <1>7 DEF MoveCase

LEMMA AccountInitKeeps == AccountInit => AccountInv
<1> SUFFICES ASSUME AccountInit PROVE AccountInv
  OBVIOUS
<1>1. AccountTypeOK
  BY NoRegistrationRow DEF AccountInit, AccountTypeOK, RegistrationRow
<1>2. AccountsAreNormal /\ OneAccountPerMailbox
  BY NoRegistrationRow
  DEF AccountInit, AccountsAreNormal, OneAccountPerMailbox, Registered
<1> QED  BY <1>1, <1>2 DEF AccountInv

LEMMA AccountStepKeeps ==
  ASSUME AccountInv, [AccountNext]_accountVars
  PROVE  AccountInv'
<1>1. CASE UNCHANGED accountVars
  <2>1. token \in [Tokens -> TokenRow]
    BY AccountRows DEF AccountInv
  <2> QED  BY <1>1, <2>1, TokensMove DEF accountVars
<1> QED
  BY <1>1, CheckAddressKeeps, InsertAccountKeeps, EndRegistrationKeeps,
     BreakRegistrationKeeps, SessionsKeep, MoveCaseKeeps, FileClaimKeeps DEF AccountNext

LEMMA AccountInvHolds == AccountSpec => []AccountInv
BY AccountInitKeeps, AccountStepKeeps, PTL DEF AccountSpec

(* The two views of one case, which are pure functions of it. *)
LEMMA ViewsAgree ==
  ASSUME NEW view \in CaseView
  PROVE  ViewsAgreeOn(view)
<1> DEFINE shown == PublicStatus(view)
           told == AccountStatus(view)
<1>1. view.status \in CaseStatuses
  BY DEF CaseView
<1>2. CASE view.status \in {"rejected", "duplicate"}
  <2>1. shown = "not_approved" /\ told = "rejected"
    BY <1>2 DEF PublicStatus, AccountStatus
  <2> QED  BY <2>1 DEF ViewsAgreeOn, SameInAccount
<1>3. CASE view.status = "withdrawn"
  <2>1. shown = "closed" /\ told = "rejected"
    BY <1>3 DEF PublicStatus, AccountStatus
  <2> QED  BY <1>3, <2>1 DEF ViewsAgreeOn, SameInAccount
<1>4. CASE view.status = "closed"
  <2>1. shown \in {"completed", "closed"} /\ told = "resolved"
    BY <1>4 DEF PublicStatus, AccountStatus
  <2> QED  BY <1>4, <2>1 DEF ViewsAgreeOn, SameInAccount
<1>5. ASSUME view.status \in {"approved", "closure_review"} PROVE ViewsAgreeOn(view)
  <2>1. shown \in {"resolution_approved", "resolution_in_progress"}
    BY <1>5 DEF PublicStatus
  <2>2. told = IF RemedyCompleted(view) THEN "resolved" ELSE "remedy_issued"
    BY <1>5 DEF AccountStatus
  <2>3. RemedyCompleted(view) => view.resolution.status = "externally_completed"
    BY DEF RemedyCompleted
  <2> QED  BY <1>5, <2>1, <2>2, <2>3 DEF ViewsAgreeOn, SameInAccount
<1>6. ASSUME view.status \in {"submitted", "escalated", "triage", "under_review", "need_info"}
      PROVE  ViewsAgreeOn(view)
  <2>1. /\ view.status \in {"submitted", "escalated"} => shown = "received"
        /\ view.status \in {"triage", "under_review"} => shown = "in_review"
        /\ view.status = "need_info" => shown = "action_required"
    BY DEF PublicStatus
  <2>2. RemedyCompleted(view) <=> view.resolution.status = "externally_completed"
    BY DEF RemedyCompleted
  <2>3. CASE RemedyCompleted(view)
    <3>1. told = "resolved"
      BY <1>6, <2>3 DEF AccountStatus
    <3> QED  BY <1>6, <2>1, <2>2, <2>3, <3>1 DEF ViewsAgreeOn
  <2>4. CASE ~RemedyCompleted(view) /\ view.resolution.status = "approved"
    <3>1. told = "remedy_issued"
      BY <1>6, <2>4 DEF AccountStatus
    <3> QED  BY <1>6, <2>1, <2>2, <2>4, <3>1 DEF ViewsAgreeOn
  <2>5. CASE ~RemedyCompleted(view) /\ view.resolution.status # "approved"
    <3>1. /\ view.status \in {"submitted", "escalated"} => told = "submitted"
          /\ view.status \in {"triage", "under_review"} => told = "under_review"
          /\ view.status = "need_info" => told = "action_required"
      BY <1>6, <2>5 DEF AccountStatus
    <3> QED  BY <1>6, <2>1, <3>1 DEF ViewsAgreeOn, SameInAccount
  <2> QED  BY <2>3, <2>4, <2>5
<1> QED
  BY <1>1, <1>2, <1>3, <1>4, <1>5, <1>6 DEF CaseStatuses

LEMMA InvShowsClaims == AccountInv => ConsumersSeeTheirClaims
<1> SUFFICES ASSUME AccountInv PROVE ConsumersSeeTheirClaims
  OBVIOUS
<1>1. \A u, v \in Accounts :
        Registered(u) /\ Registered(v) /\ consumer[u][1] = consumer[v][1] => u = v
  BY DEF AccountInv, OneAccountPerMailbox
<1>2. ASSUME NEW c \in Claims, filed[c] # NotFiled
      PROVE  /\ \A address \in Addresses :
                  Finds(c, address) <=> address[1] = filed[c].address[1]
             /\ \A u \in Accounts : Registered(u) =>
                  /\ c \in ClaimsOf(u) <=> consumer[u][1] = filed[c].address[1]
                  /\ c \in ClaimsOf(u) <=> Opens(u, c)
             /\ ViewsAgreeOn(filed[c].view)
  <2> DEFINE stored == filed[c].address
  <2>1. stored \in NormalAddresses /\ filed[c].view \in CaseView
    BY <1>2, AccountRows DEF AccountInv, AccountsAreNormal, FiledRow
  <2>2. stored = <<stored[1], "normal">>
    BY <2>1, NormalParts
  <2>3. ASSUME NEW address, NEW other PROVE LookupHash(address) = LookupHash(other) <=> address = other
    BY DEF LookupHash
  <2> HIDE DEF stored
  <2>4. ASSUME NEW address \in Addresses
        PROVE  stored = Normal(address) <=> address[1] = stored[1]
    <3>1. Normal(address) = <<address[1], "normal">>
      BY NormalIsNormal
    <3> QED  BY <2>2, <3>1
  <2>5. \A address \in Addresses : Finds(c, address) <=> address[1] = stored[1]
    BY <1>2, <2>3, <2>4 DEF Finds, stored
  <2>6. Normal(stored) = stored
    BY <2>2 DEF Normal
  <2>7. ASSUME NEW u \in Accounts, Registered(u)
        PROVE  /\ c \in ClaimsOf(u) <=> consumer[u][1] = stored[1]
               /\ c \in ClaimsOf(u) <=> Opens(u, c)
    <3>1. consumer[u] \in Addresses
      BY <2>7, NormalParts DEF AccountInv, AccountsAreNormal
    <3>2. c \in ClaimsOf(u) <=> stored = Normal(consumer[u])
      BY <1>2, <2>3 DEF ClaimsOf, stored
    <3>3. Opens(u, c) <=> stored = Normal(consumer[u])
      BY <1>2, <2>6 DEF Opens, stored
    <3> QED  BY <2>4, <3>1, <3>2, <3>3
  <2> QED  BY <2>1, <2>5, <2>7, ViewsAgree DEF stored
<1> QED  BY <1>1, <1>2 DEF ConsumersSeeTheirClaims

(* Accounts, sessions and registrations keep their types (consumer_users,  *)
(* consumer_sessions).                                                     *)
THEOREM AccountTyping == AccountSpec => []AccountTypeOK
<1>1. AccountInv => AccountTypeOK
  BY DEF AccountInv
<1> QED  BY <1>1, AccountInvHolds, PTL

(* A mailbox has one account however many registrations race for it and    *)
(* sees all of its claims and no others; what the account says of a case   *)
(* and what the lookup shows of it agree in both directions, unless a      *)
(* remedy was approved or completed while the case is open                 *)
(* (consumer-auth.ts, drizzle-case-status-lookup-service).                 *)
THEOREM ConsumersSeeTheirClaimsHolds == AccountSpec => []ConsumersSeeTheirClaims
BY InvShowsClaims, AccountInvHolds, PTL

-----------------------------------------------------------------------------
(* The composition.                                                        *)

LEMMA StepsOfComponents ==
  ASSUME [ServicesNext]_<<vars, claimVars, staffVars, campaignVars, checked,
                          accountVars, component>>
  PROVE  /\ [Next]_vars /\ [ClaimNext]_claimVars /\ [StaffNext]_staffVars
         /\ [CampaignNext]_campaignVars /\ [IdentificationNext]_checked
         /\ [AccountNext]_accountVars
<1>1. CASE UNCHANGED <<vars, claimVars, staffVars, campaignVars, checked, accountVars, component>>
  BY <1>1
<1>2. CASE component = "loop" /\ Next /\ others("loop")
  BY <1>2 DEF others
<1>3. CASE component = "claims" /\ ClaimNext /\ others("claims")
  BY <1>3 DEF others
<1>4. CASE component = "staff" /\ StaffNext /\ others("staff")
  BY <1>4 DEF others
<1>5. CASE component = "campaigns" /\ CampaignNext /\ others("campaigns")
  BY <1>5 DEF others
<1>6. CASE component = "identification" /\ IdentificationNext /\ others("identification")
  BY <1>6 DEF others
<1>7. CASE component = "accounts" /\ AccountNext /\ others("accounts")
  BY <1>7 DEF others
<1> QED
  BY <1>1, <1>2, <1>3, <1>4, <1>5, <1>6, <1>7 DEF ServicesNext

(* Every behaviour of the composition is one of each component, so that    *)
(* what is proved of a component holds of the composition as well.         *)
THEOREM ServicesAreComponents ==
  ServicesSpec => /\ Spec /\ ClaimSpec /\ StaffSpec
                  /\ CampaignSpec /\ IdentificationSpec /\ AccountSpec
<1>1. ServicesInit => /\ Init /\ ClaimInit /\ StaffInit
                      /\ CampaignInit /\ IdentificationInit /\ AccountInit
  BY DEF ServicesInit
<1> QED
  BY <1>1, StepsOfComponents, PTL
  DEF ServicesSpec, Spec, ClaimSpec, StaffSpec, CampaignSpec, IdentificationSpec, AccountSpec

(* Each component is typed, in whatever behaviour it is the one that moves *)
(* (the rows and records of all services above).                           *)
THEOREM ServicesTyping == ServicesSpec => []ServicesTypeOK
<1> DEFINE Components ==
      {"loop", "claims", "staff", "campaigns", "identification", "accounts"}
<1>1. ServicesSpec => [](component \in Components)
  <2>1. ServicesInit => component \in Components
    BY DEF ServicesInit
  <2>2. component \in Components
        /\ [ServicesNext]_<<vars, claimVars, staffVars, campaignVars, checked,
                            accountVars, component>>
        => (component \in Components)'
    BY DEF ServicesNext, others
  <2> HIDE DEF Components
  <2> QED  BY <2>1, <2>2, PTL DEF ServicesSpec
<1>2. /\ component \in Components
      /\ TypeOK /\ ClaimTypeOK /\ StaffTypeOK
      /\ CampaignTypeOK /\ IdentificationTypeOK /\ AccountTypeOK
      => ServicesTypeOK
  BY DEF ServicesTypeOK
<1>3. LoopInv => TypeOK
  BY DEF LoopInv
<1>4. CampaignInv => CampaignTypeOK
  BY DEF CampaignInv
<1> HIDE DEF Components
<1> QED
  BY <1>1, <1>2, <1>3, <1>4, ServicesAreComponents, LoopInvHolds, ClaimTyping, StaffTyping,
     CampaignInvHolds, IdentificationTyping, AccountTyping, PTL
=============================================================================
