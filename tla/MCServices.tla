------------------------------ MODULE MCServices ------------------------------
(***************************************************************************)
(* The services that share no state with one another, checked side by      *)
(* side: every behaviour is one of claim submission, staff access,         *)
(* campaign publication, product identification, consumer accounts or the  *)
(* coverage loop, and the other components stay as they started.           *)
(***************************************************************************)
EXTENDS CoverageLoop, ClaimSubmission, StaffAccess, Campaigns, ProductIdentification,
        ConsumerAccounts, TLC

CONSTANTS f1, v1, v2, v3

VARIABLE component   \* the component of this behaviour

others(c) ==
  /\ c # "loop"           => UNCHANGED vars
  /\ c # "claims"         => UNCHANGED claimVars
  /\ c # "staff"          => UNCHANGED staffVars
  /\ c # "campaigns"      => UNCHANGED campaignVars
  /\ c # "identification" => UNCHANGED checked
  /\ c # "accounts"       => UNCHANGED accountVars
  /\ UNCHANGED component

ServicesInit ==
  /\ component \in {"loop", "claims", "staff", "campaigns", "identification", "accounts"}
  /\ Init
  /\ component # "loop" => documents = <<>> /\ confirmed = [p \in Products |-> 0]
  /\ ClaimInit /\ StaffInit /\ CampaignInit /\ IdentificationInit /\ AccountInit

ServicesNext ==
  \/ component = "loop"           /\ Next               /\ others("loop")
  \/ component = "claims"         /\ ClaimNext          /\ others("claims")
  \/ component = "staff"          /\ StaffNext          /\ others("staff")
  \/ component = "campaigns"      /\ CampaignNext       /\ others("campaigns")
  \/ component = "identification" /\ IdentificationNext /\ others("identification")
  \/ component = "accounts"       /\ AccountNext        /\ others("accounts")

ServicesSpec ==
  ServicesInit /\ [][ServicesNext]_<<vars, claimVars, staffVars, campaignVars, checked,
                                     accountVars, component>>

(* Each component is typed, in the states it reaches.                      *)
ServicesTypeOK ==
  CASE component = "loop"           -> TypeOK
    [] component = "claims"         -> ClaimTypeOK
    [] component = "staff"          -> StaffTypeOK
    [] component = "campaigns"      -> CampaignTypeOK
    [] component = "identification" -> IdentificationTypeOK
    [] component = "accounts"       -> AccountTypeOK

-----------------------------------------------------------------------------
(* Two bodies: an ordinary claim, and an incident with a file.             *)
SomeBodies ==
  {[answer |-> "no", matched |-> TRUE, documents |-> {}, accepted |-> TRUE],
   [answer |-> "unsure", matched |-> TRUE, documents |-> {f1}, accepted |-> TRUE]}

(* An edit gives a role these permissions.                                 *)
SomeGrants == {{"staff.manage", "case.detail.read"}}

(* One version has English copy only, another all of its Spanish copy, and *)
(* the third lacks its products.                                           *)
SomeContent ==
  (v1 :> [whole |-> TRUE, copy |-> [l \in Locales |-> IF l = "en" THEN "complete" ELSE "none"]])
  @@ (v2 :> [whole |-> TRUE, copy |-> [l \in Locales |-> IF l = "en" THEN "partial" ELSE "complete"]])
  @@ (v3 :> [whole |-> FALSE, copy |-> [l \in Locales |-> "complete"]])

(* What a request may name: too little, enough, or all of it.              *)
SomeSignOffs ==
  {{"business"}, {"business", "legal_compliance"}, ApprovalRoles}

(* At most one lot of a product.                                           *)
SomeSnapshots ==
  {s \in Snapshot :
     \A p \in RecalledProducts : Cardinality({lot \in s.lots : lot[1] = p}) <= 1}

(* The components share model values, so that three swaps serve them all.  *)
Interchangeable ==
  Permutations(Submissions) \cup Permutations(Drafts) \cup Permutations(References)
=============================================================================
