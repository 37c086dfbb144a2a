------------------------------ MODULE Campaigns ------------------------------
(***************************************************************************)
(* Publishing a version of a recall campaign, and reading the one that is  *)
(* published (modules/campaigns/drizzle-campaign-service.ts).              *)
(*                                                                         *)
(* A publication reads the version, checks its content and the approvals,  *)
(* and then writes under the condition that the version is still a draft;  *)
(* two of them may be on their way with one version.  A reader runs one    *)
(* statement after another outside a transaction.  What a version contains *)
(* is written before it is published and not by this service.              *)
(***************************************************************************)
CONSTANTS
  Versions,      \* versions of one campaign
  Locales,       \* locales consumers ask for
  Content,       \* what each version contains, see ContentOf
  SignOffs,      \* sets of roles a request names an approval of
  Publications,  \* requests to publish under way
  Readers        \* consumers reading

ApprovalRoles == {"business", "legal_compliance", "cpsc_if_applicable"}

(* Products, an active remedy, evidence rules and a message template are   *)
(* there or not; copy of a locale may miss what the gate asks for.         *)
ContentOf == [whole : BOOLEAN, copy : [Locales -> {"none", "partial", "complete"}]]

ASSUME CampaignAssumption ==
  /\ Content \in [Versions -> ContentOf] /\ "none" \notin Versions
  /\ SignOffs \subseteq SUBSET ApprovalRoles

VARIABLES
  version,      \* campaign_versions
  published,    \* recall_campaigns: published_version_id and status
  publication,  \* what each request to publish has established
  reader        \* what each reader has established

campaignVars == <<version, published, publication, reader>>

-----------------------------------------------------------------------------
Unsent == [at |-> "ready", version |-> "none", approvals |-> {}]
Away   == [at |-> "away", locale |-> "none", version |-> "none"]

CampaignTypeOK ==
  /\ version \in [Versions -> [status    : {"draft", "published"},
                               approvals : SUBSET ApprovalRoles,
                               by        : Publications \cup {"none"}]]
  /\ published \in [version : Versions \cup {"none"}, status : {"draft", "active"}]
  /\ publication \in [Publications ->
       [at : {"ready", "gated", "done", "refused"}, version : Versions \cup {"none"},
        approvals : SUBSET ApprovalRoles]]
  /\ reader \in [Readers ->
       [at : {"away", "campaign", "version", "shown", "null"},
        locale : Locales \cup {"none"}, version : Versions \cup {"none"}]]

CampaignInit ==
  /\ version = [v \in Versions |-> [status |-> "draft", approvals |-> {}, by |-> "none"]]
  /\ published = [version |-> "none", status |-> "draft"]
  /\ publication = [p \in Publications |-> Unsent]
  /\ reader = [r \in Readers |-> Away]

-----------------------------------------------------------------------------
(* parseCampaignApprovals: a role is given once.  validateRequiredApprovals. *)
RequiredApprovals == {"business", "legal_compliance"}

(* assertPublishGate: copy of any one locale will do.                      *)
PublishGate(v, approvals) ==
  /\ Content[v].whole
  /\ \E l \in Locales : Content[v].copy[l] = "complete"
  /\ RequiredApprovals \subseteq approvals

(* publishVersion reads the version and passes the gate, or is refused.    *)
GatePublication(p, v, approvals) ==
  /\ publication[p].at # "gated"
  /\ publication' = [publication EXCEPT ![p] =
       [at        |-> IF version[v].status = "draft" /\ PublishGate(v, approvals)
                      THEN "gated" ELSE "refused",
        version   |-> v,
        approvals |-> approvals]]
  /\ UNCHANGED <<version, published, reader>>

(* Mutant: the update does not ask for a draft. *)
AnyVersion(v) == TRUE

StillDraft(v) == version[v].status = "draft"

(* The version and the campaign that points to it change together.         *)
PublishVersion(p) ==
  LET v == publication[p].version
  IN  /\ publication[p].at = "gated"
      /\ IF StillDraft(v)
         THEN /\ version' = [version EXCEPT ![v] =
                   [status |-> "published", approvals |-> publication[p].approvals, by |-> p]]
              /\ published' = [version |-> v, status |-> "active"]
              /\ publication' = [publication EXCEPT ![p].at = "done"]
         ELSE /\ publication' = [publication EXCEPT ![p].at = "refused"]
              /\ UNCHANGED <<version, published>>
      /\ UNCHANGED reader

(* The transaction fails or the service stops.                             *)
BreakPublication(p) ==
  /\ publication[p].at = "gated"
  /\ publication' = [publication EXCEPT ![p] = Unsent]
  /\ UNCHANGED <<version, published, reader>>

-----------------------------------------------------------------------------
(* getPublishedCampaign: the campaign, the version, its content.           *)

ReadCampaign(r, l) ==
  /\ reader[r].at \notin {"campaign", "version"}
  /\ reader' = [reader EXCEPT ![r] =
       [at |-> IF published.status = "active" /\ published.version # "none"
               THEN "campaign" ELSE "null",
        locale |-> l, version |-> published.version]]
  /\ UNCHANGED <<version, published, publication>>

ReadVersion(r) ==
  /\ reader[r].at = "campaign"
  /\ reader' = [reader EXCEPT ![r].at =
       IF version[reader[r].version].status = "published" THEN "version" ELSE "null"]
  /\ UNCHANGED <<version, published, publication>>

ReadContent(r) ==
  /\ reader[r].at = "version"
  /\ reader' = [reader EXCEPT ![r].at =
       IF Content[reader[r].version].copy[reader[r].locale] = "none" THEN "null" ELSE "shown"]
  /\ UNCHANGED <<version, published, publication>>

CampaignNext ==
  \/ \E p \in Publications :
       \/ \E v \in Versions, approvals \in SignOffs :
            GatePublication(p, v, approvals)
       \/ PublishVersion(p) \/ BreakPublication(p)
  \/ \E r \in Readers :
       \/ \E l \in Locales : ReadCampaign(r, l)
       \/ ReadVersion(r) \/ ReadContent(r)

CampaignSpec == CampaignInit /\ [][CampaignNext]_campaignVars

-----------------------------------------------------------------------------
(* What was published stands: whoever else publishes it at the same time,  *)
(* a version keeps the approvals it was published with, the campaign       *)
(* always points to a version that is whole and approved, and a consumer   *)
(* who found the campaign is shown a version of it unless that has no copy *)
(* in their locale (publishVersion, getPublishedCampaign).                 *)
PublicationsStand ==
  /\ [][\A v \in Versions : version[v].status = "published" => version'[v] = version[v]]_campaignVars
  /\ [](published.status = "active" =>
          LET row == version[published.version]
          IN  /\ row.status = "published"
              /\ PublishGate(published.version, row.approvals)
              /\ publication[row.by].at = "done" =>
                   publication[row.by].approvals = row.approvals)
  /\ [][\A r \in Readers :
          reader[r].at \in {"campaign", "version"} /\ reader'[r].at = "null" =>
            Content[reader[r].version].copy[reader[r].locale] = "none"]_campaignVars
=============================================================================
