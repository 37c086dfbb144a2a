------------------------------- MODULE CaseDesk -------------------------------
(***************************************************************************)
(* What staff does with a recall case after it was submitted: status       *)
(* transitions, safety reviews, escalations, the resolution, the export of *)
(* completed refunds (modules/admin/drizzle-admin-service.ts,              *)
(* modules/resolutions, modules/refund-exports).                           *)
(*                                                                         *)
(* Every request runs in one transaction at READ COMMITTED.  A transition  *)
(* reads everything it decides on after it locked the case row, so reading *)
(* is one action and writing another, and what happens in between happens  *)
(* to rows it did not lock.  A review is read without a lock and closed by *)
(* an unconditional update.  A resolution is decided on the version of a   *)
(* page somebody opened before.  The other requests are single statements, *)
(* or lock what they read, and are one action each.                        *)
(***************************************************************************)
EXTENDS CaseWorkflow, Naturals, FiniteSets

CONSTANTS
  Cases,             \* recall cases
  Escalations,       \* bound: escalations ever opened
  Requests,          \* staff requests and open pages at the same time
  Exports,           \* bound: refund export batches
  Categories,        \* categories escalations are opened under
  EscalationsRead,   \* rows the closing gate reads at most
  MaxVersion         \* bound: resolution versions (shipments can be recorded again)

ASSUME DeskAssumption ==
  /\ "none" \notin Cases
  /\ Categories \subseteq EscalationCategories
  /\ EscalationsRead \in Nat /\ MaxVersion \in Nat \ {0}

VARIABLES
  case,         \* recall_cases: status, incident_flag; was the last transition forced
  review,       \* reportability_reviews: the one row a case can have
  escalation,   \* case_escalations
  resolution,   \* case_resolutions
  mail,         \* the e-mails about a remedy queued to the consumer of each case
  export,       \* refund_export_items of each batch: case and version
  request       \* what each open transaction or page has read

vars == <<case, review, escalation, resolution, mail, export, request>>

RemedyTemplates ==
  {"case_completed", "refund_approved", "replacement_approved", "refund_completed",
   "shipment_shipped"}

Versions == 1..MaxVersion

NoEscalation == [case |-> "none", category |-> "none", open |-> FALSE]

NoResolution == [status |-> "requested", approved |-> "none", shipped |-> FALSE, version |-> 0]

Idle == [op |-> "idle", case |-> "none", next |-> "none", forced |-> FALSE,
         mail |-> {}, shown |-> NoResolution, rows |-> {}]

Resolutions == [status   : ResolutionStatuses,
                approved : ResolutionTypes \cup {"none"},
                shipped  : BOOLEAN,
                version  : Versions]

TypeOK ==
  /\ case \in [Cases -> [status : CaseStatuses, incident : BOOLEAN, forced : BOOLEAN]]
  /\ review \in [Cases -> ReviewStatuses]
  /\ escalation \in
       [Escalations -> [case : Cases, category : Categories, open : BOOLEAN]
                        \cup {NoEscalation}]
  /\ resolution \in [Cases -> Resolutions]
  /\ mail \in [Cases -> SUBSET RemedyTemplates]
  /\ export \in [Exports -> SUBSET (Cases \X Versions)]
  /\ request \in
       [Requests -> [op      : {"idle", "transition", "review", "page", "export"},
                     case    : Cases \cup {"none"},
                     next    : CaseStatuses \cup {"none"},
                     forced  : BOOLEAN,
                     mail    : SUBSET RemedyTemplates,
                     shown   : Resolutions \cup {NoResolution},
                     rows    : SUBSET (Cases \X Versions)]]

(* What a submission leaves behind (deriveSubmissionStatus): an incident   *)
(* has a pending review, which old rows may lack.                          *)
Init ==
  /\ case \in [Cases -> [status : {"submitted", "escalated", "triage"},
                         incident : BOOLEAN, forced : {FALSE}]]
  /\ \A c \in Cases : case[c].status = "escalated" => case[c].incident
  /\ review \in [Cases -> {"none", "pending"}]
  /\ \A c \in Cases : ~case[c].incident => review[c] = "none"
  /\ escalation = [e \in Escalations |-> NoEscalation]
  /\ resolution = [c \in Cases |-> [status |-> "requested", approved |-> "none",
                                    shipped |-> FALSE, version |-> 1]]
  /\ mail = [c \in Cases |-> {}]
  /\ export = [b \in Exports |-> {}]
  /\ request = [r \in Requests |-> Idle]

-----------------------------------------------------------------------------
(* Reading.                                                                *)

(* Mutant: the case row is read without FOR UPDATE. *)
CaseUnlocked(c) == FALSE

(* The row lock of a transition; an insert that references the case waits  *)
(* for it, as does another transition.                                     *)
CaseLocked(c) == \E r \in Requests : request[r].op = "transition" /\ request[r].case = c

View(c) == [status     |-> case[c].status,
            incident   |-> case[c].incident,
            review     |-> review[c],
            resolution |-> resolution[c]]

EscalationsOf(c) == {e \in Escalations : escalation[e].case = c}

(* A page of rows in no order.                                             *)
PagesOf(c) ==
  {page \in SUBSET EscalationsOf(c) :
     \/ page = EscalationsOf(c) /\ Cardinality(page) <= EscalationsRead
     \/ page # EscalationsOf(c) /\ Cardinality(page) = EscalationsRead}

OwesReview(c, page) ==
  \/ case[c].incident
  \/ \E e \in page : escalation[e].category \in ReviewRequiredCategories

(* The gates that no role may bypass.                                      *)
ClosingAllowed(c, page) ==
  /\ \A e \in page : ~escalation[e].open
  /\ OwesReview(c, page) => review[c] \in DecidedReviews

-----------------------------------------------------------------------------
(* transitionCaseStatus.  The owner, and nobody else, bypasses the table.  *)

GateTransition(r, c, next, forced) ==
  /\ request[r] = Idle
  /\ ~CaseLocked(c)
  /\ next = "closed" => \E page \in PagesOf(c) : ClosingAllowed(c, page)
  /\ forced \/ next \in AllowedTransitions(View(c))
  /\ request' = [request EXCEPT ![r] =
                   [Idle EXCEPT !.op = "transition", !.case = c, !.next = next,
                                !.forced = forced,
                                !.mail = StatusEmail(next, resolution[c])
                                          \cap RemedyTemplates]]
  /\ UNCHANGED <<case, review, escalation, resolution, mail, export>>

WriteTransition(r) ==
  LET c == request[r].case
  IN  /\ request[r].op = "transition"
      /\ case' = [case EXCEPT ![c].status = request[r].next,
                              ![c].forced = request[r].forced]
      /\ mail' = [mail EXCEPT ![c] = @ \cup request[r].mail]
      /\ request' = [request EXCEPT ![r] = Idle]
      /\ UNCHANGED <<review, escalation, resolution, export>>

-----------------------------------------------------------------------------
(* Safety reviews and escalations.                                         *)

ReadReview(r, c) ==
  /\ request[r] = Idle
  /\ review[c] = "pending"
  /\ request' = [request EXCEPT ![r] = [Idle EXCEPT !.op = "review", !.case = c]]
  /\ UNCHANGED <<case, review, escalation, resolution, mail, export>>

(* Mutant: the review is closed with a status of its own. *)
CloseReviewClosed(r, outcome) ==
  /\ request[r].op = "review"
  /\ review' = [review EXCEPT ![request[r].case] = "closed"]
  /\ request' = [request EXCEPT ![r] = Idle]
  /\ UNCHANGED <<case, escalation, resolution, mail, export>>

CloseReview(r, outcome) ==
  /\ request[r].op = "review"
  /\ review' = [review EXCEPT ![request[r].case] = outcome]
  /\ request' = [request EXCEPT ![r] = Idle]
  /\ UNCHANGED <<case, escalation, resolution, mail, export>>

(* The caller may name a review, of any case; otherwise the categories     *)
(* that owe one find the review of the case or create it, and two that     *)
(* create it at once agree on one row (ON CONFLICT DO NOTHING).            *)
OpenEscalation(e, c, category, named) ==
  LET owes == named = "none" /\ category \in ReviewRequiredCategories
  IN  /\ escalation[e] = NoEscalation
      /\ ~CaseLocked(c)
      /\ named # "none" => review[named] # "none"
      /\ review' = IF owes /\ review[c] = "none"
                   THEN [review EXCEPT ![c] = "pending"] ELSE review
      /\ escalation' = [escalation EXCEPT ![e] =
                          [case |-> c, category |-> category, open |-> TRUE]]
      /\ UNCHANGED <<case, resolution, mail, export, request>>

CloseEscalation(e) ==
  /\ escalation[e].open
  /\ escalation' = [escalation EXCEPT ![e].open = FALSE]
  /\ UNCHANGED <<case, review, resolution, mail, export, request>>

-----------------------------------------------------------------------------
(* The resolution: each decision locks the row, compares its version with  *)
(* the one of the page, raises it, and writes an event of the case, which  *)
(* waits for a transition that holds the row of the case.                  *)

OpenResolutionPage(r, c) ==
  /\ request[r] = Idle
  /\ request' = [request EXCEPT ![r] = [Idle EXCEPT !.op = "page", !.case = c,
                                          !.shown = resolution[c]]]
  /\ UNCHANGED <<case, review, escalation, resolution, mail, export>>

VersionStands(r, c) ==
  /\ request[r].op = "page" /\ request[r].case = c
  /\ resolution[c].version = request[r].shown.version
  /\ resolution[c].version < MaxVersion

Decide(r, c, decided, templates) ==
  /\ VersionStands(r, c)
  /\ ~CaseLocked(c)
  /\ resolution' = [resolution EXCEPT ![c] = [decided EXCEPT !.version = @ + 1]]
  /\ mail' = [mail EXCEPT ![c] = @ \cup templates]
  /\ request' = [request EXCEPT ![r] = Idle]
  /\ UNCHANGED <<case, review, escalation, export>>

ApproveResolution(r, c, type) ==
  /\ resolution[c].status = "requested"
  /\ Decide(r, c, [resolution[c] EXCEPT !.status = "approved", !.approved = type],
            {IF type = "refund" THEN "refund_approved" ELSE "replacement_approved"})

CompleteResolution(r, c) ==
  /\ resolution[c].status = "approved"
  /\ Decide(r, c, [resolution[c] EXCEPT !.status = "externally_completed"],
            IF resolution[c].approved = "refund" THEN {"refund_completed"} ELSE {})

(* Mutant: a shipment leaves the version as it is. *)
RecordShipmentQuietly(r, c) ==
  /\ resolution[c].status = "approved" /\ resolution[c].approved = "replacement"
  /\ VersionStands(r, c)
  /\ ~CaseLocked(c)
  /\ resolution' = [resolution EXCEPT ![c].shipped = TRUE]
  /\ mail' = [mail EXCEPT ![c] = @ \cup {"shipment_shipped"}]
  /\ request' = [request EXCEPT ![r] = Idle]
  /\ UNCHANGED <<case, review, escalation, export>>

RecordShipment(r, c) ==
  /\ resolution[c].status = "approved" /\ resolution[c].approved = "replacement"
  /\ Decide(r, c, [resolution[c] EXCEPT !.shipped = TRUE], {"shipment_shipped"})

(* Mutant: whatever was not cancelled yet can be. *)
CancellableAny(c, administrator) == resolution[c].status # "cancelled"

Cancellable(c, administrator) ==
  \/ resolution[c].status = "requested"
  \/ resolution[c].status = "approved" /\ administrator

CancelResolution(r, c, administrator) ==
  /\ Cancellable(c, administrator)
  /\ Decide(r, c, [resolution[c] EXCEPT !.status = "cancelled"], {})

-----------------------------------------------------------------------------
(* export: the completed refunds that no batch names yet, or all of them.  *)

(* Mutant: approved refunds are exported as well. *)
RefundsApproved ==
  {c \in Cases : resolution[c].approved = "refund" /\ resolution[c].status # "cancelled"}

CompletedRefunds ==
  {c \in Cases : /\ resolution[c].approved = "refund"
                 /\ resolution[c].status = "externally_completed"}

Exported == {c \in Cases : \E b \in Exports, v \in Versions : <<c, v>> \in export[b]}

ReadExport(r, includeExported) ==
  LET selected == IF includeExported THEN CompletedRefunds
                  ELSE CompletedRefunds \ Exported
  IN  /\ request[r] = Idle
      /\ selected # {}
      /\ request' = [request EXCEPT ![r] =
                       [Idle EXCEPT !.op = "export",
                          !.rows = {<<c, resolution[c].version>> : c \in selected}]]
      /\ UNCHANGED <<case, review, escalation, resolution, mail, export>>

WriteExport(r, b) ==
  /\ request[r].op = "export"
  /\ export[b] = {}
  /\ export' = [export EXCEPT ![b] = request[r].rows]
  /\ request' = [request EXCEPT ![r] = Idle]
  /\ UNCHANGED <<case, review, escalation, resolution, mail>>

(* A constraint or a check refuses, the connection drops, a page is closed. *)
Abandon(r) ==
  /\ request[r] # Idle
  /\ request' = [request EXCEPT ![r] = Idle]
  /\ UNCHANGED <<case, review, escalation, resolution, mail, export>>

-----------------------------------------------------------------------------
Transitions(r) ==
  \/ \E c \in Cases, next \in CaseStatuses, forced \in BOOLEAN :
       GateTransition(r, c, next, forced)
  \/ WriteTransition(r)

Reviews(r) ==
  \/ \E c \in Cases : ReadReview(r, c)
  \/ \E outcome \in DecidedReviews : CloseReview(r, outcome)

Remedies(r) ==
  \E c \in Cases :
    \/ OpenResolutionPage(r, c)
    \/ \E type \in ResolutionTypes : ApproveResolution(r, c, type)
    \/ CompleteResolution(r, c)
    \/ RecordShipment(r, c)
    \/ \E administrator \in BOOLEAN : CancelResolution(r, c, administrator)

RefundExports(r) ==
  \/ \E includeExported \in BOOLEAN : ReadExport(r, includeExported)
  \/ \E b \in Exports : WriteExport(r, b)

Next ==
  \/ \E r \in Requests :
       Transitions(r) \/ Reviews(r) \/ Remedies(r) \/ RefundExports(r) \/ Abandon(r)
  \/ \E e \in Escalations :
       \/ \E c \in Cases, category \in Categories, named \in Cases \cup {"none"} :
            OpenEscalation(e, c, category, named)
       \/ CloseEscalation(e)

Spec == Init /\ [][Next]_vars

-----------------------------------------------------------------------------
(* Properties.                                                             *)

(* The step that closes a case, forced or not, finds no open escalation,   *)
(* and the safety review decided if an incident or an escalation of a      *)
(* report-gated category owes one: the row lock keeps escalations out      *)
(* between the gate and the update (transitionCaseStatus).                 *)
ClosingOwesNothing ==
  [][\A c \in Cases :
       case[c].status # "closed" /\ case'[c].status = "closed" =>
         /\ \A e \in EscalationsOf(c) : ~escalation[e].open
         /\ OwesReview(c, EscalationsOf(c)) => review[c] \in DecidedReviews]_vars

(* A case that was closed by the rules has a completed remedy, for ever:   *)
(* the transition reads the resolution without locking it, which is right  *)
(* because a decision waits for the case and completion is final           *)
(* (evaluate, cancel).                                                     *)
ClosedMeansRemedied ==
  \A c \in Cases :
    case[c].status = "closed" /\ ~case[c].forced =>
      resolution[c].status = "externally_completed"

(* What the consumer was written stays true: a completion e-mail means a   *)
(* completed remedy, a shipment e-mail a shipped replacement, an approval  *)
(* e-mail the type that was approved; and an approval that the status page *)
(* shows was written about (resolveCaseStatusEmail, approve, complete).    *)
MailedFactsStand ==
  \A c \in Cases :
    /\ {"case_completed", "refund_completed"} \cap mail[c] # {} =>
         resolution[c].status = "externally_completed"
    /\ "refund_completed" \in mail[c] => resolution[c].approved = "refund"
    /\ "shipment_shipped" \in mail[c] =>
         resolution[c].approved = "replacement" /\ resolution[c].shipped
    /\ "refund_approved" \in mail[c] => resolution[c].approved = "refund"
    /\ "replacement_approved" \in mail[c] => resolution[c].approved = "replacement"
    /\ ApprovalShown(View(c)) =>
         {"refund_approved", "replacement_approved"} \cap mail[c] # {}

(* A decision about a remedy is taken on the resolution as the page showed *)
(* it, whoever decided in between: comparing the version alone is enough   *)
(* because every decision raises it (lockForUpdate, assertVersion).        *)
DecidedOnWhatWasShown ==
  [][\A r \in Requests, c \in Cases :
       /\ request[r].op = "page" /\ request[r].case = c /\ request'[r] = Idle
       /\ resolution'[c] # resolution[c]
       => request[r].shown = resolution[c]]_vars

(* What a batch exported is how the refund stays: finance never holds an   *)
(* amount or version that changed afterwards (RefundExportService.export). *)
ExportsAreFinal ==
  \A b \in Exports : \A row \in export[b] :
    /\ row[2] = resolution[row[1]].version
    /\ row[1] \in CompletedRefunds

(* Every open case is in a queue, and the rules or its resolution offer a  *)
(* way on, unless its stage asks for the approval of a resolution that was *)
(* cancelled (BASE_TRANSITIONS, QUEUE_STATUS, stageKey, resolutionActions). *)
OpenCasesHaveAWay ==
  \A c \in Cases :
    case[c].status \notin TerminalStatuses =>
      /\ \E queue \in DOMAIN QueueStatuses : Listed(queue, View(c))
      /\ \/ AllowedTransitions(View(c)) # {}
         \/ ResolutionActions(View(c)) # {}
         \/ Stage(View(c)) = "resolution_approval" /\ resolution[c].status = "cancelled"

(* "Terminal consumer-facing facts are sticky" (mapToPublicCaseState):     *)
(* what is decided about a refused or withdrawn claim never turns what its *)
(* consumer reads into something positive, unless the owner moves it.      *)
TerminalFactsAreSticky ==
  [][\A c \in Cases :
       /\ case[c].status \in {"rejected", "duplicate", "withdrawn"}
       /\ ~case'[c].forced
       => PublicStatus(View(c))' = PublicStatus(View(c))]_vars

(* "Only a pending Reportability Review can be closed": a decision is not  *)
(* replaced by another (closeReportabilityReview).  Violated.              *)
DecidedReviewIsFinal ==
  [][\A c \in Cases : review[c] \in DecidedReviews => review'[c] = review[c]]_vars
=============================================================================
