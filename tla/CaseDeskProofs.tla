---------------------------- MODULE CaseDeskProofs ----------------------------
(***************************************************************************)
(* Theorems about module CaseDesk, for every number of cases, escalations  *)
(* and concurrent requests.                                                *)
(***************************************************************************)
EXTENDS CaseDesk, FiniteSetTheorems, TLAPS

(* What the type of a request alone does not say: an open transaction or   *)
(* page knows its case, and a transition where it goes.                    *)
RequestsNameTheirCase ==
  \A r \in Requests :
    /\ request[r].op \in {"transition", "review", "page"} => request[r].case \in Cases
    /\ request[r].op = "transition" => request[r].next \in CaseStatuses
    /\ request[r].op = "page" => request[r].shown \in Resolutions

Typed == TypeOK /\ RequestsNameTheirCase

LEMMA InitTyped == Init => Typed
<1> SUFFICES ASSUME Init PROVE Typed
  OBVIOUS
<1>1. MaxVersion \in Nat /\ MaxVersion >= 1
  BY DeskAssumption
<1>2. resolution \in [Cases -> Resolutions]
  BY <1>1 DEF Init, Resolutions, ResolutionStatuses, ResolutionTypes, Versions
<1>3. case \in [Cases -> [status : CaseStatuses, incident : BOOLEAN, forced : BOOLEAN]]
  <2>1. [status : {"submitted", "escalated", "triage"}, incident : BOOLEAN, forced : {FALSE}]
          \subseteq [status : CaseStatuses, incident : BOOLEAN, forced : BOOLEAN]
    BY DEF CaseStatuses
  <2> QED  BY <2>1 DEF Init
<1>4. review \in [Cases -> ReviewStatuses]
  BY DEF Init, ReviewStatuses
<1>5. TypeOK
  BY <1>2, <1>3, <1>4 DEF Init, TypeOK, Idle
<1>6. RequestsNameTheirCase
  BY DEF Init, RequestsNameTheirCase, Idle
<1> QED  BY <1>5, <1>6 DEF Typed

LEMMA TransitionsTyped ==
  ASSUME Typed, NEW r \in Requests, Transitions(r) PROVE Typed'
<1>1. ASSUME NEW c \in Cases, NEW next \in CaseStatuses, NEW forced \in BOOLEAN,
             GateTransition(r, c, next, forced)
      PROVE  Typed'
  <2>1. (StatusEmail(next, resolution[c]) \cap RemedyTemplates) \in SUBSET RemedyTemplates
    OBVIOUS
  <2> QED  BY <1>1, <2>1 DEF GateTransition, Typed, TypeOK, RequestsNameTheirCase, Idle
<1>2. ASSUME WriteTransition(r) PROVE Typed'
  BY <1>2 DEF WriteTransition, Typed, TypeOK, RequestsNameTheirCase, Idle
<1> QED  BY <1>1, <1>2 DEF Transitions

LEMMA ReviewsTyped ==
  ASSUME Typed, NEW r \in Requests, Reviews(r) PROVE Typed'
<1>1. ASSUME NEW c \in Cases, ReadReview(r, c) PROVE Typed'
  BY <1>1 DEF ReadReview, Typed, TypeOK, RequestsNameTheirCase, Idle
<1>2. ASSUME NEW outcome \in DecidedReviews, CloseReview(r, outcome) PROVE Typed'
  BY <1>2 DEF CloseReview, Typed, TypeOK, RequestsNameTheirCase, Idle, ReviewStatuses
<1> QED  BY <1>1, <1>2 DEF Reviews

(* Every decision about a remedy writes a row, an e-mail and an end.       *)
LEMMA DecideTyped ==
  ASSUME Typed, NEW r \in Requests, NEW c \in Cases, NEW decided \in Resolutions,
         NEW templates \in SUBSET RemedyTemplates, decided.version = resolution[c].version,
         Decide(r, c, decided, templates)
  PROVE  Typed'
<1>1. [decided EXCEPT !.version = @ + 1] \in Resolutions
  <2>1. decided.version \in 1..MaxVersion /\ decided.version < MaxVersion /\ MaxVersion \in Nat
    BY DeskAssumption DEF Decide, VersionStands, Resolutions, Versions
  <2>2. decided.version + 1 \in Versions
    BY <2>1 DEF Versions
  <2> QED  BY <2>2 DEF Resolutions
<1> QED  BY <1>1 DEF Decide, Typed, TypeOK, RequestsNameTheirCase, Idle

LEMMA RemediesTyped ==
  ASSUME Typed, NEW r \in Requests, Remedies(r) PROVE Typed'
<1> PICK c \in Cases :
      \/ OpenResolutionPage(r, c)
      \/ \E type \in ResolutionTypes : ApproveResolution(r, c, type)
      \/ CompleteResolution(r, c)
      \/ RecordShipment(r, c)
      \/ \E administrator \in BOOLEAN : CancelResolution(r, c, administrator)
  BY DEF Remedies
<1>0. resolution[c] \in Resolutions
  BY DEF Typed, TypeOK
<1>1. CASE OpenResolutionPage(r, c)
  BY <1>0, <1>1 DEF OpenResolutionPage, Typed, TypeOK, RequestsNameTheirCase, Idle
<1>2. ASSUME NEW type \in ResolutionTypes, ApproveResolution(r, c, type) PROVE Typed'
  <2> DEFINE decided == [resolution[c] EXCEPT !.status = "approved", !.approved = type]
  <2>1. decided \in Resolutions /\ decided.version = resolution[c].version
    BY <1>0 DEF Resolutions, ResolutionStatuses
  <2>2. {IF type = "refund" THEN "refund_approved" ELSE "replacement_approved"}
          \in SUBSET RemedyTemplates
    BY DEF RemedyTemplates
  <2> HIDE DEF decided
  <2> QED  BY <1>2, <2>1, <2>2, DecideTyped DEF ApproveResolution, decided
<1>3. CASE CompleteResolution(r, c)
  <2> DEFINE decided == [resolution[c] EXCEPT !.status = "externally_completed"]
             templates == IF resolution[c].approved = "refund"
                          THEN {"refund_completed"} ELSE {}
  <2>1. decided \in Resolutions /\ decided.version = resolution[c].version
    BY <1>0 DEF Resolutions, ResolutionStatuses
  <2>2. templates \in SUBSET RemedyTemplates
    BY DEF RemedyTemplates
  <2>3. Decide(r, c, decided, templates)
    BY <1>3 DEF CompleteResolution
  <2> HIDE DEF decided, templates
  <2> QED  BY <2>1, <2>2, <2>3, DecideTyped
<1>4. CASE RecordShipment(r, c)
  <2> DEFINE decided == [resolution[c] EXCEPT !.shipped = TRUE]
  <2>1. decided \in Resolutions /\ decided.version = resolution[c].version
    BY <1>0 DEF Resolutions
  <2>2. {"shipment_shipped"} \in SUBSET RemedyTemplates
    BY DEF RemedyTemplates
  <2>3. Decide(r, c, decided, {"shipment_shipped"})
    BY <1>4 DEF RecordShipment
  <2> HIDE DEF decided
  <2> QED  BY <2>1, <2>2, <2>3, DecideTyped
<1>5. ASSUME NEW administrator \in BOOLEAN, CancelResolution(r, c, administrator)
      PROVE  Typed'
  <2> DEFINE decided == [resolution[c] EXCEPT !.status = "cancelled"]
  <2>1. decided \in Resolutions /\ decided.version = resolution[c].version
    BY <1>0 DEF Resolutions, ResolutionStatuses
  <2>3. Decide(r, c, decided, {})
    BY <1>5 DEF CancelResolution
  <2> HIDE DEF decided
  <2> QED  BY <2>1, <2>3, DecideTyped
<1> QED  BY <1>1, <1>2, <1>3, <1>4, <1>5

LEMMA RefundExportsTyped ==
  ASSUME Typed, NEW r \in Requests, RefundExports(r) PROVE Typed'
<1>1. ASSUME NEW all \in BOOLEAN, ReadExport(r, all) PROVE Typed'
  <2> DEFINE selected == IF all THEN CompletedRefunds ELSE CompletedRefunds \ Exported
             rows == {<<c, resolution[c].version>> : c \in selected}
  <2>1. selected \subseteq Cases
    BY DEF CompletedRefunds
  <2>2. \A c \in Cases : resolution[c].version \in Versions
    BY DEF Typed, TypeOK, Resolutions
  <2>3. rows \in SUBSET (Cases \X Versions)
    BY <2>1, <2>2
  <2>4. /\ request' = [request EXCEPT ![r] = [Idle EXCEPT !.op = "export", !.rows = rows]]
        /\ UNCHANGED <<case, review, escalation, resolution, mail, export>>
    BY <1>1 DEF ReadExport
  <2> HIDE DEF rows
  <2> QED  BY <2>3, <2>4 DEF Typed, TypeOK, RequestsNameTheirCase, Idle
<1>2. ASSUME NEW b \in Exports, WriteExport(r, b) PROVE Typed'
  BY <1>2 DEF WriteExport, Typed, TypeOK, RequestsNameTheirCase, Idle
<1> QED  BY <1>1, <1>2 DEF RefundExports

LEMMA EscalationsTyped ==
  ASSUME Typed, NEW e \in Escalations,
         \/ \E c \in Cases, category \in Categories, named \in Cases \cup {"none"} :
              OpenEscalation(e, c, category, named)
         \/ CloseEscalation(e)
  PROVE  Typed'
<1>1. ASSUME NEW c \in Cases, NEW category \in Categories, NEW named \in Cases \cup {"none"},
             OpenEscalation(e, c, category, named)
      PROVE  Typed'
  <2>1. review' \in [Cases -> ReviewStatuses]
    BY <1>1 DEF OpenEscalation, Typed, TypeOK, ReviewStatuses
  <2> QED  BY <1>1, <2>1 DEF OpenEscalation, Typed, TypeOK, RequestsNameTheirCase
<1>2. ASSUME CloseEscalation(e) PROVE Typed'
  <2>1. escalation[e] \in [case : Cases, category : Categories, open : BOOLEAN]
    BY <1>2 DEF CloseEscalation, Typed, TypeOK, NoEscalation
  <2> QED  BY <1>2, <2>1 DEF CloseEscalation, Typed, TypeOK, RequestsNameTheirCase
<1> QED  BY <1>1, <1>2

LEMMA StepTyped == ASSUME Typed, [Next]_vars PROVE Typed'
<1>1. ASSUME NEW r \in Requests, Abandon(r) PROVE Typed'
  BY <1>1 DEF Abandon, Typed, TypeOK, RequestsNameTheirCase, Idle
<1>2. CASE UNCHANGED vars
  BY <1>2 DEF vars, Typed, TypeOK, RequestsNameTheirCase
<1> QED
  BY <1>1, <1>2, TransitionsTyped, ReviewsTyped, RemediesTyped, RefundExportsTyped,
     EscalationsTyped DEF Next

(* Every reachable state of the case desk is typed, and every open         *)
(* transaction knows what it is about.                                     *)
THEOREM DeskTypeCorrect == Spec => []Typed
BY InitTyped, StepTyped, PTL DEF Spec

THEOREM TypeCorrect == Spec => []TypeOK
<1>1. Typed => TypeOK
  BY DEF Typed
<1> QED  BY <1>1, DeskTypeCorrect, PTL

-----------------------------------------------------------------------------
(* What one step can do to a case, its remedy and a request.               *)

(* A remedy moves by one of four decisions, each on a case nobody holds.   *)
RemedyMove(c) ==
  /\ ~CaseLocked(c)
  /\ \/ \E type \in ResolutionTypes :
          /\ resolution[c].status = "requested"
          /\ resolution'[c] = [resolution[c] EXCEPT !.status = "approved",
                                 !.approved = type, !.version = @ + 1]
          /\ mail'[c] = mail[c] \cup
               {IF type = "refund" THEN "refund_approved" ELSE "replacement_approved"}
     \/ /\ resolution[c].status = "approved"
        /\ resolution'[c] = [resolution[c] EXCEPT !.status = "externally_completed",
                               !.version = @ + 1]
        /\ mail'[c] = mail[c] \cup
             (IF resolution[c].approved = "refund" THEN {"refund_completed"} ELSE {})
     \/ /\ resolution[c].status = "approved" /\ resolution[c].approved = "replacement"
        /\ resolution'[c] = [resolution[c] EXCEPT !.shipped = TRUE, !.version = @ + 1]
        /\ mail'[c] = mail[c] \cup {"shipment_shipped"}
     \/ /\ resolution[c].status \in {"requested", "approved"}
        /\ resolution'[c] = [resolution[c] EXCEPT !.status = "cancelled", !.version = @ + 1]
        /\ mail'[c] = mail[c]

RemedyStands(c) == resolution'[c] = resolution[c] /\ mail'[c] = mail[c]

LEMMA RemediesMove ==
  ASSUME Typed, NEW r \in Requests, NEW d \in Cases, NEW c \in Cases,
         \/ \E type \in ResolutionTypes : ApproveResolution(r, d, type)
         \/ CompleteResolution(r, d)
         \/ RecordShipment(r, d)
         \/ \E administrator \in BOOLEAN : CancelResolution(r, d, administrator)
  PROVE  /\ RemedyStands(c) \/ RemedyMove(c)
         /\ request' = [request EXCEPT ![r] = Idle]
         /\ VersionStands(r, d)
         /\ \A x \in Cases \ {d} : resolution'[x] = resolution[x]
         /\ UNCHANGED <<case, review, escalation, export>>
<1>0. resolution \in [Cases -> Resolutions] /\ mail \in [Cases -> SUBSET RemedyTemplates]
  BY DEF Typed, TypeOK
<1>1. \E decided, templates : Decide(r, d, decided, templates)
  BY DEF ApproveResolution, CompleteResolution, RecordShipment, CancelResolution
<1>2. /\ request' = [request EXCEPT ![r] = Idle]
      /\ VersionStands(r, d)
      /\ \A x \in Cases \ {d} : resolution'[x] = resolution[x] /\ mail'[x] = mail[x]
      /\ UNCHANGED <<case, review, escalation, export>>
  BY <1>0, <1>1 DEF Decide
<1>3. CASE c # d
  BY <1>2, <1>3 DEF RemedyStands
<1>4. CASE c = d
  <2>1. ~CaseLocked(c)
    BY <1>1, <1>4 DEF Decide
  <2>2. resolution[c] \in Resolutions
    BY <1>0
  <2>3. ASSUME NEW type \in ResolutionTypes, ApproveResolution(r, d, type)
        PROVE  RemedyMove(c)
    BY <1>0, <1>4, <2>1, <2>2, <2>3 DEF ApproveResolution, Decide, RemedyMove, Resolutions
  <2>4. ASSUME CompleteResolution(r, d) PROVE RemedyMove(c)
    BY <1>0, <1>4, <2>1, <2>2, <2>4 DEF CompleteResolution, Decide, RemedyMove, Resolutions
  <2>5. ASSUME RecordShipment(r, d) PROVE RemedyMove(c)
    BY <1>0, <1>4, <2>1, <2>2, <2>5 DEF RecordShipment, Decide, RemedyMove, Resolutions
  <2>6. ASSUME NEW administrator \in BOOLEAN, CancelResolution(r, d, administrator)
        PROVE  RemedyMove(c)
    BY <1>0, <1>4, <2>1, <2>2, <2>6
       DEF CancelResolution, Cancellable, Decide, RemedyMove, Resolutions
  <2> QED  BY <1>2, <2>3, <2>4, <2>5, <2>6
<1> QED  BY <1>2, <1>3, <1>4

(* The actions that leave every remedy and every e-mail alone.             *)
LEMMA OthersLeaveRemedies ==
  ASSUME [Next]_vars
  PROVE  \/ UNCHANGED <<resolution, mail>>
         \/ \E r \in Requests : WriteTransition(r)
         \/ \E r \in Requests, d \in Cases :
              \/ \E type \in ResolutionTypes : ApproveResolution(r, d, type)
              \/ CompleteResolution(r, d)
              \/ RecordShipment(r, d)
              \/ \E administrator \in BOOLEAN : CancelResolution(r, d, administrator)
<1>1. ASSUME NEW r \in Requests, Transitions(r)
      PROVE  UNCHANGED <<resolution, mail>> \/ WriteTransition(r)
  BY <1>1 DEF Transitions, GateTransition
<1>2. ASSUME NEW r \in Requests, Reviews(r) PROVE UNCHANGED <<resolution, mail>>
  BY <1>2 DEF Reviews, ReadReview, CloseReview
<1>3. ASSUME NEW r \in Requests, Remedies(r)
      PROVE  \/ UNCHANGED <<resolution, mail>>
             \/ \E d \in Cases :
                  \/ \E type \in ResolutionTypes : ApproveResolution(r, d, type)
                  \/ CompleteResolution(r, d)
                  \/ RecordShipment(r, d)
                  \/ \E administrator \in BOOLEAN : CancelResolution(r, d, administrator)
  BY <1>3 DEF Remedies, OpenResolutionPage
<1>4. ASSUME NEW r \in Requests, RefundExports(r) PROVE UNCHANGED <<resolution, mail>>
  BY <1>4 DEF RefundExports, ReadExport, WriteExport
<1>5. ASSUME NEW r \in Requests, Abandon(r) PROVE UNCHANGED <<resolution, mail>>
  BY <1>5 DEF Abandon
<1>6. ASSUME NEW e \in Escalations,
             \/ \E c \in Cases, category \in Categories, named \in Cases \cup {"none"} :
                  OpenEscalation(e, c, category, named)
             \/ CloseEscalation(e)
      PROVE  UNCHANGED <<resolution, mail>>
  BY <1>6 DEF OpenEscalation, CloseEscalation
<1> QED  BY <1>1, <1>2, <1>3, <1>4, <1>5, <1>6 DEF Next, vars

-----------------------------------------------------------------------------
(* What holds of the open transactions: one transition per case; what a    *)
(* transition decided on still stands, because it holds the case.          *)

OneTransitionPerCase ==
  \A r, s \in Requests :
    /\ request[r].op = "transition" /\ request[s].op = "transition"
    /\ request[r].case = request[s].case
    => r = s

TransitionStands(r) ==
  LET c == request[r].case
  IN  /\ ~request[r].forced => request[r].next \in BaseTransitions[case[c].status]
      /\ request[r].next = "closed" /\ ~request[r].forced =>
           resolution[c].status = "externally_completed"
      /\ request[r].mail \subseteq {"case_completed"}
      /\ request[r].mail # {} => resolution[c].status = "externally_completed"

TransitionsStand ==
  /\ OneTransitionPerCase
  /\ \A r \in Requests : request[r].op = "transition" => TransitionStands(r)

(* Who moves a request, and how: nobody else than the request itself.      *)
RequestMove(r) ==
  \/ request'[r] = request[r]
  \/ request'[r] = Idle
  \/ \E c \in Cases : ReadReview(r, c) \/ OpenResolutionPage(r, c)
  \/ \E all \in BOOLEAN : ReadExport(r, all)
  \/ \E c \in Cases, next \in CaseStatuses, forced \in BOOLEAN :
       GateTransition(r, c, next, forced)

LEMMA RequestsMove ==
  ASSUME Typed, [Next]_vars, NEW r \in Requests PROVE RequestMove(r)
<1>0. request \in [Requests -> [op      : {"idle", "transition", "review", "page", "export"},
                     case    : Cases \cup {"none"},
                     next    : CaseStatuses \cup {"none"},
                     forced  : BOOLEAN,
                     mail    : SUBSET RemedyTemplates,
                     shown   : Resolutions \cup {NoResolution},
                     rows    : SUBSET (Cases \X Versions)]]
  BY DEF Typed, TypeOK
<1>1. ASSUME NEW s \in Requests, Transitions(s) PROVE RequestMove(r)
  <2>1. CASE s # r
    BY <1>0, <1>1, <2>1 DEF RequestMove, Transitions, GateTransition, WriteTransition
  <2>2. CASE s = r
    BY <1>0, <1>1, <2>2 DEF RequestMove, Transitions, WriteTransition
  <2> QED  BY <2>1, <2>2
<1>2. ASSUME NEW s \in Requests, Reviews(s) PROVE RequestMove(r)
  <2>1. ASSUME NEW c \in Cases, ReadReview(s, c) PROVE RequestMove(r)
    <3>1. s # r => request'[r] = request[r]
      BY <1>0, <2>1 DEF ReadReview
    <3> QED  BY <2>1, <3>1 DEF RequestMove
  <2>2. ASSUME NEW outcome \in DecidedReviews, CloseReview(s, outcome) PROVE RequestMove(r)
    BY <1>0, <2>2 DEF RequestMove, CloseReview
  <2> QED  BY <1>2, <2>1, <2>2 DEF Reviews
<1>3. ASSUME NEW s \in Requests, Remedies(s) PROVE RequestMove(r)
  <2>1. ASSUME NEW c \in Cases, OpenResolutionPage(s, c) PROVE RequestMove(r)
    <3>1. s # r => request'[r] = request[r]
      BY <1>0, <2>1 DEF OpenResolutionPage
    <3> QED  BY <2>1, <3>1 DEF RequestMove
  <2>2. ASSUME NEW c \in Cases,
               \/ \E type \in ResolutionTypes : ApproveResolution(s, c, type)
               \/ CompleteResolution(s, c)
               \/ RecordShipment(s, c)
               \/ \E administrator \in BOOLEAN : CancelResolution(s, c, administrator)
        PROVE  RequestMove(r)
    <3>1. request' = [request EXCEPT ![s] = Idle]
      BY <2>2, RemediesMove
    <3> QED  BY <1>0, <3>1 DEF RequestMove
  <2> QED  BY <1>3, <2>1, <2>2 DEF Remedies
<1>4. ASSUME NEW s \in Requests, RefundExports(s) PROVE RequestMove(r)
  <2>1. ASSUME NEW all \in BOOLEAN, ReadExport(s, all) PROVE RequestMove(r)
    <3>1. s # r => request'[r] = request[r]
      BY <1>0, <2>1 DEF ReadExport
    <3> QED  BY <2>1, <3>1 DEF RequestMove
  <2>2. ASSUME NEW b \in Exports, WriteExport(s, b) PROVE RequestMove(r)
    BY <1>0, <2>2 DEF RequestMove, WriteExport
  <2> QED  BY <1>4, <2>1, <2>2 DEF RefundExports
<1>5. ASSUME NEW s \in Requests, Abandon(s) PROVE RequestMove(r)
  BY <1>0, <1>5 DEF RequestMove, Abandon
<1>6. ASSUME NEW e \in Escalations,
             \/ \E c \in Cases, category \in Categories, named \in Cases \cup {"none"} :
                  OpenEscalation(e, c, category, named)
             \/ CloseEscalation(e)
      PROVE  RequestMove(r)
  BY <1>6 DEF RequestMove, OpenEscalation, CloseEscalation
<1>7. CASE UNCHANGED vars
  BY <1>7 DEF RequestMove, vars
<1> QED  BY <1>1, <1>2, <1>3, <1>4, <1>5, <1>6, <1>7 DEF Next

(* A case changes only by the transition that holds it.                    *)
LEMMA CasesMove ==
  ASSUME Typed, [Next]_vars, NEW c \in Cases
  PROVE  \/ case'[c] = case[c]
         \/ \E r \in Requests : WriteTransition(r) /\ request[r].case = c
<1>1. ASSUME NEW r \in Requests, Transitions(r)
      PROVE  UNCHANGED case \/ WriteTransition(r)
  BY <1>1 DEF Transitions, GateTransition
<1>2. ASSUME NEW r \in Requests, Reviews(r) PROVE UNCHANGED case
  BY <1>2 DEF Reviews, ReadReview, CloseReview
<1>3. ASSUME NEW r \in Requests, Remedies(r) PROVE UNCHANGED case
  BY <1>3 DEF Remedies, OpenResolutionPage, ApproveResolution, CompleteResolution,
              RecordShipment, CancelResolution, Decide
<1>4. ASSUME NEW r \in Requests, RefundExports(r) PROVE UNCHANGED case
  BY <1>4 DEF RefundExports, ReadExport, WriteExport
<1>5. ASSUME NEW r \in Requests, Abandon(r) PROVE UNCHANGED case
  BY <1>5 DEF Abandon
<1>6. ASSUME NEW e \in Escalations,
             \/ \E d \in Cases, category \in Categories, named \in Cases \cup {"none"} :
                  OpenEscalation(e, d, category, named)
             \/ CloseEscalation(e)
      PROVE  UNCHANGED case
  BY <1>6 DEF OpenEscalation, CloseEscalation
<1>7. UNCHANGED case \/ \E r \in Requests : WriteTransition(r)
  BY <1>1, <1>2, <1>3, <1>4, <1>5, <1>6 DEF Next, vars
<1>8. ASSUME NEW r \in Requests, WriteTransition(r), request[r].case # c
      PROVE  case'[c] = case[c]
  BY <1>8 DEF WriteTransition, Typed, TypeOK
<1> QED  BY <1>7, <1>8

(* A remedy stands, is decided on, or is written about by a transition.    *)
LEMMA RemedyMoves ==
  ASSUME Typed, [Next]_vars, NEW c \in Cases
  PROVE  \/ RemedyStands(c)
         \/ RemedyMove(c)
         \/ /\ resolution'[c] = resolution[c]
            /\ \E r \in Requests : /\ request[r].op = "transition" /\ request[r].case = c
                                   /\ mail'[c] = mail[c] \cup request[r].mail
<1>1. ASSUME UNCHANGED <<resolution, mail>> PROVE RemedyStands(c)
  BY <1>1 DEF RemedyStands
<1>2. ASSUME NEW r \in Requests, WriteTransition(r)
      PROVE  \/ RemedyStands(c)
             \/ /\ resolution'[c] = resolution[c]
                /\ request[r].op = "transition" /\ request[r].case = c
                /\ mail'[c] = mail[c] \cup request[r].mail
  BY <1>2 DEF WriteTransition, RemedyStands, Typed, TypeOK
<1> QED  BY <1>1, <1>2, OthersLeaveRemedies, RemediesMove

(* A row of an export that nothing can change any more.                    *)
RowIsFinal(row) ==
  row[2] = resolution[row[1]].version /\ row[1] \in CompletedRefunds

(* The rows of an export are the completed refunds it read.                *)
LEMMA ExportsOpen ==
  ASSUME Typed, NEW r \in Requests, NEW all \in BOOLEAN, ReadExport(r, all)
  PROVE  /\ request'[r].op = "export"
         /\ \A row \in request'[r].rows : RowIsFinal(row)
         /\ UNCHANGED <<case, review, escalation, resolution, mail, export>>
<1> DEFINE selected == IF all THEN CompletedRefunds ELSE CompletedRefunds \ Exported
           rows == {<<c, resolution[c].version>> : c \in selected}
<1>1. /\ request' = [request EXCEPT ![r] = [Idle EXCEPT !.op = "export", !.rows = rows]]
      /\ UNCHANGED <<case, review, escalation, resolution, mail, export>>
  BY DEF ReadExport
<1>2. request'[r].op = "export" /\ request'[r].rows = rows
  <2> HIDE DEF rows
  <2> QED  BY <1>1 DEF Typed, TypeOK, Idle
<1>3. ASSUME NEW row \in rows PROVE RowIsFinal(row)
  BY <1>3 DEF RowIsFinal, CompletedRefunds
<1> QED  BY <1>1, <1>2, <1>3

LEMMA TransitionsKeepStanding ==
  ASSUME Typed, TransitionsStand, [Next]_vars PROVE TransitionsStand'
<1>0. Typed'
  BY StepTyped
<1>1. ASSUME NEW r \in Requests, request'[r].op = "transition"
      PROVE  \/ request'[r] = request[r]
             \/ \E c \in Cases, next \in CaseStatuses, forced \in BOOLEAN :
                  GateTransition(r, c, next, forced)
  <2>1. ASSUME NEW c \in Cases, ReadReview(r, c) \/ OpenResolutionPage(r, c) PROVE FALSE
    <3>1. ReadReview(r, c) => request'[r].op = "review"
      BY DEF ReadReview, Idle, Typed, TypeOK
    <3>2. OpenResolutionPage(r, c) => request'[r].op = "page"
      BY DEF OpenResolutionPage, Idle, Typed, TypeOK
    <3> QED  BY <1>1, <2>1, <3>1, <3>2
  <2>2. ASSUME NEW all \in BOOLEAN, ReadExport(r, all) PROVE FALSE
    BY <1>1, <2>2, ExportsOpen
  <2>3. request'[r] # Idle
    BY <1>1 DEF Idle
  <2> QED  BY <2>1, <2>2, <2>3, RequestsMove DEF RequestMove
<1>2. ASSUME NEW r \in Requests, NEW c \in Cases, NEW next \in CaseStatuses,
             NEW forced \in BOOLEAN, GateTransition(r, c, next, forced)
      PROVE  TransitionsStand'
  <2>1. /\ request'[r] = [Idle EXCEPT !.op = "transition", !.case = c, !.next = next,
                            !.forced = forced,
                            !.mail = StatusEmail(next, resolution[c]) \cap RemedyTemplates]
        /\ \A s \in Requests \ {r} : request'[s] = request[s]
        /\ UNCHANGED <<case, resolution>>
    BY <1>2 DEF GateTransition, Typed, TypeOK
  <2>2. \A s \in Requests \ {r} : request[s].op = "transition" => request[s].case # c
    BY <1>2 DEF GateTransition, CaseLocked
  <2>3. OneTransitionPerCase'
    <3>1. request'[r].op = "transition" /\ request'[r].case = c
      BY <2>1 DEF Idle
    <3>2. OneTransitionPerCase
      BY DEF TransitionsStand
    <3>3. \A s \in Requests \ {r} : request'[s] = request[s]
      BY <2>1
    <3>4. ASSUME NEW p \in Requests, NEW q \in Requests,
                 request'[p].op = "transition", request'[q].op = "transition",
                 request'[p].case = request'[q].case
          PROVE  p = q
      <4>1. CASE p = r
        BY <2>2, <3>1, <3>3, <3>4, <4>1
      <4>2. CASE q = r
        BY <2>2, <3>1, <3>3, <3>4, <4>2
      <4>3. CASE p # r /\ q # r
        BY <3>2, <3>3, <3>4, <4>3 DEF OneTransitionPerCase
      <4> QED  BY <4>1, <4>2, <4>3
    <3> QED  BY <3>4 DEF OneTransitionPerCase
  <2>4. ~forced => next \in AllowedTransitions(View(c))
    BY <1>2 DEF GateTransition
  <2>5. ~forced => next \in BaseTransitions[case[c].status]
    BY <2>4 DEF AllowedTransitions, View
  <2>6. ~forced /\ next = "closed" => resolution[c].status = "externally_completed"
    <3>1. \A status \in CaseStatuses \ {"closure_review"} : "closed" \notin BaseTransitions[status]
      BY DEF CaseStatuses, BaseTransitions
    <3>2. case[c].status \in CaseStatuses
      BY DEF Typed, TypeOK
    <3>3. ~forced /\ next = "closed" => case[c].status = "closure_review"
      BY <2>5, <3>1, <3>2
    <3> QED  BY <2>4, <3>3 DEF AllowedTransitions, View, RemedyCompleted
  <2>7. /\ StatusEmail(next, resolution[c]) \cap RemedyTemplates \subseteq {"case_completed"}
        /\ StatusEmail(next, resolution[c]) \cap RemedyTemplates # {} =>
             resolution[c].status = "externally_completed"
    BY DEF StatusEmail, RemedyTemplates
  <2>8. TransitionStands(r)'
    BY <2>1, <2>5, <2>6, <2>7 DEF TransitionStands, Idle
  <2>9. ASSUME NEW s \in Requests \ {r}, request'[s].op = "transition"
        PROVE  TransitionStands(s)'
    BY <2>1, <2>9 DEF TransitionsStand, TransitionStands
  <2> QED  BY <2>3, <2>8, <2>9 DEF TransitionsStand
<1>3. ASSUME \A r \in Requests : request'[r].op = "transition" => request'[r] = request[r]
      PROVE  TransitionsStand'
  <2>1. OneTransitionPerCase'
    BY <1>3 DEF TransitionsStand, OneTransitionPerCase
  <2>2. ASSUME NEW r \in Requests, request'[r].op = "transition" PROVE TransitionStands(r)'
    <3> DEFINE c == request[r].case
    <3>1. request'[r] = request[r] /\ request[r].op = "transition" /\ TransitionStands(r)
      BY <1>3, <2>2 DEF TransitionsStand
    <3>2. c \in Cases /\ CaseLocked(c)
      BY <3>1 DEF Typed, RequestsNameTheirCase, CaseLocked
    <3>3. case'[c] = case[c]
      <4>1. ASSUME NEW s \in Requests, WriteTransition(s), request[s].case = c PROVE FALSE
        <5>1. request[s].op = "transition" /\ request'[s] = Idle
          BY <4>1 DEF WriteTransition, Typed, TypeOK
        <5>2. s = r
          BY <3>1, <4>1, <5>1 DEF TransitionsStand, OneTransitionPerCase
        <5> QED  BY <3>1, <5>1, <5>2 DEF Idle
      <4> QED  BY <3>2, <4>1, CasesMove
    <3>4. resolution'[c] = resolution[c]
      BY <3>2, RemedyMoves DEF RemedyStands, RemedyMove
    <3> QED  BY <3>1, <3>3, <3>4 DEF TransitionStands
  <2> QED  BY <2>1, <2>2 DEF TransitionsStand
<1> QED  BY <1>1, <1>2, <1>3

LEMMA InitTransitionsStand == Init => TransitionsStand
BY DEF Init, TransitionsStand, OneTransitionPerCase, Idle

-----------------------------------------------------------------------------
(* Remedies: what was mailed and what was exported.                        *)

(* Stronger than MailedFactsStand: a remedy nobody decided on has no type, *)
(* and one with a type was written about, shown or not.                    *)
MailIsTrue(c) ==
  /\ resolution[c].status = "requested" => resolution[c].approved = "none"
  /\ {"case_completed", "refund_completed"} \cap mail[c] # {} =>
       resolution[c].status = "externally_completed"
  /\ "refund_completed" \in mail[c] => resolution[c].approved = "refund"
  /\ "shipment_shipped" \in mail[c] =>
       resolution[c].approved = "replacement" /\ resolution[c].shipped
  /\ "refund_approved" \in mail[c] => resolution[c].approved = "refund"
  /\ "replacement_approved" \in mail[c] => resolution[c].approved = "replacement"
  /\ resolution[c].approved # "none" =>
       {"refund_approved", "replacement_approved"} \cap mail[c] # {}

RemediesAreTrue ==
  /\ \A c \in Cases : MailIsTrue(c)
  /\ \A b \in Exports : \A row \in export[b] : RowIsFinal(row)
  /\ \A r \in Requests : \A row \in request[r].rows : RowIsFinal(row)

LEMMA InitRemediesAreTrue == Init => RemediesAreTrue
BY DEF Init, RemediesAreTrue, MailIsTrue, Idle

(* A completed remedy is where every decision stops.                       *)
LEMMA CompletedStays ==
  ASSUME Typed, [Next]_vars, NEW c \in Cases,
         resolution[c].status = "externally_completed"
  PROVE  resolution'[c] = resolution[c]
BY RemedyMoves DEF RemedyStands, RemedyMove

LEMMA MailStaysTrue ==
  ASSUME Typed, TransitionsStand, [Next]_vars, NEW c \in Cases, MailIsTrue(c)
  PROVE  MailIsTrue(c)'
<1>1. resolution[c] \in Resolutions /\ mail[c] \in SUBSET RemedyTemplates
  BY DEF Typed, TypeOK
<1>2. CASE RemedyStands(c)
  BY <1>2 DEF RemedyStands, MailIsTrue
<1>3. ASSUME resolution'[c] = resolution[c],
             NEW r \in Requests, request[r].op = "transition", request[r].case = c,
             mail'[c] = mail[c] \cup request[r].mail
      PROVE  MailIsTrue(c)'
  <2>1. /\ request[r].mail \subseteq {"case_completed"}
        /\ request[r].mail # {} => resolution[c].status = "externally_completed"
    BY <1>3 DEF TransitionsStand, TransitionStands
  <2> QED  BY <1>3, <2>1 DEF MailIsTrue
<1>4. CASE RemedyMove(c)
  <2>1. ASSUME NEW type \in ResolutionTypes,
               resolution[c].status = "requested",
               resolution'[c] = [resolution[c] EXCEPT !.status = "approved",
                                   !.approved = type, !.version = @ + 1],
               mail'[c] = mail[c] \cup
                 {IF type = "refund" THEN "refund_approved" ELSE "replacement_approved"}
        PROVE  MailIsTrue(c)'
    <3>1. /\ resolution'[c].status = "approved"
          /\ resolution'[c].approved = type
          /\ resolution[c].approved = "none"
      BY <1>1, <2>1 DEF Resolutions, MailIsTrue
    <3>2. mail[c] = {}
      BY <1>1, <2>1, <3>1 DEF MailIsTrue, RemedyTemplates
    <3>3. type \in {"refund", "replacement"}
      BY DEF ResolutionTypes
    <3> QED  BY <2>1, <3>1, <3>2, <3>3 DEF MailIsTrue
  <2>2. ASSUME resolution[c].status = "approved",
               resolution'[c] = [resolution[c] EXCEPT !.status = "externally_completed",
                                   !.version = @ + 1],
               mail'[c] = mail[c] \cup
                 (IF resolution[c].approved = "refund" THEN {"refund_completed"} ELSE {})
        PROVE  MailIsTrue(c)'
    <3>1. /\ resolution'[c].status = "externally_completed"
          /\ resolution'[c].approved = resolution[c].approved
          /\ resolution'[c].shipped = resolution[c].shipped
      BY <1>1, <2>2 DEF Resolutions
    <3> QED  BY <2>2, <3>1 DEF MailIsTrue
  <2>3. ASSUME resolution[c].status = "approved", resolution[c].approved = "replacement",
               resolution'[c] = [resolution[c] EXCEPT !.shipped = TRUE, !.version = @ + 1],
               mail'[c] = mail[c] \cup {"shipment_shipped"}
        PROVE  MailIsTrue(c)'
    <3>1. /\ resolution'[c].status = "approved"
          /\ resolution'[c].approved = resolution[c].approved
          /\ resolution'[c].shipped
      BY <1>1, <2>3 DEF Resolutions
    <3> QED  BY <2>3, <3>1 DEF MailIsTrue
  <2>4. ASSUME resolution[c].status \in {"requested", "approved"},
               resolution'[c] = [resolution[c] EXCEPT !.status = "cancelled",
                                   !.version = @ + 1],
               mail'[c] = mail[c]
        PROVE  MailIsTrue(c)'
    <3>1. /\ resolution'[c].status = "cancelled"
          /\ resolution'[c].approved = resolution[c].approved
          /\ resolution'[c].shipped = resolution[c].shipped
      BY <1>1, <2>4 DEF Resolutions
    <3> QED  BY <2>4, <3>1 DEF MailIsTrue
  <2> QED  BY <1>4, <2>1, <2>2, <2>3, <2>4 DEF RemedyMove
<1> QED  BY <1>2, <1>3, <1>4, RemedyMoves

LEMMA RowStaysFinal ==
  ASSUME Typed, [Next]_vars, NEW row, RowIsFinal(row) PROVE RowIsFinal(row)'
<1>1. row[1] \in Cases /\ resolution[row[1]].status = "externally_completed"
  BY DEF RowIsFinal, CompletedRefunds
<1> QED  BY <1>1, CompletedStays DEF RowIsFinal, CompletedRefunds

LEMMA ExportsMove ==
  ASSUME Typed, [Next]_vars, NEW b \in Exports
  PROVE  export'[b] = export[b] \/ \E r \in Requests : export'[b] = request[r].rows
<1>1. ASSUME NEW r \in Requests, Transitions(r) PROVE UNCHANGED export
  BY <1>1 DEF Transitions, GateTransition, WriteTransition
<1>2. ASSUME NEW r \in Requests, Reviews(r) PROVE UNCHANGED export
  BY <1>2 DEF Reviews, ReadReview, CloseReview
<1>3. ASSUME NEW r \in Requests, Remedies(r) PROVE UNCHANGED export
  BY <1>3 DEF Remedies, OpenResolutionPage, ApproveResolution, CompleteResolution,
              RecordShipment, CancelResolution, Decide
<1>4. ASSUME NEW r \in Requests, RefundExports(r)
      PROVE  export'[b] = export[b] \/ export'[b] = request[r].rows
  BY <1>4 DEF RefundExports, ReadExport, WriteExport, Typed, TypeOK
<1>5. ASSUME NEW r \in Requests, Abandon(r) PROVE UNCHANGED export
  BY <1>5 DEF Abandon
<1>6. ASSUME NEW e \in Escalations,
             \/ \E d \in Cases, category \in Categories, named \in Cases \cup {"none"} :
                  OpenEscalation(e, d, category, named)
             \/ CloseEscalation(e)
      PROVE  UNCHANGED export
  BY <1>6 DEF OpenEscalation, CloseEscalation
<1> QED  BY <1>1, <1>2, <1>3, <1>4, <1>5, <1>6 DEF Next, vars

LEMMA RemediesStayTrue ==
  ASSUME Typed, TransitionsStand, RemediesAreTrue, [Next]_vars PROVE RemediesAreTrue'
<1>1. ASSUME NEW c \in Cases PROVE MailIsTrue(c)'
  BY MailStaysTrue DEF RemediesAreTrue
<1>2. ASSUME NEW b \in Exports, NEW row \in export'[b] PROVE RowIsFinal(row)'
  BY <1>2, ExportsMove, RowStaysFinal DEF RemediesAreTrue
<1>3. ASSUME NEW r \in Requests, NEW row \in request'[r].rows PROVE RowIsFinal(row)'
  <2>1. CASE request'[r] = request[r]
    BY <1>3, <2>1, RowStaysFinal DEF RemediesAreTrue
  <2>2. ASSUME NEW all \in BOOLEAN, ReadExport(r, all) PROVE RowIsFinal(row)'
    BY <1>3, <2>2, ExportsOpen, RowStaysFinal
  <2>3. CASE request'[r].rows = {}
    BY <1>3, <2>3
  <2>4. ASSUME NEW c \in Cases, ReadReview(r, c) \/ OpenResolutionPage(r, c)
        PROVE  request'[r].rows = {}
    BY <2>4 DEF ReadReview, OpenResolutionPage, Idle, Typed, TypeOK
  <2>5. ASSUME NEW c \in Cases, NEW next \in CaseStatuses, NEW forced \in BOOLEAN,
               GateTransition(r, c, next, forced)
        PROVE  request'[r].rows = {}
    BY <2>5 DEF GateTransition, Idle, Typed, TypeOK
  <2>6. Idle.rows = {}
    BY DEF Idle
  <2> QED  BY <2>1, <2>2, <2>3, <2>4, <2>5, <2>6, RequestsMove DEF RequestMove
<1> QED  BY <1>1, <1>2, <1>3 DEF RemediesAreTrue

-----------------------------------------------------------------------------
(* Pages: one whose version is the current one shows the current row.      *)

PagesAreHonest ==
  \A r \in Requests : request[r].op = "page" =>
    LET now == resolution[request[r].case]
    IN  /\ request[r].shown.version <= now.version
        /\ request[r].shown.version = now.version => request[r].shown = now

LEMMA VersionsRise ==
  ASSUME Typed, [Next]_vars, NEW c \in Cases
  PROVE  resolution'[c] = resolution[c] \/ resolution'[c].version = resolution[c].version + 1
<1>1. resolution[c] \in Resolutions
  BY DEF Typed, TypeOK
<1>2. RemedyMove(c) => resolution'[c].version = resolution[c].version + 1
  BY <1>1 DEF RemedyMove, Resolutions
<1> QED  BY <1>2, RemedyMoves DEF RemedyStands

LEMMA PagesStayHonest ==
  ASSUME Typed, PagesAreHonest, [Next]_vars PROVE PagesAreHonest'
<1> SUFFICES ASSUME NEW r \in Requests, request'[r].op = "page"
             PROVE  LET now == resolution'[request'[r].case]
                    IN  /\ request'[r].shown.version <= now.version
                        /\ request'[r].shown.version = now.version => request'[r].shown = now
  BY DEF PagesAreHonest
<1>1. CASE request'[r] = request[r]
  <2> DEFINE c == request[r].case
  <2>1. c \in Cases /\ request[r].shown \in Resolutions /\ resolution[c] \in Resolutions
    BY <1>1 DEF Typed, TypeOK, RequestsNameTheirCase
  <2>2. request[r].shown.version \in Int /\ resolution[c].version \in Int
    BY <2>1 DEF Resolutions, Versions
  <2>3. /\ request[r].shown.version <= resolution[c].version
        /\ request[r].shown.version = resolution[c].version => request[r].shown = resolution[c]
    BY <1>1 DEF PagesAreHonest
  <2>4. resolution'[c] = resolution[c] \/ resolution'[c].version = resolution[c].version + 1
    BY <2>1, VersionsRise
  <2> QED  BY <1>1, <2>2, <2>3, <2>4
<1>2. ASSUME NEW c \in Cases, OpenResolutionPage(r, c)
      PROVE  /\ request'[r].case = c /\ request'[r].shown = resolution'[c]
             /\ resolution'[c].version \in Int
  BY <1>2 DEF OpenResolutionPage, Idle, Typed, TypeOK, Resolutions, Versions
<1>3. ASSUME NEW c \in Cases, ReadReview(r, c) PROVE FALSE
  <2>1. request'[r].op = "review"
    BY <1>3 DEF ReadReview, Idle, Typed, TypeOK
  <2> QED  BY <2>1
<1>4. ASSUME NEW all \in BOOLEAN, ReadExport(r, all) PROVE FALSE
  BY <1>4, ExportsOpen
<1>5. ASSUME NEW c \in Cases, NEW next \in CaseStatuses, NEW forced \in BOOLEAN,
             GateTransition(r, c, next, forced)
      PROVE  FALSE
  <2>1. request'[r].op = "transition"
    BY <1>5 DEF GateTransition, Idle, Typed, TypeOK
  <2> QED  BY <2>1
<1>6. request'[r] # Idle
  BY DEF Idle
<1> QED  BY <1>1, <1>2, <1>3, <1>4, <1>5, <1>6, RequestsMove DEF RequestMove

(* The action property needs that a page is closed by its own decision.    *)
LEMMA DecisionsAreInformed ==
  ASSUME Typed, PagesAreHonest, [Next]_vars, NEW r \in Requests, NEW c \in Cases,
         request[r].op = "page", request[r].case = c, request'[r] = Idle,
         resolution'[c] # resolution[c]
  PROVE  request[r].shown = resolution[c]
<1>1. request[r] # Idle
  BY DEF Idle
<1>2. ASSUME NEW s \in Requests, WriteTransition(s) PROVE FALSE
  BY <1>2 DEF WriteTransition
<1>3. PICK s \in Requests, d \in Cases :
        \/ \E type \in ResolutionTypes : ApproveResolution(s, d, type)
        \/ CompleteResolution(s, d)
        \/ RecordShipment(s, d)
        \/ \E administrator \in BOOLEAN : CancelResolution(s, d, administrator)
  BY <1>2, OthersLeaveRemedies
<1>4. /\ request' = [request EXCEPT ![s] = Idle]
      /\ VersionStands(s, d)
      /\ \A x \in Cases \ {d} : resolution'[x] = resolution[x]
  BY <1>3, RemediesMove
<1>5. s = r /\ d = c
  BY <1>1, <1>4 DEF Typed, TypeOK
<1> QED  BY <1>4, <1>5 DEF VersionStands, PagesAreHonest

-----------------------------------------------------------------------------
(* Cases.                                                                  *)

LEMMA ClosedStaysRemedied ==
  ASSUME Typed, TransitionsStand, ClosedMeansRemedied, [Next]_vars
  PROVE  ClosedMeansRemedied'
<1> SUFFICES ASSUME NEW c \in Cases, case'[c].status = "closed", ~case'[c].forced
             PROVE  resolution'[c].status = "externally_completed"
  BY DEF ClosedMeansRemedied
<1>1. CASE case'[c] = case[c]
  BY <1>1, CompletedStays DEF ClosedMeansRemedied
<1>2. ASSUME NEW r \in Requests, WriteTransition(r), request[r].case = c
      PROVE  resolution'[c].status = "externally_completed"
  <2>1. /\ request[r].op = "transition"
        /\ case'[c].status = request[r].next /\ case'[c].forced = request[r].forced
        /\ UNCHANGED resolution
    BY <1>2 DEF WriteTransition, Typed, TypeOK
  <2> QED  BY <1>2, <2>1 DEF TransitionsStand, TransitionStands
<1> QED  BY <1>1, <1>2, CasesMove

(* Every view of the rules with a status that is not terminal.             *)
LEMMA EveryViewHasAWay ==
  ASSUME Typed PROVE OpenCasesHaveAWay
<1> SUFFICES ASSUME NEW c \in Cases, case[c].status \notin TerminalStatuses
             PROVE  /\ \E queue \in DOMAIN QueueStatuses : Listed(queue, View(c))
                    /\ \/ AllowedTransitions(View(c)) # {}
                       \/ ResolutionActions(View(c)) # {}
                       \/ /\ Stage(View(c)) = "resolution_approval"
                          /\ resolution[c].status = "cancelled"
  BY DEF OpenCasesHaveAWay
<1> DEFINE status == case[c].status
<1>1. status \in {"submitted", "escalated", "triage", "under_review", "need_info",
                  "approved", "closure_review"}
  BY DEF Typed, TypeOK, CaseStatuses, TerminalStatuses
<1>2. resolution[c].status \in ResolutionStatuses
  BY DEF Typed, TypeOK, Resolutions
<1>3. \E queue \in DOMAIN QueueStatuses : Listed(queue, View(c))
  <2>1. DOMAIN QueueStatuses = {"standard", "manual_review", "need_info", "decision",
                                "closure", "incident"}
    BY DEF QueueStatuses
  <2>2. \E queue \in DOMAIN QueueStatuses \ {"incident"} : status \in QueueStatuses[queue]
    BY <1>1, <2>1 DEF QueueStatuses
  <2> QED  BY <2>2 DEF Listed, View
<1>4. CASE status \in {"submitted", "escalated", "triage", "under_review", "need_info"}
  <2>1. "rejected" \in BaseTransitions[status]
    BY <1>4 DEF BaseTransitions
  <2>2. "rejected" \in AllowedTransitions(View(c))
    BY <2>1 DEF AllowedTransitions, View
  <2> QED  BY <1>3, <2>2
<1>5. CASE status = "closure_review"
  <2>1. "under_review" \in BaseTransitions[status]
    BY <1>5 DEF BaseTransitions
  <2>2. "under_review" \in AllowedTransitions(View(c))
    BY <1>5, <2>1 DEF AllowedTransitions, View
  <2> QED  BY <1>3, <2>2
<1>6. CASE status = "approved"
  <2>1. CASE resolution[c].status = "requested"
    <3>1. "approve" \in ResolutionActions(View(c))
      BY <2>1 DEF ResolutionActions, View
    <3> QED  BY <1>3, <3>1
  <2>2. CASE resolution[c].status = "approved"
    <3>1. "complete" \in ResolutionActions(View(c))
      BY <2>2 DEF ResolutionActions, View
    <3> QED  BY <1>3, <3>1
  <2>3. CASE resolution[c].status = "externally_completed"
    <3>1. "closure_review" \in BaseTransitions[status]
      BY <1>6 DEF BaseTransitions
    <3>2. "closure_review" \in AllowedTransitions(View(c))
      BY <1>6, <2>3, <3>1 DEF AllowedTransitions, View, RemedyCompleted
    <3> QED  BY <1>3, <3>2
  <2>4. CASE resolution[c].status = "cancelled"
    <3>1. Stage(View(c)) = "resolution_approval"
      BY <1>6, <2>4 DEF Stage, ApprovedStage, View, IncidentPending, RemedyCompleted
    <3> QED  BY <1>3, <2>4, <3>1
  <2> QED  BY <1>2, <2>1, <2>2, <2>3, <2>4 DEF ResolutionStatuses
<1> QED  BY <1>1, <1>4, <1>5, <1>6

LEMMA RefusalsStick ==
  ASSUME Typed, TransitionsStand, [Next]_vars, NEW c \in Cases,
         case[c].status \in {"rejected", "duplicate", "withdrawn"}, ~case'[c].forced
  PROVE  PublicStatus(View(c))' = PublicStatus(View(c))
<1>1. case'[c] = case[c]
  <2>1. ASSUME NEW r \in Requests, WriteTransition(r), request[r].case = c PROVE FALSE
    <3>1. /\ request[r].op = "transition" /\ ~request[r].forced
      BY <2>1 DEF WriteTransition, Typed, TypeOK
    <3>2. request[r].next \in BaseTransitions[case[c].status]
      BY <2>1, <3>1 DEF TransitionsStand, TransitionStands
    <3> QED  BY <3>2 DEF BaseTransitions
  <2> QED  BY <2>1, CasesMove
<1> QED  BY <1>1 DEF PublicStatus, View

-----------------------------------------------------------------------------
(* The invariant of the desk, and what follows from it.                    *)

DeskInv == Typed /\ TransitionsStand /\ RemediesAreTrue /\ PagesAreHonest /\ ClosedMeansRemedied

LEMMA DeskInvariant == Spec => []DeskInv
<1>1. Init => DeskInv
  <2>1. Init => PagesAreHonest
    BY DEF Init, PagesAreHonest, Idle
  <2>2. Init => ClosedMeansRemedied
    BY DEF Init, ClosedMeansRemedied
  <2> QED  BY <2>1, <2>2, InitTyped, InitTransitionsStand, InitRemediesAreTrue DEF DeskInv
<1>2. DeskInv /\ [Next]_vars => DeskInv'
  BY StepTyped, TransitionsKeepStanding, RemediesStayTrue, PagesStayHonest,
     ClosedStaysRemedied DEF DeskInv
<1> QED  BY <1>1, <1>2, PTL DEF Spec

(* A case that the rules closed has a completed remedy, whatever was       *)
(* decided, reopened or forced around the transition.                      *)
THEOREM ClosuresAreRemedied == Spec => []ClosedMeansRemedied
<1>1. DeskInv => ClosedMeansRemedied
  BY DEF DeskInv
<1> QED  BY <1>1, DeskInvariant, PTL

(* No e-mail about a remedy is contradicted by what is recorded later.     *)
THEOREM MailStands == Spec => []MailedFactsStand
<1>1. DeskInv => MailedFactsStand
  <2>1. \A c \in Cases : ApprovalShown(View(c)) => resolution[c].approved # "none"
    BY DEF ApprovalShown, View
  <2> QED  BY <2>1 DEF DeskInv, RemediesAreTrue, MailIsTrue, MailedFactsStand
<1> QED  BY <1>1, DeskInvariant, PTL

(* Finance keeps what a batch said: an exported refund never changes.      *)
THEOREM ExportsStand == Spec => []ExportsAreFinal
<1>1. DeskInv => ExportsAreFinal
  BY DEF DeskInv, RemediesAreTrue, RowIsFinal, ExportsAreFinal
<1> QED  BY <1>1, DeskInvariant, PTL

(* Only an approved case whose remedy was cancelled is without a way on.   *)
THEOREM DeskHasAWay == Spec => []OpenCasesHaveAWay
<1>1. DeskInv => OpenCasesHaveAWay
  BY EveryViewHasAWay DEF DeskInv
<1> QED  BY <1>1, DeskInvariant, PTL

(* Comparing versions is enough to decide on the row the page showed.      *)
THEOREM DecisionsSeeTheRow == Spec => DecidedOnWhatWasShown
<1>1. DeskInv /\ [Next]_vars =>
        [\A r \in Requests, c \in Cases :
           /\ request[r].op = "page" /\ request[r].case = c /\ request'[r] = Idle
           /\ resolution'[c] # resolution[c]
           => request[r].shown = resolution[c]]_vars
  BY DecisionsAreInformed DEF DeskInv
<1> QED  BY <1>1, DeskInvariant, PTL DEF Spec, DecidedOnWhatWasShown

(* What the consumer of a refused or withdrawn claim reads stays.          *)
THEOREM RefusalsAreSticky == Spec => TerminalFactsAreSticky
<1>1. DeskInv /\ [Next]_vars =>
        [\A c \in Cases :
           /\ case[c].status \in {"rejected", "duplicate", "withdrawn"}
           /\ ~case'[c].forced
           => PublicStatus(View(c))' = PublicStatus(View(c))]_vars
  BY RefusalsStick DEF DeskInv
<1> QED  BY <1>1, DeskInvariant, PTL DEF Spec, TerminalFactsAreSticky

-----------------------------------------------------------------------------
(* Closing, where no case can have more escalations than the gate reads.   *)

GateIsClear(c) ==
  /\ \A e \in EscalationsOf(c) : ~escalation[e].open
  /\ OwesReview(c, EscalationsOf(c)) => review[c] \in DecidedReviews

ClosuresAreClear ==
  \A r \in Requests, c \in Cases :
    /\ request[r].op = "transition" /\ request[r].next = "closed"
    /\ request[r].case = c
    => GateIsClear(c)

(* A page that may hold every escalation holds every escalation.           *)
LEMMA PagesAreWhole ==
  ASSUME IsFiniteSet(Escalations), Cardinality(Escalations) <= EscalationsRead,
         NEW c \in Cases, NEW page \in PagesOf(c)
  PROVE  page = EscalationsOf(c)
<1> SUFFICES ASSUME page # EscalationsOf(c), page \subseteq EscalationsOf(c),
                    Cardinality(page) = EscalationsRead
             PROVE  FALSE
  BY DEF PagesOf
<1>1. EscalationsOf(c) \subseteq Escalations
  BY DEF EscalationsOf
<1>2. /\ IsFiniteSet(EscalationsOf(c))
      /\ Cardinality(EscalationsOf(c)) <= Cardinality(Escalations)
      /\ Cardinality(page) <= Cardinality(EscalationsOf(c))
      /\ Cardinality(page) = Cardinality(EscalationsOf(c)) => page = EscalationsOf(c)
  BY <1>1, FS_Subset
<1>3. IsFiniteSet(page)
  BY <1>2, FS_Subset
<1>4. /\ Cardinality(page) \in Nat /\ Cardinality(EscalationsOf(c)) \in Nat
      /\ Cardinality(Escalations) \in Nat /\ EscalationsRead \in Nat
  BY <1>2, <1>3, FS_CardinalityType, DeskAssumption
<1> QED  BY <1>2, <1>4

(* While a transition holds a case, escalations of it and its review only  *)
(* get settled.                                                            *)
LEMMA HeldCasesSettle ==
  ASSUME Typed, [Next]_vars, NEW c \in Cases, CaseLocked(c)
  PROVE  /\ \A e \in Escalations : escalation'[e].case = c =>
              /\ escalation[e].case = c
              /\ escalation'[e].category = escalation[e].category
              /\ escalation'[e].open => escalation[e].open
         /\ review[c] \in DecidedReviews => review'[c] \in DecidedReviews
<1> DEFINE Escs == \A e \in Escalations : escalation'[e].case = c =>
                     /\ escalation[e].case = c
                     /\ escalation'[e].category = escalation[e].category
                     /\ escalation'[e].open => escalation[e].open
           Rev == review[c] \in DecidedReviews => review'[c] \in DecidedReviews
<1>1. ASSUME NEW r \in Requests, Transitions(r) PROVE UNCHANGED <<escalation, review>>
  BY <1>1 DEF Transitions, GateTransition, WriteTransition
<1>2. ASSUME NEW r \in Requests, Reviews(r) PROVE UNCHANGED escalation /\ Rev
  BY <1>2 DEF Reviews, ReadReview, CloseReview, Typed, TypeOK
<1>3. ASSUME NEW r \in Requests, Remedies(r) PROVE UNCHANGED <<escalation, review>>
  BY <1>3 DEF Remedies, OpenResolutionPage, ApproveResolution, CompleteResolution,
              RecordShipment, CancelResolution, Decide
<1>4. ASSUME NEW r \in Requests, RefundExports(r) PROVE UNCHANGED <<escalation, review>>
  BY <1>4 DEF RefundExports, ReadExport, WriteExport
<1>5. ASSUME NEW r \in Requests, Abandon(r) PROVE UNCHANGED <<escalation, review>>
  BY <1>5 DEF Abandon
<1>6. ASSUME NEW e \in Escalations, NEW d \in Cases, NEW category \in Categories,
             NEW named \in Cases \cup {"none"}, OpenEscalation(e, d, category, named)
      PROVE  Escs /\ Rev
  <2>1. d # c
    BY <1>6 DEF OpenEscalation
  <2>2. Escs
    BY <1>6, <2>1 DEF OpenEscalation, Typed, TypeOK
  <2>3. Rev
    BY <1>6, <2>1 DEF OpenEscalation, Typed, TypeOK
  <2> QED  BY <2>2, <2>3
<1>7. ASSUME NEW e \in Escalations, CloseEscalation(e) PROVE Escs /\ UNCHANGED review
  <2>1. /\ escalation[e] \in [case : Cases, category : Categories, open : BOOLEAN]
        /\ escalation' = [escalation EXCEPT ![e].open = FALSE]
        /\ UNCHANGED review
    BY <1>7 DEF CloseEscalation, Typed, TypeOK, NoEscalation
  <2>2. /\ \A x \in Escalations \ {e} : escalation'[x] = escalation[x]
        /\ escalation'[e].case = escalation[e].case
        /\ escalation'[e].category = escalation[e].category
        /\ ~escalation'[e].open
    BY <2>1 DEF Typed, TypeOK
  <2> QED  BY <2>1, <2>2
<1> QED  BY <1>1, <1>2, <1>3, <1>4, <1>5, <1>6, <1>7 DEF Next, vars

LEMMA ClosuresStayClear ==
  ASSUME IsFiniteSet(Escalations), Cardinality(Escalations) <= EscalationsRead,
         Typed, TransitionsStand, ClosuresAreClear, [Next]_vars
  PROVE  ClosuresAreClear'
<1> SUFFICES ASSUME NEW r \in Requests, NEW c \in Cases, request'[r].op = "transition",
                    request'[r].next = "closed", request'[r].case = c
             PROVE  GateIsClear(c)'
  BY DEF ClosuresAreClear
<1>1. CASE request'[r] = request[r]
  <2>1. CaseLocked(c) /\ GateIsClear(c)
    BY <1>1 DEF CaseLocked, ClosuresAreClear
  <2>2. case'[c] = case[c]
    <3>1. ASSUME NEW s \in Requests, WriteTransition(s), request[s].case = c PROVE FALSE
      <4>1. request[s].op = "transition" /\ request'[s] = Idle
        BY <3>1 DEF WriteTransition, Typed, TypeOK
      <4>2. s = r
        BY <1>1, <3>1, <4>1 DEF TransitionsStand, OneTransitionPerCase
      <4> QED  BY <1>1, <4>1, <4>2 DEF Idle
    <3> QED  BY <2>1, <3>1, CasesMove
  <2>3. /\ \A e \in Escalations : escalation'[e].case = c =>
             /\ escalation[e].case = c
             /\ escalation'[e].category = escalation[e].category
             /\ escalation'[e].open => escalation[e].open
        /\ review[c] \in DecidedReviews => review'[c] \in DecidedReviews
    BY <2>1, HeldCasesSettle
  <2>4. GateIsClear(c)'
    BY <2>1, <2>2, <2>3 DEF GateIsClear, EscalationsOf, OwesReview
  <2> QED  BY <2>4
<1>2. ASSUME NEW d \in Cases, NEW next \in CaseStatuses, NEW forced \in BOOLEAN,
             GateTransition(r, d, next, forced)
      PROVE  GateIsClear(c)'
  <2>1. /\ d = c /\ next = "closed"
        /\ UNCHANGED <<case, review, escalation>>
    BY <1>2 DEF GateTransition, Idle, Typed, TypeOK
  <2>2. PICK page \in PagesOf(c) : ClosingAllowed(c, page)
    BY <1>2, <2>1 DEF GateTransition
  <2>3. page = EscalationsOf(c)
    BY <2>2, PagesAreWhole
  <2>4. GateIsClear(c)
    BY <2>2, <2>3 DEF ClosingAllowed, GateIsClear
  <2> QED  BY <2>1, <2>4 DEF GateIsClear, EscalationsOf, OwesReview
<1>3. ASSUME NEW d \in Cases, ReadReview(r, d) PROVE FALSE
  <2>1. request'[r].op = "review"
    BY <1>3 DEF ReadReview, Idle, Typed, TypeOK
  <2> QED  BY <2>1
<1>4. ASSUME NEW d \in Cases, OpenResolutionPage(r, d) PROVE FALSE
  <2>1. request'[r].op = "page"
    BY <1>4 DEF OpenResolutionPage, Idle, Typed, TypeOK
  <2> QED  BY <2>1
<1>5. ASSUME NEW all \in BOOLEAN, ReadExport(r, all) PROVE FALSE
  BY <1>5, ExportsOpen
<1>6. request'[r] # Idle
  BY DEF Idle
<1> QED  BY <1>1, <1>2, <1>3, <1>4, <1>5, <1>6, RequestsMove DEF RequestMove

(* The step that closes a case leaves nothing open behind it, provided the *)
(* page of the closing gate cannot be too short for the escalations.       *)
THEOREM ClosingIsSettled ==
  ASSUME IsFiniteSet(Escalations), Cardinality(Escalations) <= EscalationsRead
  PROVE  Spec => ClosingOwesNothing
<1> DEFINE Inv == DeskInv /\ ClosuresAreClear
<1>1. Init => ClosuresAreClear
  BY DEF Init, ClosuresAreClear, Idle
<1>2. Inv /\ [Next]_vars => ClosuresAreClear'
  BY ClosuresStayClear DEF DeskInv
<1>3. Inv /\ [Next]_vars =>
        [\A c \in Cases :
           case[c].status # "closed" /\ case'[c].status = "closed" =>
             /\ \A e \in EscalationsOf(c) : ~escalation[e].open
             /\ OwesReview(c, EscalationsOf(c)) => review[c] \in DecidedReviews]_vars
  <2> SUFFICES ASSUME Inv, [Next]_vars, NEW c \in Cases,
                      case[c].status # "closed", case'[c].status = "closed"
               PROVE  GateIsClear(c)
    BY DEF GateIsClear
  <2>1. PICK r \in Requests : WriteTransition(r) /\ request[r].case = c
    BY CasesMove DEF DeskInv
  <2>2. request[r].op = "transition" /\ request[r].next = "closed"
    BY <2>1 DEF WriteTransition, DeskInv, Typed, TypeOK
  <2> QED  BY <2>1, <2>2 DEF ClosuresAreClear
<1> HIDE DEF Inv
<1>4. Spec => []Inv
  <2>1. Inv <=> DeskInv /\ ClosuresAreClear
    BY DEF Inv
  <2> QED  BY <1>1, <1>2, <2>1, DeskInvariant, PTL DEF Spec
<1> QED  BY <1>3, <1>4, PTL DEF Spec, ClosingOwesNothing
=============================================================================
