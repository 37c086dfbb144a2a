--------------------------- MODULE ConsumerAccounts ---------------------------
(***************************************************************************)
(* Consumer accounts and what they show of a claim                         *)
(* (routes/consumer-auth.ts), beside the lookup of a case by its reference *)
(* and an e-mail address                                                   *)
(* (modules/cases/drizzle-case-status-lookup-service.ts).                  *)
(*                                                                         *)
(* Accounts and claims meet only in the hash of an address.  An address is *)
(* a mailbox and the way it was typed; the hash of the typed address says  *)
(* nothing of the mailbox unless the address was normalised first.         *)
(* Registration checks, inserts and issues a session in three statements,  *)
(* without a transaction.                                                  *)
(***************************************************************************)
EXTENDS CaseWorkflow

CONSTANTS
  Mailboxes,      \* mailboxes of consumers
  Accounts,       \* rows of consumer_users
  Tokens,         \* bearer tokens
  Registrations,  \* registrations under way
  Claims          \* claims consumers file

ASSUME AccountAssumption == "none" \notin Accounts

VARIABLES
  consumer,      \* consumer_users: the address of each account
  token,         \* consumer_sessions
  registration,  \* what each registration has established
  filed          \* claims: the address stored with each, and the case

accountVars == <<consumer, token, registration, filed>>

-----------------------------------------------------------------------------
Spellings == {"as typed", "normal"}
Addresses == Mailboxes \X Spellings
NoAddress == <<>>
NotFiled  == [address |-> NoAddress]

(* A case without an incident, as module CaseWorkflow sees it.             *)
CaseView ==
  [status : CaseStatuses, incident : {FALSE}, review : {"none"},
   resolution : [status : ResolutionStatuses, approved : ResolutionTypes \cup {"none"}]]

NoToken == [of |-> "none", status |-> "absent"]
NoRegistration == [at |-> "ready", address |-> NoAddress, account |-> "none"]

AccountTypeOK ==
  /\ consumer \in [Accounts -> Addresses \cup {NoAddress}]
  /\ token \in [Tokens -> [of : Accounts, status : {"active", "revoked", "expired"}]
                            \cup {NoToken}]
  /\ registration \in
       [Registrations -> [at : {"ready", "checked", "inserted"},
                          address : Addresses \cup {NoAddress},
                          account : Accounts \cup {"none"}]]
  /\ filed \in [Claims -> [address : Addresses, view : CaseView] \cup {NotFiled}]

AccountInit ==
  /\ consumer = [u \in Accounts |-> NoAddress]
  /\ token = [t \in Tokens |-> NoToken]
  /\ registration = [r \in Registrations |-> NoRegistration]
  /\ filed = [c \in Claims |-> NotFiled]

-----------------------------------------------------------------------------
(* trim and toLowerCase, and the HMAC of an address.                       *)
Normal(address) == <<address[1], "normal">>
LookupHash(address) == <<"hash of", address>>

Registered(u) == consumer[u] # NoAddress

AccountsAt(address) ==
  {u \in Accounts : Registered(u) /\ LookupHash(consumer[u]) = LookupHash(address)}

(* Registration refuses an address that has an account.                    *)
CheckAddress(r, address) ==
  /\ registration[r] = NoRegistration
  /\ AccountsAt(Normal(address)) = {}
  /\ registration' = [registration EXCEPT ![r] =
       [at |-> "checked", address |-> Normal(address), account |-> "none"]]
  /\ UNCHANGED <<consumer, token, filed>>

(* Mutant: the index on the hash is not unique. *)
IndexAdmitsAll(address) == TRUE

IndexAdmits(address) == AccountsAt(address) = {}

(* The unique index stops the second of two that passed the check; the     *)
(* registration ends in an error.                                          *)
InsertAccount(r, u) ==
  /\ registration[r].at = "checked" /\ ~Registered(u)
  /\ IF IndexAdmits(registration[r].address)
     THEN /\ consumer' = [consumer EXCEPT ![u] = registration[r].address]
          /\ registration' = [registration EXCEPT ![r].at = "inserted", ![r].account = u]
     ELSE registration' = [registration EXCEPT ![r] = NoRegistration] /\ UNCHANGED consumer
  /\ UNCHANGED <<token, filed>>

(* issueSession.                                                           *)
IssueSession(t, u) ==
  /\ token[t] = NoToken
  /\ token' = [token EXCEPT ![t] = [of |-> u, status |-> "active"]]

EndRegistration(r, t) ==
  /\ registration[r].at = "inserted"
  /\ IssueSession(t, registration[r].account)
  /\ registration' = [registration EXCEPT ![r] = NoRegistration]
  /\ UNCHANGED <<consumer, filed>>

(* The service stops between two statements: an account without a session  *)
(* stays, and its owner logs in.                                           *)
BreakRegistration(r) ==
  /\ registration[r] # NoRegistration
  /\ registration' = [registration EXCEPT ![r] = NoRegistration]
  /\ UNCHANGED <<consumer, token, filed>>

LogIn(address, t) ==
  /\ \E u \in AccountsAt(Normal(address)) : IssueSession(t, u)
  /\ UNCHANGED <<consumer, registration, filed>>

(* resolveBearer: a session that is active and in time.                    *)
Bearer(t, u) == token[t] = [of |-> u, status |-> "active"]

(* Logging out revokes the session of the call and no other; a session     *)
(* ends by itself after a week.                                            *)
EndSession(t, how) ==
  /\ \E u \in Accounts : Bearer(t, u)
  /\ token' = [token EXCEPT ![t].status = how]
  /\ UNCHANGED <<consumer, registration, filed>>

-----------------------------------------------------------------------------
(* Claims.                                                                 *)

(* encryptSubmission.                                                      *)
StoredAddress(address) == Normal(address)

FileClaim(c, address) ==
  /\ filed[c] = NotFiled
  /\ \E status \in {"submitted", "triage"} :
       filed' = [filed EXCEPT ![c] =
         [address |-> StoredAddress(address),
          view    |-> [status |-> status, incident |-> FALSE, review |-> "none",
                       resolution |-> [status |-> "requested", approved |-> "none"]]]]
  /\ UNCHANGED <<consumer, token, registration>>

(* Staff move the case or its resolution (module CaseDesk).                *)
MoveCase(c) ==
  LET view == filed[c].view
      actions == ResolutionActions(view)
      resolved(status, approved) ==
        filed' = [filed EXCEPT ![c].view.resolution =
                    [status |-> status, approved |-> approved]]
  IN  /\ filed[c] # NotFiled
      /\ \/ \E next \in AllowedTransitions(view) : filed' = [filed EXCEPT ![c].view.status = next]
         \/ "approve" \in actions /\ \E type \in ResolutionTypes : resolved("approved", type)
         \/ "complete" \in actions /\ resolved("externally_completed", view.resolution.approved)
         \/ "cancel" \in actions /\ resolved("cancelled", view.resolution.approved)
      /\ UNCHANGED <<consumer, token, registration>>

(* Mutant: a case that waits for information is told as under review. *)
AccountStatusQuietly(view) ==
  IF view.status \in {"rejected", "duplicate", "withdrawn"} THEN "rejected"
  ELSE IF view.status = "closed" \/ RemedyCompleted(view) THEN "resolved"
  ELSE IF view.resolution.status = "approved" \/ view.status \in {"approved", "closure_review"}
       THEN "remedy_issued"
  ELSE IF view.status \in {"triage", "under_review", "need_info"} THEN "under_review"
  ELSE "submitted"

(* normalizeClaimStatus: what an account is told of a case.                *)
AccountStatus(view) ==
  IF view.status \in {"rejected", "duplicate", "withdrawn"} THEN "rejected"
  ELSE IF view.status = "closed" \/ RemedyCompleted(view) THEN "resolved"
  ELSE IF view.resolution.status = "approved" \/ view.status \in {"approved", "closure_review"}
       THEN "remedy_issued"
  ELSE CASE view.status \in {"triage", "under_review"} -> "under_review"
         [] view.status = "need_info"                  -> "action_required"
         [] OTHER                                      -> "submitted"

(* The list finds claims by the hash, the detail compares addresses, and   *)
(* the lookup hashes the address it is given.                              *)
ClaimsOf(u) == {c \in Claims : filed[c] # NotFiled
                               /\ LookupHash(filed[c].address) = LookupHash(Normal(consumer[u]))}
Opens(u, c) == filed[c] # NotFiled /\ Normal(filed[c].address) = Normal(consumer[u])
Finds(c, address) ==
  filed[c] # NotFiled /\ LookupHash(filed[c].address) = LookupHash(Normal(address))

AccountNext ==
  \/ \E r \in Registrations :
       \/ \E address \in Addresses : CheckAddress(r, address)
       \/ \E u \in Accounts : InsertAccount(r, u)
       \/ \E t \in Tokens : EndRegistration(r, t)
       \/ BreakRegistration(r)
  \/ \E t \in Tokens :
       \/ \E address \in Addresses : LogIn(address, t)
       \/ \E how \in {"revoked", "expired"} : EndSession(t, how)
  \/ \E c \in Claims : MoveCase(c) \/ \E address \in Addresses : FileClaim(c, address)

AccountSpec == AccountInit /\ [][AccountNext]_accountVars

-----------------------------------------------------------------------------
(* What the account says where the lookup shows this status.               *)
SameInAccount ==
  [received               |-> {"submitted"},
   in_review              |-> {"under_review"},
   action_required        |-> {"action_required"},
   resolution_approved    |-> {"remedy_issued"},
   resolution_in_progress |-> {"remedy_issued"},
   completed              |-> {"resolved"},
   not_approved           |-> {"rejected"},
   closed                 |-> {"resolved", "rejected"}]

(* The two views of a case say the same, in both directions, with one      *)
(* exception: of an open case the account tells a remedy that was approved *)
(* or completed, whatever the lookup shows of the case, even that it waits *)
(* for the consumer.                                                       *)
ViewsAgreeOn(view) ==
  LET shown == PublicStatus(view)
      told  == AccountStatus(view)
  IN  /\ \/ told \in SameInAccount[shown]
         \/ /\ shown \notin {"not_approved", "closed", "completed"}
            /\ told = IF RemedyCompleted(view) THEN "resolved" ELSE "remedy_issued"
            /\ view.resolution.status \in {"approved", "externally_completed"}
      /\ told = "rejected" <=> shown = "not_approved" \/ view.status = "withdrawn"

(* A mailbox has one account, however many registrations race for it; its  *)
(* claims, filed before or after and however the address was typed, are    *)
(* the ones the account lists, opens and the lookup finds with the         *)
(* address; and what the account says of each and what the lookup shows    *)
(* agree in both directions but for the exception of ViewsAgreeOn          *)
(* (normalizeClaimStatus, toPublicStatus).                                 *)
ConsumersSeeTheirClaims ==
  /\ \A u, v \in Accounts :
       Registered(u) /\ Registered(v) /\ consumer[u][1] = consumer[v][1] => u = v
  /\ \A c \in Claims : filed[c] # NotFiled =>
       /\ \A address \in Addresses :
            Finds(c, address) <=> address[1] = filed[c].address[1]
       /\ \A u \in Accounts : Registered(u) =>
            /\ c \in ClaimsOf(u) <=> consumer[u][1] = filed[c].address[1]
            /\ c \in ClaimsOf(u) <=> Opens(u, c)
       /\ ViewsAgreeOn(filed[c].view)
=============================================================================
