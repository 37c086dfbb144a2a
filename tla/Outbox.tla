------------------------------- MODULE Outbox -------------------------------
(***************************************************************************)
(* Transactional e-mail: communications and outbox_events, the worker that *)
(* drains them (jobs/drizzle-outbox-worker.ts), the mail provider, and the *)
(* provider's delivery events (recordDeliveryEvent).                       *)
(*                                                                         *)
(* An e-mail is a communication with its outbox event: both are inserted   *)
(* in the transaction of the operation that wants the mail, under one      *)
(* deduplication key, so they are named by one identifier here.  The       *)
(* worker claims a batch in a transaction of its own and then treats its   *)
(* events one after the other; every other statement of it commits by      *)
(* itself.  The provider numbers the messages it accepts.                  *)
(***************************************************************************)
EXTENDS Naturals, FiniteSets

CONSTANTS
  Emails,              \* what operations can queue
  Workers,             \* concurrent runs of the worker
  Hooks,               \* concurrent invocations of the delivery webhook
  Kinds,               \* what the provider reports: a status, or some other event
  MaxAttempts,         \* attempts after which an event is a dead letter
  BatchLimit,          \* events a run claims at most
  MaxMessages,         \* bound: messages the provider ever accepts
  MaxReports           \* bound: webhook events the provider ever sends

ASSUME OutboxAssumption ==
  /\ "no e-mail" \notin Emails
  /\ Kinds \subseteq {"delivered", "bounced", "failed", "other"}
  /\ MaxAttempts \in Nat \ {0} /\ BatchLimit \in Nat \ {0} /\ MaxMessages \in Nat
  /\ MaxReports \in Nat

NoEmail   == "no e-mail"
NoMessage == 0
Messages  == 1..MaxMessages

VARIABLES
  event,          \* outbox_events: status, attempts, is available_at past
  communication,  \* communications: status and provider_message_id
  worker,         \* the rest of each run's batch and what it is doing
  message,        \* provider: the e-mail behind each accepted message
  delivery,       \* webhook_events, by message and kind of report
  hook,           \* what each webhook invocation has established
  orphan          \* history: the events that stopped runs left in processing

vars == <<event, communication, worker, message, delivery, hook, orphan>>

-----------------------------------------------------------------------------
OutboxStatuses == {"absent", "pending", "processing", "succeeded", "dead_letter"}
CommunicationStatuses ==
  {"absent", "queued", "sent", "delivered", "bounced", "failed"}

EventRow == [status   : OutboxStatuses,
             attempts : 0..MaxAttempts,
             due      : BOOLEAN]

CommunicationRow == [status  : CommunicationStatuses,
                     message : {NoMessage} \cup Messages]

DeliveryStatuses == {"none", "processing", "processed", "failed"}

TypeOK ==
  /\ event \in [Emails -> EventRow]
  /\ communication \in [Emails -> CommunicationRow]
  /\ worker \in [Workers -> [todo    : SUBSET Emails,
                             at      : {"between", "sent", "threw"},
                             email   : Emails \cup {NoEmail},
                             message : {NoMessage} \cup Messages]]
  /\ message \in [Messages -> Emails \cup {NoEmail}]
  /\ delivery \in [Messages \X Kinds -> DeliveryStatuses]
  /\ hook \in [Hooks -> [at      : {"idle", "recorded", "found"},
                         message : {NoMessage} \cup Messages,
                         kind    : Kinds \cup {"none"},
                         email   : Emails \cup {NoEmail}]]
  /\ orphan \subseteq Emails

IdleRun  == [todo |-> {}, at |-> "between", email |-> NoEmail, message |-> NoMessage]
IdleHook == [at |-> "idle", message |-> NoMessage, kind |-> "none", email |-> NoEmail]

Init ==
  /\ event = [e \in Emails |-> [status |-> "absent", attempts |-> 0, due |-> TRUE]]
  /\ communication = [e \in Emails |-> [status |-> "absent", message |-> NoMessage]]
  /\ worker = [w \in Workers |-> IdleRun]
  /\ message = [n \in Messages |-> NoEmail]
  /\ delivery = [x \in Messages \X Kinds |-> "none"]
  /\ hook = [h \in Hooks |-> IdleHook]
  /\ orphan = {}

-----------------------------------------------------------------------------
(* queue(): part of the transaction of its caller.  A second use of the    *)
(* key is refused by the unique index on message_key.                      *)
Queue(e) ==
  /\ communication[e].status = "absent"
  /\ communication' = [communication EXCEPT ![e].status = "queued"]
  /\ event' = [event EXCEPT ![e].status = "pending"]
  /\ UNCHANGED <<worker, message, delivery, hook, orphan>>

BecomeDue(e) ==
  /\ ~event[e].due
  /\ event' = [event EXCEPT ![e].due = TRUE]
  /\ UNCHANGED <<communication, worker, message, delivery, hook, orphan>>

-----------------------------------------------------------------------------
(* The worker.                                                             *)

(* Mutant: events another run claimed and has not settled are due again. *)
DueOrStale == {e \in Emails : event[e].status \in {"pending", "processing"} /\ event[e].due
                                /\ event[e].attempts < MaxAttempts}

Due == {e \in Emails : event[e].status = "pending" /\ event[e].due}

(* Selected FOR UPDATE SKIP LOCKED and marked in one transaction.          *)
Claim(w, batch) ==
  /\ worker[w] = IdleRun
  /\ batch # {} /\ batch \subseteq Due /\ Cardinality(batch) <= BatchLimit
  /\ event' = [e \in Emails |->
                 IF e \in batch
                 THEN [event[e] EXCEPT !.status = "processing", !.attempts = @ + 1]
                 ELSE event[e]]
  /\ worker' = [worker EXCEPT ![w].todo = batch]
  /\ UNCHANGED <<communication, message, delivery, hook, orphan>>

(* Loading the e-mail, rendering or decrypting fails, or the provider      *)
(* refuses: nothing was sent.                                              *)
SendNothing(w, e) ==
  /\ worker[w].at = "between" /\ e \in worker[w].todo
  /\ worker' = [worker EXCEPT ![w].at = "threw", ![w].email = e]
  /\ UNCHANGED <<event, communication, message, delivery, hook, orphan>>

(* The provider accepts the message; its answer arrives or is lost.        *)
Send(w, e, n) ==
  /\ worker[w].at = "between" /\ e \in worker[w].todo
  /\ \A k \in Messages : (message[k] = NoEmail) <=> (k >= n)
  /\ message' = [message EXCEPT ![n] = e]
  /\ \/ worker' = [worker EXCEPT ![w].at = "sent", ![w].email = e, ![w].message = n]
     \/ worker' = [worker EXCEPT ![w].at = "threw", ![w].email = e]
  /\ UNCHANGED <<event, communication, delivery, hook, orphan>>

NextInBatch(w) ==
  worker' = [worker EXCEPT ![w] = [IdleRun EXCEPT !.todo =
               worker[w].todo \ {worker[w].email}]]

(* Mutant: the event is settled before the communication is. *)
RecordSentEvent(w) ==
  /\ worker[w].at = "sent"
  /\ event' = [event EXCEPT ![worker[w].email].status = "succeeded"]
  /\ NextInBatch(w)
  /\ UNCHANGED <<communication, message, delivery, hook, orphan>>

(* Event and communication are updated in one transaction, which commits,  *)
(* fails, or commits without the worker hearing of it.                     *)
RecordSent(w) ==
  LET e == worker[w].email
  IN  /\ worker[w].at = "sent"
      /\ event' = [event EXCEPT ![e].status = "succeeded"]
      /\ communication' = [communication EXCEPT
                             ![e] = [status |-> "sent", message |-> worker[w].message]]
      /\ \/ NextInBatch(w)
         \/ worker' = [worker EXCEPT ![w].at = "threw", ![w].message = NoMessage]
      /\ UNCHANGED <<message, delivery, hook, orphan>>

RecordThrows(w) ==
  /\ worker[w].at = "sent"
  /\ worker' = [worker EXCEPT ![w].at = "threw", ![w].message = NoMessage]
  /\ UNCHANGED <<event, communication, message, delivery, hook, orphan>>

(* Mutant: there is no last attempt. *)
RetriesAlways(attempts) == TRUE

Retries(attempts) == attempts < MaxAttempts

(* Mutant: a failure leaves the event as the claim left it. *)
FailInPlace(w) ==
  /\ worker[w].at = "threw"
  /\ NextInBatch(w)
  /\ UNCHANGED <<event, communication, message, delivery, hook, orphan>>

(* fail(), with the attempts of the claim.                                 *)
Fail(w) ==
  LET e == worker[w].email
  IN  /\ worker[w].at = "threw"
      /\ event' = [event EXCEPT
                     ![e].status = IF Retries(event[e].attempts) THEN "pending"
                                   ELSE "dead_letter",
                     ![e].due = FALSE]
      /\ NextInBatch(w)
      /\ UNCHANGED <<communication, message, delivery, hook, orphan>>

(* The function is stopped, or fail() throws out of the loop: the rest of  *)
(* the batch stays as the claim left it.                                   *)
Interrupt(w) ==
  /\ worker[w] # IdleRun
  /\ worker' = [worker EXCEPT ![w] = IdleRun]
  /\ orphan' = orphan \cup {e \in worker[w].todo : event[e].status = "processing"}
  /\ UNCHANGED <<event, communication, message, delivery, hook>>

-----------------------------------------------------------------------------
(* The delivery webhook.  The provider reports on any message it accepted, *)
(* in any order, and reports again until it is answered.                   *)

(* Mutant: only a processed event is a duplicate, with nothing in between. *)
Unprocessed(n, k) == delivery[<<n, k>>] # "processed"

Unknown(n, k) == delivery[<<n, k>>] = "none"

(* What the provider reported so far. *)
Recorded == {x \in Messages \X Kinds : delivery[x] # "none"}

(* Looked up and inserted; of two that look at once the unique index lets  *)
(* one insert.                                                             *)
ReceiveReport(h, n, k) ==
  /\ hook[h] = IdleHook
  /\ message[n] # NoEmail
  /\ Unknown(n, k)
  /\ Cardinality(Recorded \cup {<<n, k>>}) <= MaxReports
  /\ delivery' = [delivery EXCEPT ![<<n, k>>] = "processing"]
  /\ hook' = [hook EXCEPT ![h] = [at |-> "recorded", message |-> n, kind |-> k,
                                 email |-> NoEmail]]
  /\ UNCHANGED <<event, communication, worker, message, orphan>>

Tracked(n) == {e \in Emails : communication[e].message = n}

FindCommunication(h) ==
  LET n == hook[h].message
  IN  /\ hook[h].at = "recorded"
      /\ \E e \in Tracked(n) : hook' = [hook EXCEPT ![h].at = "found", ![h].email = e]
      /\ UNCHANGED <<event, communication, worker, message, delivery, orphan>>

(* A message that is not tracked, or not yet.                              *)
FindNoCommunication(h) ==
  LET n == hook[h].message
  IN  /\ hook[h].at = "recorded"
      /\ Tracked(n) = {}
      /\ delivery' = [delivery EXCEPT ![<<n, hook[h].kind>>] = "failed"]
      /\ hook' = [hook EXCEPT ![h] = IdleHook]
      /\ UNCHANGED <<event, communication, worker, message, orphan>>

(* Communication and webhook event in one transaction.                     *)
ApplyReport(h) ==
  /\ hook[h].at = "found"
  /\ hook[h].kind # "other"
  /\ communication' = [communication EXCEPT ![hook[h].email].status = hook[h].kind]
  /\ delivery' = [delivery EXCEPT ![<<hook[h].message, hook[h].kind>>] = "processed"]
  /\ hook' = [hook EXCEPT ![h] = IdleHook]
  /\ UNCHANGED <<event, worker, message, orphan>>

(* An event type that stands for no status: the update has no value to set *)
(* and throws, the transaction rolls back and the webhook event stays      *)
(* processing, so that a redelivery finds it and is ignored.               *)
ReportThrows(h) ==
  /\ hook[h].at = "found"
  /\ hook[h].kind = "other"
  /\ hook' = [hook EXCEPT ![h] = IdleHook]
  /\ UNCHANGED <<event, communication, worker, message, delivery, orphan>>

StopHook(h) ==
  /\ hook[h] # IdleHook
  /\ hook' = [hook EXCEPT ![h] = IdleHook]
  /\ UNCHANGED <<event, communication, worker, message, delivery, orphan>>

-----------------------------------------------------------------------------
Work(w) ==
  \/ \E e \in Emails : SendNothing(w, e) \/ \E n \in Messages : Send(w, e, n)
  \/ RecordSent(w) \/ RecordThrows(w) \/ Fail(w)

Next ==
  \/ \E e \in Emails : Queue(e) \/ BecomeDue(e)
  \/ \E w \in Workers : \/ \E batch \in SUBSET Emails : Claim(w, batch)
                        \/ Work(w) \/ Interrupt(w)
  \/ \E h \in Hooks : \/ \E n \in Messages, k \in Kinds : ReceiveReport(h, n, k)
                      \/ FindCommunication(h) \/ FindNoCommunication(h)
                      \/ ApplyReport(h) \/ ReportThrows(h) \/ StopHook(h)

Spec == Init /\ [][Next]_vars

ClaimOf(e) == \E w \in Workers, batch \in SUBSET Emails :
                e \in batch /\ Claim(w, batch)

(* The outbox job is called again and again, and a run goes on with its    *)
(* batch unless it is stopped.  A claim takes due events in no order, so   *)
(* that each is taken some time means that the backlog fits the batch      *)
(* limit again and again.                                                  *)
FairSpec ==
  /\ Spec
  /\ \A e \in Emails : WF_vars(BecomeDue(e)) /\ SF_vars(ClaimOf(e))
  /\ \A w \in Workers : WF_vars(Work(w))

-----------------------------------------------------------------------------
(* Properties.                                                             *)

(* Two runs never have the same e-mail in hand, and each attempt sends at  *)
(* most one message: the claim marks and counts what it selects before     *)
(* anybody else can select it, and an event becomes pending only once the  *)
(* run that failed it is done with it, so that lost answers, failed        *)
(* records and stopped runs never send an e-mail more often than           *)
(* MAX_ATTEMPTS times (runBatch, fail).                                    *)
SendsAreClaimed ==
  /\ \A v, w \in Workers : v # w => worker[v].todo \cap worker[w].todo = {}
  /\ \A e \in Emails :
       Cardinality({n \in Messages : message[n] = e}) <= event[e].attempts

(* What is recorded about an e-mail is about that e-mail: a communication  *)
(* names a message the provider accepted for it, no two name the same, and *)
(* one that succeeded names some (processEvent).                           *)
RecordsAreTrue ==
  \A e \in Emails :
    /\ communication[e].message # NoMessage => message[communication[e].message] = e
    /\ event[e].status = "succeeded" => communication[e].message # NoMessage
    /\ communication[e].status \notin {"absent", "queued"} =>
         communication[e].message # NoMessage

(* However often a report arrives, and whatever arrives beside it, it      *)
(* moves a communication at most once, in the step that marks it processed *)
(* (recordDeliveryEvent).                                                  *)
ReportsAreAppliedOnce ==
  [][\A e \in Emails, k \in Kinds :
       communication[e].status # k /\ communication'[e].status = k =>
         \E n \in Messages : /\ message[n] = e
                             /\ delivery[<<n, k>>] = "processing"
                             /\ delivery'[<<n, k>>] = "processed"]_vars

(* Every queued e-mail is sent or given up, or was in the hands of a run   *)
(* that was stopped: retries end, and events that failed come back         *)
(* (runBatch, fail).                                                       *)
EventsAreSettled ==
  \A e \in Emails :
    event[e].status = "pending" ~>
      event[e].status \in {"succeeded", "dead_letter"} \/ e \in orphan
=============================================================================
