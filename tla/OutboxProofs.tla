----------------------------- MODULE OutboxProofs -----------------------------
(***************************************************************************)
(* Theorems about module Outbox, for every number of e-mails, of runs of   *)
(* the worker, of webhook invocations and of attempts.                     *)
(***************************************************************************)
EXTENDS Outbox, FiniteSetTheorems, TLAPS

(* Who has an e-mail in hand.  What is claimed and not done with is marked *)
(* so; what may be claimed has an attempt left.                            *)
InHand ==
  /\ \A v, w \in Workers : v # w => worker[v].todo \cap worker[w].todo = {}
  /\ \A w \in Workers, e \in Emails :
       e \in worker[w].todo => event[e].status \in {"processing", "succeeded"}
  /\ \A w \in Workers : worker[w].at \in {"sent", "threw"} =>
       worker[w].email \in Emails /\ worker[w].email \in worker[w].todo
  /\ \A e \in Emails :
       /\ communication[e].status = "absent" =>
            event[e].status = "absent" /\ event[e].attempts = 0
       /\ event[e].status = "pending" => event[e].attempts < MaxAttempts

(* What the webhook invocations have established, and the runs.            *)
Established ==
  /\ \A h \in Hooks : hook[h].at # "idle" =>
       /\ hook[h].message \in Messages /\ hook[h].kind \in Kinds
       /\ delivery[<<hook[h].message, hook[h].kind>>] = "processing"
  /\ \A h \in Hooks : hook[h].at = "found" =>
       /\ hook[h].email \in Emails
       /\ message[hook[h].message] = hook[h].email
       /\ communication[hook[h].email].message # NoMessage
  /\ \A g, h \in Hooks :
       /\ hook[g].at # "idle" /\ hook[h].at # "idle"
       /\ hook[g].message = hook[h].message /\ hook[g].kind = hook[h].kind
       => g = h
  /\ \A w \in Workers : worker[w].at = "sent" =>
       worker[w].message \in Messages /\ message[worker[w].message] = worker[w].email

OutboxInv == TypeOK /\ InHand /\ Established /\ RecordsAreTrue

LEMMA Constants ==
  /\ NoEmail \notin Emails /\ NoMessage \notin Messages
  /\ MaxAttempts \in Nat /\ MaxAttempts >= 1 /\ MaxMessages \in Nat
  /\ Kinds \subseteq CommunicationStatuses \cup {"other"}
  /\ "absent" \notin Kinds /\ "queued" \notin Kinds /\ "none" \notin Kinds
<1>1. NoEmail \notin Emails
  BY OutboxAssumption DEF NoEmail
<1>2. MaxAttempts \in Nat /\ MaxAttempts >= 1 /\ MaxMessages \in Nat
  <2>1. MaxAttempts \in Nat \ {0} /\ MaxMessages \in Nat
    BY OutboxAssumption, Zenon
  <2> QED  BY <2>1
<1>3. NoMessage \notin Messages
  BY <1>2 DEF NoMessage, Messages
<1>4. /\ Kinds \subseteq CommunicationStatuses \cup {"other"}
      /\ "absent" \notin Kinds /\ "queued" \notin Kinds /\ "none" \notin Kinds
  BY OutboxAssumption DEF CommunicationStatuses
<1> QED  BY <1>1, <1>2, <1>3, <1>4

(* What a run of the worker can be. *)
Runs == [todo    : SUBSET Emails,
         at      : {"between", "sent", "threw"},
         email   : Emails \cup {NoEmail},
         message : {NoMessage} \cup Messages]

LEMMA InitInv == Init => OutboxInv
<1> SUFFICES ASSUME Init PROVE OutboxInv
  OBVIOUS
<1>1. TypeOK
  BY Constants DEF Init, TypeOK, EventRow, CommunicationRow, OutboxStatuses,
     CommunicationStatuses, DeliveryStatuses, IdleRun, IdleHook
<1>2. InHand
  BY Constants DEF Init, InHand, IdleRun
<1>3. Established
  BY DEF Init, Established, IdleRun, IdleHook
<1>4. RecordsAreTrue
  BY DEF Init, RecordsAreTrue
<1> QED  BY <1>1, <1>2, <1>3, <1>4 DEF OutboxInv

-----------------------------------------------------------------------------
LEMMA QueueKeeps ==
  ASSUME OutboxInv, NEW e \in Emails, Queue(e) PROVE OutboxInv'
<1>1. event[e].status = "absent" /\ event[e].attempts = 0
  BY DEF OutboxInv, InHand, Queue
<1>2. TypeOK'
  <2>1. event[e] \in EventRow /\ communication[e] \in CommunicationRow
    BY DEF OutboxInv, TypeOK
  <2>2. [event[e] EXCEPT !.status = "pending"] \in EventRow
    BY <2>1 DEF EventRow, OutboxStatuses
  <2>3. [communication[e] EXCEPT !.status = "queued"] \in CommunicationRow
    BY <2>1 DEF CommunicationRow, CommunicationStatuses
  <2> QED  BY <2>2, <2>3 DEF OutboxInv, TypeOK, Queue
<1>3. InHand'
  BY <1>1, Constants DEF OutboxInv, TypeOK, InHand, Queue, EventRow, CommunicationRow
<1>4. Established'
  BY DEF OutboxInv, TypeOK, Established, Queue, CommunicationRow
<1>5. RecordsAreTrue'
  BY DEF OutboxInv, TypeOK, RecordsAreTrue, Queue, EventRow, CommunicationRow
<1> QED  BY <1>2, <1>3, <1>4, <1>5 DEF OutboxInv

LEMMA BecomeDueKeeps ==
  ASSUME OutboxInv, NEW e \in Emails, BecomeDue(e) PROVE OutboxInv'
<1>1. event \in [Emails -> EventRow]
  BY DEF OutboxInv, TypeOK
<1>2. TypeOK'
  <2>1. [event[e] EXCEPT !.due = TRUE] \in EventRow
    BY <1>1 DEF EventRow
  <2>2. event' = [event EXCEPT ![e] = [event[e] EXCEPT !.due = TRUE]]
    BY <1>1 DEF BecomeDue
  <2>3. event' \in [Emails -> EventRow]
    BY <1>1, <2>1, <2>2
  <2> QED  BY <2>3 DEF OutboxInv, TypeOK, BecomeDue
<1>3. InHand'
  BY DEF OutboxInv, TypeOK, InHand, BecomeDue, EventRow
<1>4. Established'
  BY DEF OutboxInv, Established, BecomeDue
<1>5. RecordsAreTrue'
  BY DEF OutboxInv, TypeOK, RecordsAreTrue, BecomeDue, EventRow
<1> QED  BY <1>2, <1>3, <1>4, <1>5 DEF OutboxInv

LEMMA ClaimKeeps ==
  ASSUME OutboxInv, NEW w \in Workers, NEW batch \in SUBSET Emails, Claim(w, batch)
  PROVE  OutboxInv'
<1>1. /\ worker[w] = IdleRun
      /\ \A e \in batch : event[e].status = "pending" /\ event[e].attempts < MaxAttempts
      /\ UNCHANGED <<communication, message, delivery, hook, orphan>>
  BY DEF Claim, Due, OutboxInv, InHand
<1>2. \A e \in Emails : event'[e] = IF e \in batch
        THEN [event[e] EXCEPT !.status = "processing", !.attempts = @ + 1] ELSE event[e]
  BY DEF Claim
<1>3. /\ worker'[w] = [IdleRun EXCEPT !.todo = batch]
      /\ \A v \in Workers \ {w} : worker'[v] = worker[v]
      /\ DOMAIN worker' = Workers
  BY <1>1 DEF Claim, OutboxInv, TypeOK
<1>4. \A e \in Emails : event'[e] \in EventRow
  <2> SUFFICES ASSUME NEW e \in Emails PROVE event'[e] \in EventRow
    OBVIOUS
  <2>1. event[e] \in EventRow
    BY DEF OutboxInv, TypeOK
  <2>2. CASE e \in batch
    <3>1. event[e].attempts \in 0..MaxAttempts /\ event[e].attempts < MaxAttempts
      BY <1>1, <2>1, <2>2 DEF EventRow
    <3>2. event[e].attempts + 1 \in 0..MaxAttempts
      BY <3>1, Constants
    <3> QED  BY <1>2, <2>1, <2>2, <3>2 DEF EventRow, OutboxStatuses
  <2> QED  BY <1>2, <2>1, <2>2
<1>5. TypeOK'
  <2>1. event' \in [Emails -> EventRow]
    BY <1>4 DEF Claim
  <2>2. worker \in [Workers -> Runs]
    BY DEF OutboxInv, TypeOK, Runs
  <2>3. [worker[w] EXCEPT !.todo = batch] \in Runs
    BY <2>2 DEF Runs
  <2>4. worker' \in [Workers -> Runs]
    BY <2>2, <2>3 DEF Claim
  <2> QED  BY <1>1, <2>1, <2>4 DEF OutboxInv, TypeOK, Runs
<1>6. \A e \in Emails : /\ e \in batch => event'[e].status = "processing"
                        /\ e \notin batch => event'[e] = event[e]
  BY <1>2 DEF OutboxInv, TypeOK, EventRow
<1>7. worker'[w].todo = batch /\ worker'[w].at = "between"
  BY <1>3 DEF IdleRun
<1>8. InHand'
  <2>1. \A v \in Workers : worker[v].todo \cap batch = {}
    BY <1>1 DEF OutboxInv, InHand
  <2>2. \A u, v \in Workers : u # v => worker'[u].todo \cap worker'[v].todo = {}
    <3>1. \A u \in Workers \ {w} : worker'[u].todo = worker[u].todo
      BY <1>3
    <3>2. \A u, v \in Workers : u # v => worker[u].todo \cap worker[v].todo = {}
      BY DEF OutboxInv, InHand
    <3> QED  BY <1>7, <2>1, <3>1, <3>2
  <2>3. \A v \in Workers, e \in Emails :
          e \in worker'[v].todo => event'[e].status \in {"processing", "succeeded"}
    BY <1>3, <1>6, <1>7, <2>1 DEF OutboxInv, InHand
  <2>4. \A v \in Workers : worker'[v].at \in {"sent", "threw"} =>
          worker'[v].email \in Emails /\ worker'[v].email \in worker'[v].todo
    BY <1>3, <1>7 DEF OutboxInv, InHand
  <2>5. \A e \in Emails :
          /\ communication'[e].status = "absent" =>
               event'[e].status = "absent" /\ event'[e].attempts = 0
          /\ event'[e].status = "pending" => event'[e].attempts < MaxAttempts
    BY <1>1, <1>6 DEF OutboxInv, InHand
  <2> QED  BY <2>2, <2>3, <2>4, <2>5 DEF InHand
<1>9. Established'
  <2>1. Established /\ UNCHANGED <<hook, delivery, message, communication>>
    BY <1>1 DEF OutboxInv
  <2>2. \A v \in Workers : worker'[v].at = "sent" =>
          worker'[v].message \in Messages /\ message[worker'[v].message] = worker'[v].email
    <3> SUFFICES ASSUME NEW v \in Workers, worker'[v].at = "sent"
                 PROVE  worker'[v].message \in Messages
                        /\ message[worker'[v].message] = worker'[v].email
      OBVIOUS
    <3>1. v # w
      BY <1>7
    <3>2. worker'[v] = worker[v]
      BY <1>3, <3>1
    <3> QED  BY <2>1, <3>2 DEF Established
  <2>3. /\ hook' = hook /\ delivery' = delivery
        /\ message' = message /\ communication' = communication
    BY <2>1
  <2> QED  BY <2>1, <2>2, <2>3 DEF Established
<1>10. RecordsAreTrue'
  BY <1>1, <1>6 DEF OutboxInv, RecordsAreTrue
<1> QED  BY <1>5, <1>8, <1>9, <1>10 DEF OutboxInv

(* What the other actions of a run leave alone.                            *)
LEMMA WorkerFrame ==
  ASSUME OutboxInv, NEW w \in Workers, NEW run \in Runs, worker' = [worker EXCEPT ![w] = run]
  PROVE  /\ worker' \in [Workers -> Runs]
         /\ worker'[w] = run
         /\ \A v \in Workers \ {w} : worker'[v] = worker[v]
BY DEF OutboxInv, TypeOK, Runs

(* An event that the run which holds it marks anew, without another claim. *)
LEMMA SettleKeeps ==
  ASSUME OutboxInv, NEW w \in Workers, NEW e \in worker[w].todo, NEW run \in Runs,
         worker' = [worker EXCEPT ![w] = run],
         run.todo \subseteq worker[w].todo,
         run.at \in {"sent", "threw"} => run.email \in run.todo,
         run.at = "sent" =>
           run.message \in Messages /\ message'[run.message] = run.email,
         NEW row \in EventRow, event' = [event EXCEPT ![e] = row],
         row.status # "absent",
         e \in run.todo => row.status \in {"processing", "succeeded"},
         row.status = "pending" => row.attempts < MaxAttempts,
         \A x \in Emails : communication'[x].status = "absent" =>
                           communication[x].status = "absent",
         \A n \in Messages : message[n] # NoEmail => message'[n] = message[n],
         UNCHANGED <<delivery, hook>>,
         \A x \in Emails : communication[x].message # NoMessage =>
                           communication'[x].message # NoMessage
  PROVE  InHand' /\ Established'
<1>1. /\ worker'[w] = run
      /\ \A v \in Workers \ {w} : worker'[v] = worker[v]
  BY WorkerFrame
<1>2. /\ e \in Emails /\ event[e].status \in {"processing", "succeeded"}
      /\ event'[e] = row /\ \A x \in Emails \ {e} : event'[x] = event[x]
  BY DEF OutboxInv, TypeOK, InHand
<1>3. \A v \in Workers : worker'[v].todo \subseteq worker[v].todo
  BY <1>1
<1>4. \A u, v \in Workers : u # v => worker[u].todo \cap worker[v].todo = {}
  BY DEF OutboxInv, InHand
<1>5. \A u, v \in Workers : u # v => worker'[u].todo \cap worker'[v].todo = {}
  BY <1>3, <1>4
<1>6. \A v \in Workers, x \in Emails :
        x \in worker'[v].todo => event'[x].status \in {"processing", "succeeded"}
  <2> SUFFICES ASSUME NEW v \in Workers, NEW x \in Emails, x \in worker'[v].todo
               PROVE  event'[x].status \in {"processing", "succeeded"}
    OBVIOUS
  <2>1. CASE x # e
    BY <1>2, <1>3, <2>1 DEF OutboxInv, InHand
  <2>2. CASE x = e
    <3>1. v = w
      BY <1>3, <1>4, <2>2
    <3> QED  BY <1>1, <1>2, <2>2, <3>1
  <2> QED  BY <2>1, <2>2
<1>7. \A v \in Workers : worker'[v].at \in {"sent", "threw"} =>
        worker'[v].email \in Emails /\ worker'[v].email \in worker'[v].todo
  <2>1. run.todo \subseteq Emails
    BY DEF Runs
  <2> QED  BY <1>1, <2>1 DEF OutboxInv, InHand
<1>8. \A x \in Emails :
        /\ communication'[x].status = "absent" =>
             event'[x].status = "absent" /\ event'[x].attempts = 0
        /\ event'[x].status = "pending" => event'[x].attempts < MaxAttempts
  BY <1>2 DEF OutboxInv, InHand
<1>9. InHand'
  BY <1>5, <1>6, <1>7, <1>8 DEF InHand
<1>10. Established'
  <2>1. \A h \in Hooks : hook'[h].at # "idle" =>
          /\ hook'[h].message \in Messages /\ hook'[h].kind \in Kinds
          /\ delivery'[<<hook'[h].message, hook'[h].kind>>] = "processing"
    BY DEF OutboxInv, Established
  <2>2. \A h \in Hooks : hook'[h].at = "found" =>
          /\ hook'[h].email \in Emails
          /\ message'[hook'[h].message] = hook'[h].email
          /\ communication'[hook'[h].email].message # NoMessage
    <3> SUFFICES ASSUME NEW h \in Hooks, hook[h].at = "found"
                 PROVE  /\ hook[h].email \in Emails
                        /\ message'[hook[h].message] = hook[h].email
                        /\ communication'[hook[h].email].message # NoMessage
      OBVIOUS
    <3>1. /\ hook[h].email \in Emails /\ hook[h].message \in Messages
          /\ message[hook[h].message] = hook[h].email
          /\ communication[hook[h].email].message # NoMessage
      BY DEF OutboxInv, Established
    <3> QED  BY <3>1, Constants
  <2>3. \A g, h \in Hooks :
          /\ hook'[g].at # "idle" /\ hook'[h].at # "idle"
          /\ hook'[g].message = hook'[h].message /\ hook'[g].kind = hook'[h].kind
          => g = h
    BY DEF OutboxInv, Established
  <2>4. \A v \in Workers : worker'[v].at = "sent" =>
          worker'[v].message \in Messages /\ message'[worker'[v].message] = worker'[v].email
    <3>1. \A v \in Workers \ {w} : worker[v].at = "sent" =>
            /\ worker[v].message \in Messages /\ worker[v].email \in Emails
            /\ message[worker[v].message] = worker[v].email
      BY DEF OutboxInv, Established, InHand
    <3> QED  BY <1>1, <3>1, Constants
  <2> QED  BY <2>1, <2>2, <2>3, <2>4 DEF Established
<1> QED  BY <1>9, <1>10

LEMMA SendNothingKeeps ==
  ASSUME OutboxInv, NEW w \in Workers, NEW e \in Emails, SendNothing(w, e)
  PROVE  OutboxInv'
<1> DEFINE run == [worker[w] EXCEPT !.at = "threw", !.email = e]
<1>1. worker[w] \in Runs /\ event[e] \in EventRow
  BY DEF OutboxInv, TypeOK, Runs
<1>2. run \in Runs /\ run.todo = worker[w].todo /\ run.at = "threw" /\ run.email = e
  BY <1>1 DEF Runs
<1>3. worker' = [worker EXCEPT ![w] = run] /\ e \in worker[w].todo
  BY DEF SendNothing
<1>4. event' = [event EXCEPT ![e] = event[e]]
  BY DEF SendNothing, OutboxInv, TypeOK
<1>5. event[e].status \in {"processing", "succeeded"}
  BY <1>3 DEF OutboxInv, InHand
<1> HIDE DEF run
<1>6. worker' \in [Workers -> Runs]
  BY <1>2, <1>3, WorkerFrame
<1>7. TypeOK' /\ RecordsAreTrue'
  BY <1>6 DEF SendNothing, OutboxInv, TypeOK, RecordsAreTrue, Runs
<1>8. InHand' /\ Established'
  <2>1. UNCHANGED <<communication, message, delivery, hook>>
    BY DEF SendNothing
  <2>2. event[e].status # "absent" /\ event[e].status # "pending"
    BY <1>5
  <2>3. run.at # "sent" /\ run.email \in run.todo /\ run.todo \subseteq worker[w].todo
    BY <1>2, <1>3
  <2> QED  BY <1>1, <1>2, <1>3, <1>4, <1>5, <2>1, <2>2, <2>3, SettleKeeps
<1> QED  BY <1>7, <1>8 DEF OutboxInv

LEMMA SendKeeps ==
  ASSUME OutboxInv, NEW w \in Workers, NEW e \in Emails, NEW n \in Messages, Send(w, e, n)
  PROVE  OutboxInv'
<1>1. worker[w] \in Runs /\ event[e] \in EventRow /\ e \in worker[w].todo
  BY DEF OutboxInv, TypeOK, Runs, Send
<1>2. PICK run \in Runs :
        /\ worker' = [worker EXCEPT ![w] = run]
        /\ run.todo = worker[w].todo /\ run.at \in {"sent", "threw"} /\ run.email = e
        /\ run.at = "sent" => run.message = n
  <2>1. [worker[w] EXCEPT !.at = "sent", !.email = e, !.message = n] \in Runs
    BY <1>1 DEF Runs
  <2>2. [worker[w] EXCEPT !.at = "threw", !.email = e] \in Runs
    BY <1>1 DEF Runs
  <2>3. CASE worker' = [worker EXCEPT ![w].at = "sent", ![w].email = e, ![w].message = n]
    <3> DEFINE run == [worker[w] EXCEPT !.at = "sent", !.email = e, !.message = n]
    <3>1. run.todo = worker[w].todo /\ run.at = "sent" /\ run.email = e /\ run.message = n
      BY <1>1 DEF Runs
    <3>2. worker' = [worker EXCEPT ![w] = run]
      BY <2>3
    <3> HIDE DEF run
    <3> QED  BY <2>1, <3>1, <3>2 DEF run
  <2>4. CASE worker' = [worker EXCEPT ![w].at = "threw", ![w].email = e]
    <3> DEFINE run == [worker[w] EXCEPT !.at = "threw", !.email = e]
    <3>1. run.todo = worker[w].todo /\ run.at = "threw" /\ run.email = e
      BY <1>1 DEF Runs
    <3>2. worker' = [worker EXCEPT ![w] = run]
      BY <2>4
    <3> HIDE DEF run
    <3> QED  BY <2>2, <3>1, <3>2 DEF run
  <2> QED  BY <2>3, <2>4 DEF Send
<1>3. event' = [event EXCEPT ![e] = event[e]]
  BY DEF Send, OutboxInv, TypeOK
<1>4. event[e].status \in {"processing", "succeeded"}
  BY <1>1 DEF OutboxInv, InHand
<1>5. message[n] = NoEmail
  <2>1. n >= n
    BY Constants DEF Messages
  <2> QED  BY <2>1 DEF Send
<1>6. /\ message' \in [Messages -> Emails \cup {NoEmail}] /\ message'[n] = e
      /\ \A k \in Messages \ {n} : message'[k] = message[k]
  BY DEF Send, OutboxInv, TypeOK
<1>7. worker' \in [Workers -> Runs]
  BY <1>2, WorkerFrame
<1>8. TypeOK'
  BY <1>6, <1>7 DEF Send, OutboxInv, TypeOK, Runs
<1>9. RecordsAreTrue'
  <2>1. \A x \in Emails : communication[x].message \in {NoMessage} \cup Messages
    BY DEF OutboxInv, TypeOK, CommunicationRow
  <2>2. UNCHANGED <<event, communication>>
    BY DEF Send
  <2> QED  BY <1>5, <1>6, <2>1, <2>2, Constants DEF OutboxInv, RecordsAreTrue
<1>10. InHand' /\ Established'
  <2>1. UNCHANGED <<communication, delivery, hook>>
    BY DEF Send
  <2>2. event[e].status # "absent" /\ event[e].status # "pending"
    BY <1>4
  <2>3. /\ run.email \in run.todo /\ run.todo \subseteq worker[w].todo
        /\ run.at = "sent" => message'[run.message] = run.email
    BY <1>1, <1>2, <1>6
  <2>4. \A k \in Messages : message[k] # NoEmail => message'[k] = message[k]
    BY <1>5, <1>6
  <2> QED  BY <1>1, <1>2, <1>3, <1>4, <2>1, <2>2, <2>3, <2>4, SettleKeeps
<1> QED  BY <1>8, <1>9, <1>10 DEF OutboxInv

(* Going on to the next event of the batch.                                *)
LEMMA NextRun ==
  ASSUME OutboxInv, NEW w \in Workers, NextInBatch(w)
  PROVE  \E run \in Runs :
           /\ worker' = [worker EXCEPT ![w] = run]
           /\ run.todo = worker[w].todo \ {worker[w].email}
           /\ run.at = "between"
<1> DEFINE run == [IdleRun EXCEPT !.todo = worker[w].todo \ {worker[w].email}]
<1>1. run \in Runs
  BY DEF OutboxInv, TypeOK, Runs, IdleRun
<1>2. run.todo = worker[w].todo \ {worker[w].email} /\ run.at = "between"
  BY DEF IdleRun
<1>3. worker' = [worker EXCEPT ![w] = run]
  BY DEF NextInBatch
<1> HIDE DEF run
<1> QED  BY <1>1, <1>2, <1>3

LEMMA Stumbled ==
  ASSUME OutboxInv, NEW w \in Workers,
         worker' = [worker EXCEPT ![w].at = "threw", ![w].message = NoMessage]
  PROVE  \E run \in Runs :
           /\ worker' = [worker EXCEPT ![w] = run]
           /\ run.todo = worker[w].todo
           /\ run.at = "threw" /\ run.email = worker[w].email
<1> DEFINE run == [worker[w] EXCEPT !.at = "threw", !.message = NoMessage]
<1>1. worker[w] \in Runs
  BY DEF OutboxInv, TypeOK, Runs
<1>2. /\ run \in Runs /\ run.todo = worker[w].todo
      /\ run.at = "threw" /\ run.email = worker[w].email
  BY <1>1 DEF Runs
<1>3. worker' = [worker EXCEPT ![w] = run]
  OBVIOUS
<1> HIDE DEF run
<1> QED  BY <1>2, <1>3

LEMMA RecordSentKeeps ==
  ASSUME OutboxInv, NEW w \in Workers, RecordSent(w) PROVE OutboxInv'
<1> DEFINE e == worker[w].email
           row == [event[e] EXCEPT !.status = "succeeded"]
           record == [status |-> "sent", message |-> worker[w].message]
<1>1. /\ e \in Emails /\ e \in worker[w].todo
      /\ worker[w].message \in Messages /\ message[worker[w].message] = e
  BY DEF RecordSent, OutboxInv, InHand, Established
<1>2. PICK run \in Runs :
        /\ worker' = [worker EXCEPT ![w] = run]
        /\ run.todo \subseteq worker[w].todo /\ run.at \in {"between", "threw"}
        /\ run.at = "threw" => run.todo = worker[w].todo /\ run.email = e
  BY NextRun, Stumbled DEF RecordSent
<1>3. row \in EventRow /\ row.status = "succeeded"
  BY <1>1 DEF OutboxInv, TypeOK, EventRow, OutboxStatuses
<1>4. record \in CommunicationRow /\ record.status = "sent" /\ record.message # NoMessage
      /\ record.message = worker[w].message
  BY <1>1, Constants DEF CommunicationRow, CommunicationStatuses
<1>5. event' = [event EXCEPT ![e] = row] /\ communication' = [communication EXCEPT ![e] = record]
      /\ UNCHANGED <<message, delivery, hook, orphan>>
  BY DEF RecordSent
<1> HIDE DEF row, record, e
<1>6. /\ event'[e] = row /\ \A x \in Emails \ {e} : event'[x] = event[x]
      /\ communication'[e] = record
      /\ \A x \in Emails \ {e} : communication'[x] = communication[x]
  BY <1>1, <1>5 DEF OutboxInv, TypeOK
<1>7. worker' \in [Workers -> Runs]
  BY <1>2, WorkerFrame
<1>8. TypeOK'
  BY <1>3, <1>4, <1>5, <1>7 DEF OutboxInv, TypeOK, Runs
<1>9. RecordsAreTrue'
  BY <1>1, <1>4, <1>5, <1>6 DEF OutboxInv, RecordsAreTrue
<1>10. \A x \in Emails : /\ communication'[x].status = "absent" =>
                             communication[x].status = "absent"
                         /\ communication[x].message # NoMessage =>
                              communication'[x].message # NoMessage
  BY <1>4, <1>6
<1>11. InHand' /\ Established'
  BY <1>1, <1>2, <1>3, <1>5, <1>10, SettleKeeps
<1> QED  BY <1>8, <1>9, <1>11 DEF OutboxInv

LEMMA RecordThrowsKeeps ==
  ASSUME OutboxInv, NEW w \in Workers, RecordThrows(w) PROVE OutboxInv'
<1> DEFINE e == worker[w].email
<1>1. e \in Emails /\ e \in worker[w].todo
  BY DEF RecordThrows, OutboxInv, InHand
<1>2. PICK run \in Runs :
        /\ worker' = [worker EXCEPT ![w] = run]
        /\ run.todo = worker[w].todo /\ run.at = "threw" /\ run.email = e
  BY Stumbled DEF RecordThrows
<1>3. /\ event[e] \in EventRow /\ event' = [event EXCEPT ![e] = event[e]]
      /\ event[e].status \in {"processing", "succeeded"}
      /\ UNCHANGED <<event, communication, message, delivery, hook, orphan>>
  BY <1>1 DEF RecordThrows, OutboxInv, TypeOK, InHand
<1> HIDE DEF e
<1>4. worker' \in [Workers -> Runs]
  BY <1>2, WorkerFrame
<1>5. TypeOK' /\ RecordsAreTrue'
  BY <1>3, <1>4 DEF OutboxInv, TypeOK, RecordsAreTrue, Runs
<1>6. InHand' /\ Established'
  <2>1. event[e].status # "absent" /\ event[e].status # "pending"
    BY <1>3
  <2>2. run.at # "sent" /\ run.email \in run.todo /\ run.todo \subseteq worker[w].todo
    BY <1>1, <1>2
  <2> QED  BY <1>1, <1>2, <1>3, <2>1, <2>2, SettleKeeps
<1> QED  BY <1>5, <1>6 DEF OutboxInv

LEMMA FailKeeps ==
  ASSUME OutboxInv, NEW w \in Workers, Fail(w) PROVE OutboxInv'
<1> DEFINE e == worker[w].email
           status == IF Retries(event[e].attempts) THEN "pending" ELSE "dead_letter"
           row == [event[e] EXCEPT !.status = status, !.due = FALSE]
<1>1. e \in Emails /\ e \in worker[w].todo
  BY DEF Fail, OutboxInv, InHand
<1>2. PICK run \in Runs :
        /\ worker' = [worker EXCEPT ![w] = run]
        /\ run.todo = worker[w].todo \ {e} /\ run.at = "between"
  BY NextRun DEF Fail
<1>3. /\ row \in EventRow /\ row.status \in {"pending", "dead_letter"}
      /\ row.status = "pending" => row.attempts < MaxAttempts
  <2>1. event[e] \in EventRow
    BY <1>1 DEF OutboxInv, TypeOK
  <2>2. status \in OutboxStatuses /\ status \in {"pending", "dead_letter"}
    BY DEF OutboxStatuses
  <2>3. status = "pending" => event[e].attempts < MaxAttempts
    BY DEF Retries
  <2> HIDE DEF status
  <2> QED  BY <2>1, <2>2, <2>3 DEF EventRow
<1>4. event' = [event EXCEPT ![e] = row]
      /\ UNCHANGED <<communication, message, delivery, hook, orphan>>
  BY DEF Fail
<1> HIDE DEF row, status, e
<1>5. event'[e] = row /\ \A x \in Emails \ {e} : event'[x] = event[x]
  BY <1>1, <1>4 DEF OutboxInv, TypeOK
<1>6. worker' \in [Workers -> Runs]
  BY <1>2, WorkerFrame
<1>7. TypeOK'
  BY <1>3, <1>4, <1>6 DEF OutboxInv, TypeOK, Runs
<1>8. RecordsAreTrue'
  BY <1>3, <1>4, <1>5 DEF OutboxInv, RecordsAreTrue
<1>9. InHand' /\ Established'
  <2>1. run.at \notin {"sent", "threw"} /\ e \notin run.todo /\ run.todo \subseteq worker[w].todo
    BY <1>2
  <2> QED  BY <1>1, <1>2, <1>3, <1>4, <2>1, SettleKeeps
<1> QED  BY <1>7, <1>8, <1>9 DEF OutboxInv

LEMMA InterruptKeeps ==
  ASSUME OutboxInv, NEW w \in Workers, Interrupt(w) PROVE OutboxInv'
<1>1. IdleRun \in Runs /\ IdleRun.todo = {} /\ IdleRun.at = "between"
  BY DEF Runs, IdleRun
<1>2. /\ worker' = [worker EXCEPT ![w] = IdleRun]
      /\ UNCHANGED <<event, communication, message, delivery, hook>>
      /\ orphan' \subseteq Emails
  BY DEF Interrupt, OutboxInv, TypeOK
<1>3. /\ worker' \in [Workers -> Runs] /\ worker'[w] = IdleRun
      /\ \A v \in Workers \ {w} : worker'[v] = worker[v]
  BY <1>1, <1>2, WorkerFrame
<1>4. TypeOK' /\ RecordsAreTrue'
  BY <1>2, <1>3 DEF OutboxInv, TypeOK, RecordsAreTrue, Runs
<1>5. InHand' /\ Established'
  <2>1. \A v \in Workers : \/ worker'[v] = worker[v]
                           \/ worker'[v].todo = {} /\ worker'[v].at = "between"
    <3>1. worker'[w].todo = {} /\ worker'[w].at = "between"
      BY <1>1, <1>3
    <3>2. \A v \in Workers \ {w} : worker'[v] = worker[v]
      BY <1>3
    <3> QED  BY <3>1, <3>2
  <2>2. InHand'
    BY <1>2, <2>1 DEF OutboxInv, InHand
  <2>3. Established'
    BY <1>2, <2>1 DEF OutboxInv, Established
  <2> QED  BY <2>2, <2>3
<1> QED  BY <1>4, <1>5 DEF OutboxInv

-----------------------------------------------------------------------------
HookStates == [at      : {"idle", "recorded", "found"},
               message : {NoMessage} \cup Messages,
               kind    : Kinds \cup {"none"},
               email   : Emails \cup {NoEmail}]

LEMMA ReceiveReportKeeps ==
  ASSUME OutboxInv, NEW h \in Hooks, NEW n \in Messages, NEW k \in Kinds,
         ReceiveReport(h, n, k)
  PROVE  OutboxInv'
<1> DEFINE state == [at |-> "recorded", message |-> n, kind |-> k, email |-> NoEmail]
<1>1. state \in HookStates /\ state.at = "recorded" /\ state.message = n /\ state.kind = k
  BY DEF HookStates
<1>2. /\ hook' = [hook EXCEPT ![h] = state]
      /\ delivery' = [delivery EXCEPT ![<<n, k>>] = "processing"]
      /\ delivery[<<n, k>>] = "none"
      /\ UNCHANGED <<event, communication, worker, message, orphan>>
  BY DEF ReceiveReport, Unknown
<1> HIDE DEF state
<1>3. hook \in [Hooks -> HookStates] /\ delivery \in [Messages \X Kinds -> DeliveryStatuses]
  BY DEF OutboxInv, TypeOK, HookStates
<1>4. /\ hook' \in [Hooks -> HookStates] /\ hook'[h] = state
      /\ \A g \in Hooks \ {h} : hook'[g] = hook[g]
  BY <1>1, <1>2, <1>3
<1>5. /\ delivery' \in [Messages \X Kinds -> DeliveryStatuses]
      /\ delivery'[<<n, k>>] = "processing"
      /\ \A m \in Messages, j \in Kinds :
           delivery[<<m, j>>] = "processing" => delivery'[<<m, j>>] = "processing"
  BY <1>2, <1>3 DEF DeliveryStatuses
<1>6. TypeOK' /\ RecordsAreTrue' /\ InHand'
  BY <1>2, <1>4, <1>5 DEF OutboxInv, TypeOK, RecordsAreTrue, InHand, HookStates
<1>7. Established'
  <2>1. \A g \in Hooks : hook[g].at # "idle" =>
          ~ (hook[g].message = n /\ hook[g].kind = k)
    BY <1>2 DEF OutboxInv, Established
  <2>2. \A g \in Hooks : hook'[g].at # "idle" =>
          /\ hook'[g].message \in Messages /\ hook'[g].kind \in Kinds
          /\ delivery'[<<hook'[g].message, hook'[g].kind>>] = "processing"
    <3> SUFFICES ASSUME NEW g \in Hooks, hook'[g].at # "idle"
                 PROVE  /\ hook'[g].message \in Messages /\ hook'[g].kind \in Kinds
                        /\ delivery'[<<hook'[g].message, hook'[g].kind>>] = "processing"
      OBVIOUS
    <3>1. CASE g = h
      BY <1>1, <1>4, <1>5, <3>1
    <3>2. CASE g # h
      <4>1. hook'[g] = hook[g]
        BY <1>4, <3>2
      <4>2. /\ hook[g].message \in Messages /\ hook[g].kind \in Kinds
            /\ delivery[<<hook[g].message, hook[g].kind>>] = "processing"
        BY <4>1 DEF OutboxInv, Established
      <4> QED  BY <1>5, <4>1, <4>2
    <3> QED  BY <3>1, <3>2
  <2>3. \A g \in Hooks : hook'[g].at = "found" =>
          /\ hook'[g].email \in Emails
          /\ message'[hook'[g].message] = hook'[g].email
          /\ communication'[hook'[g].email].message # NoMessage
    BY <1>1, <1>2, <1>4 DEF OutboxInv, Established
  <2>4. \A f, g \in Hooks :
          /\ hook'[f].at # "idle" /\ hook'[g].at # "idle"
          /\ hook'[f].message = hook'[g].message /\ hook'[f].kind = hook'[g].kind
          => f = g
    BY <1>1, <1>4, <2>1 DEF OutboxInv, Established
  <2>5. \A v \in Workers : worker'[v].at = "sent" =>
          worker'[v].message \in Messages /\ message'[worker'[v].message] = worker'[v].email
    BY <1>2 DEF OutboxInv, Established
  <2> QED  BY <2>2, <2>3, <2>4, <2>5 DEF Established
<1> QED  BY <1>6, <1>7 DEF OutboxInv

LEMMA FindCommunicationKeeps ==
  ASSUME OutboxInv, NEW h \in Hooks, FindCommunication(h) PROVE OutboxInv'
<1>1. PICK e \in Tracked(hook[h].message) :
        hook' = [hook EXCEPT ![h].at = "found", ![h].email = e]
  BY DEF FindCommunication
<1>2. /\ hook[h].at = "recorded"
      /\ UNCHANGED <<event, communication, worker, message, delivery, orphan>>
  BY DEF FindCommunication
<1>3. hook[h].message \in Messages /\ hook[h].kind \in Kinds
  BY <1>2 DEF OutboxInv, Established
<1>4. e \in Emails /\ communication[e].message = hook[h].message
  BY DEF Tracked
<1>5. communication[e].message # NoMessage /\ message[hook[h].message] = e
  BY <1>3, <1>4, Constants DEF OutboxInv, RecordsAreTrue
<1>6. hook \in [Hooks -> HookStates]
  BY DEF OutboxInv, TypeOK, HookStates
<1>7. /\ hook' \in [Hooks -> HookStates]
      /\ hook'[h].at = "found" /\ hook'[h].email = e
      /\ hook'[h].message = hook[h].message /\ hook'[h].kind = hook[h].kind
      /\ \A g \in Hooks \ {h} : hook'[g] = hook[g]
  BY <1>1, <1>4, <1>6 DEF HookStates
<1>8. TypeOK' /\ RecordsAreTrue' /\ InHand'
  BY <1>2, <1>7 DEF OutboxInv, TypeOK, RecordsAreTrue, InHand, HookStates
<1>9. Established'
  BY <1>2, <1>4, <1>5, <1>7 DEF OutboxInv, Established
<1> QED  BY <1>8, <1>9 DEF OutboxInv

(* An invocation that is over leaves the others what they established.     *)
LEMMA HookEnds ==
  ASSUME OutboxInv, NEW h \in Hooks, hook' = [hook EXCEPT ![h] = IdleHook],
         \A m \in Messages, j \in Kinds :
           ~ (hook[h].at # "idle" /\ m = hook[h].message /\ j = hook[h].kind) =>
             delivery'[<<m, j>>] = delivery[<<m, j>>],
         \A x \in Emails : communication'[x].message = communication[x].message,
         UNCHANGED <<worker, message>>
  PROVE  Established' /\ hook' \in [Hooks -> HookStates]
<1>1. IdleHook \in HookStates /\ IdleHook.at = "idle"
  BY DEF IdleHook, HookStates
<1>2. hook \in [Hooks -> HookStates]
  BY DEF OutboxInv, TypeOK, HookStates
<1>3. /\ hook' \in [Hooks -> HookStates] /\ hook'[h].at = "idle"
      /\ \A g \in Hooks \ {h} : hook'[g] = hook[g]
  BY <1>1, <1>2
<1>4. \A g \in Hooks : hook'[g].at # "idle" =>
        /\ hook'[g].message \in Messages /\ hook'[g].kind \in Kinds
        /\ delivery'[<<hook'[g].message, hook'[g].kind>>] = "processing"
  <2> SUFFICES ASSUME NEW g \in Hooks, hook'[g].at # "idle"
               PROVE  /\ hook[g].message \in Messages /\ hook[g].kind \in Kinds
                      /\ delivery'[<<hook[g].message, hook[g].kind>>] = "processing"
    BY <1>3
  <2>1. g # h /\ hook[g].at # "idle"
    BY <1>3
  <2>2. /\ hook[g].message \in Messages /\ hook[g].kind \in Kinds
        /\ delivery[<<hook[g].message, hook[g].kind>>] = "processing"
    BY <2>1 DEF OutboxInv, Established
  <2>3. ~ (hook[h].at # "idle" /\ hook[g].message = hook[h].message
                              /\ hook[g].kind = hook[h].kind)
    BY <2>1 DEF OutboxInv, Established
  <2> QED  BY <2>2, <2>3
<1>5. \A g \in Hooks : hook'[g].at = "found" =>
        /\ hook'[g].email \in Emails
        /\ message'[hook'[g].message] = hook'[g].email
        /\ communication'[hook'[g].email].message # NoMessage
  BY <1>3 DEF OutboxInv, Established
<1>6. \A f, g \in Hooks :
        /\ hook'[f].at # "idle" /\ hook'[g].at # "idle"
        /\ hook'[f].message = hook'[g].message /\ hook'[f].kind = hook'[g].kind
        => f = g
  BY <1>3 DEF OutboxInv, Established
<1>7. \A v \in Workers : worker'[v].at = "sent" =>
        worker'[v].message \in Messages /\ message'[worker'[v].message] = worker'[v].email
  BY DEF OutboxInv, Established
<1> QED  BY <1>3, <1>4, <1>5, <1>6, <1>7 DEF Established

LEMMA FindNoCommunicationKeeps ==
  ASSUME OutboxInv, NEW h \in Hooks, FindNoCommunication(h) PROVE OutboxInv'
<1>1. /\ hook[h].at = "recorded" /\ hook' = [hook EXCEPT ![h] = IdleHook]
      /\ delivery' = [delivery EXCEPT ![<<hook[h].message, hook[h].kind>>] = "failed"]
      /\ UNCHANGED <<event, communication, worker, message, orphan>>
  BY DEF FindNoCommunication
<1>2. delivery \in [Messages \X Kinds -> DeliveryStatuses]
  BY DEF OutboxInv, TypeOK
<1>3. delivery' \in [Messages \X Kinds -> DeliveryStatuses]
  BY <1>1, <1>2 DEF DeliveryStatuses
<1>4. \A m \in Messages, j \in Kinds :
        ~ (hook[h].at # "idle" /\ m = hook[h].message /\ j = hook[h].kind) =>
          delivery'[<<m, j>>] = delivery[<<m, j>>]
  BY <1>1, <1>2
<1>5. Established' /\ hook' \in [Hooks -> HookStates]
  BY <1>1, <1>4, HookEnds
<1>6. TypeOK' /\ RecordsAreTrue' /\ InHand'
  BY <1>1, <1>3, <1>5 DEF OutboxInv, TypeOK, RecordsAreTrue, InHand, HookStates
<1> QED  BY <1>5, <1>6 DEF OutboxInv

LEMMA StopHookKeeps ==
  ASSUME OutboxInv, NEW h \in Hooks, StopHook(h) PROVE OutboxInv'
<1>1. /\ hook' = [hook EXCEPT ![h] = IdleHook]
      /\ UNCHANGED <<event, communication, worker, message, delivery, orphan>>
  BY DEF StopHook
<1>2. Established' /\ hook' \in [Hooks -> HookStates]
  BY <1>1, HookEnds
<1>3. TypeOK' /\ RecordsAreTrue' /\ InHand'
  BY <1>1, <1>2 DEF OutboxInv, TypeOK, RecordsAreTrue, InHand, HookStates
<1> QED  BY <1>2, <1>3 DEF OutboxInv

LEMMA ApplyReportKeeps ==
  ASSUME OutboxInv, NEW h \in Hooks, ApplyReport(h) PROVE OutboxInv'
<1> DEFINE e == hook[h].email
           status == hook[h].kind
           record == [communication[e] EXCEPT !.status = status]
<1>1. /\ hook[h].at = "found" /\ hook[h].kind # "other"
      /\ hook' = [hook EXCEPT ![h] = IdleHook]
      /\ delivery' = [delivery EXCEPT ![<<hook[h].message, hook[h].kind>>] = "processed"]
      /\ UNCHANGED <<event, worker, message, orphan>>
  BY DEF ApplyReport
<1>2. /\ e \in Emails /\ hook[h].message \in Messages /\ hook[h].kind \in Kinds
      /\ communication[e].message # NoMessage
  BY <1>1 DEF OutboxInv, Established
<1>3. communication[e] \in CommunicationRow
  BY <1>2 DEF OutboxInv, TypeOK
<1>4. status \in CommunicationStatuses
  BY <1>1, <1>2, Constants
<1>5. status # "absent"
  BY <1>2, Constants
<1>6. communication' = [communication EXCEPT ![e] = record]
  BY DEF ApplyReport
<1>7. /\ record \in CommunicationRow /\ record.message = communication[e].message
      /\ record.status = status
  BY <1>3, <1>4 DEF CommunicationRow
<1> HIDE DEF e, status, record
<1>8. /\ communication' \in [Emails -> CommunicationRow]
      /\ communication'[e] = record
      /\ \A x \in Emails \ {e} : communication'[x] = communication[x]
  BY <1>2, <1>6, <1>7 DEF OutboxInv, TypeOK
<1>9. \A x \in Emails : /\ communication'[x].message = communication[x].message
                        /\ communication'[x].status = "absent" =>
                             communication[x].status = "absent"
  BY <1>5, <1>7, <1>8
<1>10. delivery \in [Messages \X Kinds -> DeliveryStatuses]
  BY DEF OutboxInv, TypeOK
<1>11. delivery' \in [Messages \X Kinds -> DeliveryStatuses]
  BY <1>1, <1>10 DEF DeliveryStatuses
<1>12. \A m \in Messages, j \in Kinds :
        ~ (hook[h].at # "idle" /\ m = hook[h].message /\ j = hook[h].kind) =>
          delivery'[<<m, j>>] = delivery[<<m, j>>]
  BY <1>1, <1>10
<1>13. Established' /\ hook' \in [Hooks -> HookStates]
  BY <1>1, <1>9, <1>12, HookEnds
<1>14. TypeOK'
  BY <1>1, <1>8, <1>11, <1>13 DEF OutboxInv, TypeOK, HookStates
<1>15. InHand'
  BY <1>1, <1>9 DEF OutboxInv, InHand
<1>16. RecordsAreTrue'
  BY <1>1, <1>2, <1>8, <1>9 DEF OutboxInv, RecordsAreTrue
<1> QED  BY <1>13, <1>14, <1>15, <1>16 DEF OutboxInv

LEMMA ReportThrowsKeeps ==
  ASSUME OutboxInv, NEW h \in Hooks, ReportThrows(h) PROVE OutboxInv'
<1>1. /\ hook' = [hook EXCEPT ![h] = IdleHook]
      /\ UNCHANGED <<event, communication, worker, message, delivery, orphan>>
  BY DEF ReportThrows
<1>2. Established' /\ hook' \in [Hooks -> HookStates]
  BY <1>1, HookEnds
<1>3. TypeOK' /\ RecordsAreTrue' /\ InHand'
  BY <1>1, <1>2 DEF OutboxInv, TypeOK, RecordsAreTrue, InHand, HookStates
<1> QED  BY <1>2, <1>3 DEF OutboxInv

-----------------------------------------------------------------------------
LEMMA StepKeeps == ASSUME OutboxInv, [Next]_vars PROVE OutboxInv'
<1>1. ASSUME NEW w \in Workers, Work(w) PROVE OutboxInv'
  BY <1>1, SendNothingKeeps, SendKeeps, RecordSentKeeps, RecordThrowsKeeps, FailKeeps DEF Work
<1>2. CASE UNCHANGED vars
  BY <1>2 DEF vars, OutboxInv, TypeOK, InHand, Established, RecordsAreTrue
<1> QED
  BY <1>1, <1>2, QueueKeeps, BecomeDueKeeps, ClaimKeeps, InterruptKeeps, ReceiveReportKeeps,
     FindCommunicationKeeps, FindNoCommunicationKeeps, ApplyReportKeeps, ReportThrowsKeeps, StopHookKeeps DEF Next

LEMMA OutboxInvariant == Spec => []OutboxInv
BY InitInv, StepKeeps, PTL DEF Spec

(* Every reachable state of the outbox is typed: in particular no event is *)
(* tried more than MaxAttempts times, whatever answers are lost.           *)
THEOREM TypeCorrect == Spec => []TypeOK
<1>1. OutboxInv => TypeOK
  BY DEF OutboxInv
<1> QED  BY <1>1, OutboxInvariant, PTL

(* What is recorded about an e-mail is about that e-mail.                  *)
THEOREM RecordsStayTrue == Spec => []RecordsAreTrue
<1>1. OutboxInv => RecordsAreTrue
  BY DEF OutboxInv
<1> QED  BY <1>1, OutboxInvariant, PTL

-----------------------------------------------------------------------------
(* How often an e-mail is sent.  The attempt of an e-mail in hand is spent *)
(* before the message that it may send exists.                             *)

SentFor(e) == {n \in Messages : message[n] = e}

Spent(w, e) == worker[w].at \in {"sent", "threw"} /\ worker[w].email = e

Counted ==
  \A e \in Emails :
    /\ Cardinality(SentFor(e)) <= event[e].attempts
    /\ \A w \in Workers : e \in worker[w].todo /\ ~Spent(w, e) =>
         Cardinality(SentFor(e)) + 1 <= event[e].attempts

LEMMA SentForIsFinite ==
  ASSUME NEW e
  PROVE  IsFiniteSet(SentFor(e)) /\ Cardinality(SentFor(e)) \in Nat
<1>1. IsFiniteSet(Messages)
  BY Constants, FS_Interval DEF Messages
<1>2. SentFor(e) \in SUBSET Messages
  BY DEF SentFor
<1> QED  BY <1>1, <1>2, FS_Subset, FS_CardinalityType

LEMMA CountedFrame ==
  ASSUME Counted, UNCHANGED message,
         \A e \in Emails : event'[e].attempts = event[e].attempts,
         \A w \in Workers, e \in Emails :
           e \in worker'[w].todo /\ ~Spent(w, e)' => e \in worker[w].todo /\ ~Spent(w, e)
  PROVE  Counted'
<1>1. \A e \in Emails : SentFor(e)' = SentFor(e)
  BY DEF SentFor
<1> QED  BY <1>1 DEF Counted

LEMMA ClaimCounted ==
  ASSUME OutboxInv, Counted, NEW w \in Workers, NEW batch \in SUBSET Emails, Claim(w, batch)
  PROVE  Counted'
<1>1. /\ worker[w] = IdleRun /\ worker' = [worker EXCEPT ![w].todo = batch]
      /\ event' = [e \in Emails |->
                     IF e \in batch
                     THEN [event[e] EXCEPT !.status = "processing", !.attempts = @ + 1]
                     ELSE event[e]]
      /\ \A e \in batch : event[e].status = "pending"
      /\ UNCHANGED message
  BY DEF Claim, Due
<1>2. \A e \in Emails : event[e] \in EventRow /\ event[e].attempts \in Int
  BY DEF OutboxInv, TypeOK, EventRow
<1>3. \A e \in Emails : /\ e \in batch => event'[e].attempts = event[e].attempts + 1
                        /\ e \notin batch => event'[e].attempts = event[e].attempts
  BY <1>1, <1>2 DEF EventRow
<1>4. \A v \in Workers \ {w} : worker'[v] = worker[v]
  BY <1>1 DEF OutboxInv, TypeOK
<1>5. worker'[w].todo = batch
  BY <1>1 DEF OutboxInv, TypeOK
<1>6. \A v \in Workers : worker[v].todo \cap batch = {}
  BY <1>1 DEF OutboxInv, InHand
<1> SUFFICES ASSUME NEW e \in Emails
             PROVE  /\ Cardinality(SentFor(e)') <= event'[e].attempts
                    /\ \A v \in Workers : e \in worker'[v].todo /\ ~Spent(v, e)' =>
                         Cardinality(SentFor(e)') + 1 <= event'[e].attempts
  BY DEF Counted
<1>7. SentFor(e)' = SentFor(e) /\ Cardinality(SentFor(e)) \in Nat
  BY <1>1, SentForIsFinite DEF SentFor
<1>8. Cardinality(SentFor(e)) <= event[e].attempts
  BY DEF Counted
<1>9. CASE e \in batch
  BY <1>2, <1>3, <1>7, <1>8, <1>9
<1>10. CASE e \notin batch
  <2>1. ASSUME NEW v \in Workers, e \in worker'[v].todo, ~Spent(v, e)'
        PROVE  Cardinality(SentFor(e)) + 1 <= event[e].attempts
    <3>1. v # w
      BY <1>5, <1>10, <2>1
    <3>2. worker'[v] = worker[v]
      BY <1>4, <3>1
    <3> QED  BY <2>1, <3>2 DEF Counted, Spent
  <2> QED  BY <1>3, <1>7, <1>8, <1>10, <2>1
<1> QED  BY <1>9, <1>10

LEMMA SendCounted ==
  ASSUME OutboxInv, Counted, NEW w \in Workers, NEW e \in Emails, NEW n \in Messages,
         Send(w, e, n)
  PROVE  Counted'
<1>1. /\ worker[w].at = "between" /\ e \in worker[w].todo
      /\ message' = [message EXCEPT ![n] = e] /\ UNCHANGED event
  BY DEF Send
<1>2. message[n] = NoEmail
  <2>1. n >= n
    BY Constants DEF Messages
  <2> QED  BY <2>1 DEF Send
<1>3. /\ worker'[w].at \in {"sent", "threw"} /\ worker'[w].email = e
      /\ worker'[w].todo = worker[w].todo
      /\ \A v \in Workers \ {w} : worker'[v] = worker[v]
  BY DEF Send, OutboxInv, TypeOK
<1>4. /\ SentFor(e)' = SentFor(e) \cup {n} /\ n \notin SentFor(e)
      /\ \A x \in Emails \ {e} : SentFor(x)' = SentFor(x)
  BY <1>1, <1>2, Constants DEF SentFor, OutboxInv, TypeOK
<1>5. Cardinality(SentFor(e)') = Cardinality(SentFor(e)) + 1
  BY <1>4, SentForIsFinite, FS_AddElement
<1>6. ~Spent(w, e)
  BY <1>1 DEF Spent
<1>7. Cardinality(SentFor(e)) + 1 <= event[e].attempts
  BY <1>1, <1>6 DEF Counted
<1>8. \A v \in Workers : e \in worker'[v].todo => Spent(v, e)'
  <2>1. \A v \in Workers \ {w} : e \notin worker[v].todo
    BY <1>1 DEF OutboxInv, InHand
  <2> QED  BY <1>3, <2>1 DEF Spent
<1>9. ASSUME NEW x \in Emails, x # e, NEW v \in Workers, x \in worker'[v].todo
      PROVE  x \in worker[v].todo /\ ~Spent(v, x)' => ~Spent(v, x)
  <2>1. CASE v = w
    BY <1>1, <2>1 DEF Spent
  <2>2. CASE v # w
    BY <1>3, <2>2 DEF Spent
  <2> QED  BY <2>1, <2>2
<1>10. \A v \in Workers : worker'[v].todo = worker[v].todo
  BY <1>3
<1>11. ASSUME NEW x \in Emails, x # e
       PROVE  /\ Cardinality(SentFor(x)') <= event'[x].attempts
              /\ \A v \in Workers : x \in worker'[v].todo /\ ~Spent(v, x)' =>
                   Cardinality(SentFor(x)') + 1 <= event'[x].attempts
  BY <1>1, <1>4, <1>9, <1>10, <1>11 DEF Counted
<1> QED  BY <1>1, <1>5, <1>7, <1>8, <1>11 DEF Counted

(* A run that goes on, stumbles or stops has spent what it had spent.      *)
LEMMA RunsGoOn ==
  ASSUME OutboxInv, NEW w \in Workers,
         \/ worker[w].at \in {"sent", "threw"} /\ NextInBatch(w)
         \/ /\ worker[w].at = "sent"
            /\ worker' = [worker EXCEPT ![w].at = "threw", ![w].message = NoMessage]
         \/ worker' = [worker EXCEPT ![w] = IdleRun]
         \/ \E x \in Emails : /\ worker[w].at = "between"
                             /\ worker' = [worker EXCEPT ![w].at = "threw", ![w].email = x]
  PROVE  \A v \in Workers, e \in Emails :
           e \in worker'[v].todo /\ ~Spent(v, e)' => e \in worker[v].todo /\ ~Spent(v, e)
<1> SUFFICES ASSUME NEW v \in Workers, NEW e \in Emails, e \in worker'[v].todo, ~Spent(v, e)'
             PROVE  e \in worker[v].todo /\ ~Spent(v, e)
  OBVIOUS
<1>0. worker[w] \in Runs /\ worker \in [Workers -> Runs]
  BY DEF OutboxInv, TypeOK, Runs
<1>1. CASE v # w
  <2>1. worker'[v] = worker[v]
    BY <1>0, <1>1 DEF NextInBatch
  <2> QED  BY <2>1 DEF Spent
<1>2. CASE v = w
  <2>1. CASE worker[w].at \in {"sent", "threw"} /\ NextInBatch(w)
    <3>1. worker'[w].todo = worker[w].todo \ {worker[w].email}
      BY <1>0, <2>1 DEF NextInBatch, IdleRun
    <3> QED  BY <1>2, <3>1 DEF Spent
  <2>2. CASE /\ worker[w].at = "sent"
             /\ worker' = [worker EXCEPT ![w].at = "threw", ![w].message = NoMessage]
    <3>1. /\ worker'[w].todo = worker[w].todo /\ worker'[w].email = worker[w].email
          /\ worker'[w].at = "threw"
      BY <1>0, <2>2 DEF Runs
    <3> QED  BY <1>2, <3>1 DEF Spent
  <2>3. CASE worker' = [worker EXCEPT ![w] = IdleRun]
    <3>1. worker'[w].todo = {}
      BY <1>0, <2>3 DEF IdleRun
    <3> QED  BY <1>2, <3>1
  <2>4. ASSUME NEW x \in Emails, worker[w].at = "between",
               worker' = [worker EXCEPT ![w].at = "threw", ![w].email = x]
        PROVE  e \in worker[v].todo /\ ~Spent(v, e)
    <3>1. worker'[w].todo = worker[w].todo
      BY <1>0, <2>4 DEF Runs
    <3> QED  BY <1>2, <2>4, <3>1 DEF Spent
  <2> QED  BY <2>1, <2>2, <2>3, <2>4
<1> QED  BY <1>1, <1>2

LEMMA StepCounted == ASSUME OutboxInv, Counted, [Next]_vars PROVE Counted'
<1>1. ASSUME UNCHANGED <<message, worker>>,
             \A e \in Emails : event'[e].attempts = event[e].attempts
      PROVE  Counted'
  BY <1>1, CountedFrame DEF Spent
<1>2. ASSUME NEW e \in Emails, Queue(e) \/ BecomeDue(e) PROVE Counted'
  <2>1. \A x \in Emails : event'[x].attempts = event[x].attempts
    <3>1. event \in [Emails -> EventRow]
      BY DEF OutboxInv, TypeOK
    <3>2. ASSUME Queue(e) PROVE \A x \in Emails : event'[x].attempts = event[x].attempts
      BY <3>1, <3>2 DEF Queue, EventRow
    <3>3. ASSUME BecomeDue(e) PROVE \A x \in Emails : event'[x].attempts = event[x].attempts
      BY <3>1, <3>3 DEF BecomeDue, EventRow
    <3> QED  BY <1>2, <3>2, <3>3
  <2>2. UNCHANGED <<message, worker>>
    BY <1>2 DEF Queue, BecomeDue
  <2> QED  BY <1>1, <2>1, <2>2
<1>3. ASSUME NEW w \in Workers, NEW e \in Emails, SendNothing(w, e) PROVE Counted'
  <2>1. /\ worker[w].at = "between" /\ UNCHANGED <<message, event>>
        /\ worker' = [worker EXCEPT ![w].at = "threw", ![w].email = e]
    BY <1>3 DEF SendNothing
  <2>2. \A v \in Workers, x \in Emails :
          x \in worker'[v].todo /\ ~Spent(v, x)' => x \in worker[v].todo /\ ~Spent(v, x)
    BY <2>1, RunsGoOn
  <2> QED  BY <2>1, <2>2, CountedFrame
<1>4. ASSUME NEW w \in Workers, RecordSent(w) \/ RecordThrows(w) \/ Fail(w) PROVE Counted'
  <2>1. \/ worker[w].at \in {"sent", "threw"} /\ NextInBatch(w)
        \/ /\ worker[w].at = "sent"
           /\ worker' = [worker EXCEPT ![w].at = "threw", ![w].message = NoMessage]
    BY <1>4 DEF RecordSent, RecordThrows, Fail
  <2>2. UNCHANGED message
    BY <1>4 DEF RecordSent, RecordThrows, Fail
  <2>3. \A x \in Emails : event'[x].attempts = event[x].attempts
    BY <1>4 DEF RecordSent, RecordThrows, Fail, OutboxInv, TypeOK, EventRow
  <2>4. \A v \in Workers, x \in Emails :
          x \in worker'[v].todo /\ ~Spent(v, x)' => x \in worker[v].todo /\ ~Spent(v, x)
    BY <2>1, RunsGoOn
  <2> QED  BY <2>2, <2>3, <2>4, CountedFrame
<1>5. ASSUME NEW w \in Workers, Interrupt(w) PROVE Counted'
  <2>1. worker' = [worker EXCEPT ![w] = IdleRun] /\ UNCHANGED <<message, event>>
    BY <1>5 DEF Interrupt
  <2>2. \A v \in Workers, x \in Emails :
          x \in worker'[v].todo /\ ~Spent(v, x)' => x \in worker[v].todo /\ ~Spent(v, x)
    BY <2>1, RunsGoOn
  <2> QED  BY <2>1, <2>2, CountedFrame
<1>6. ASSUME NEW h \in Hooks,
             \/ \E n \in Messages, k \in Kinds : ReceiveReport(h, n, k)
             \/ FindCommunication(h) \/ FindNoCommunication(h)
             \/ ApplyReport(h) \/ ReportThrows(h) \/ StopHook(h)
      PROVE  Counted'
  <2>1. UNCHANGED <<message, worker, event>>
    BY <1>6 DEF ReceiveReport, FindCommunication, FindNoCommunication, ApplyReport,
               ReportThrows, StopHook
  <2> QED  BY <1>1, <2>1
<1>7. CASE UNCHANGED vars
  <2>1. UNCHANGED <<message, worker, event>>
    BY <1>7 DEF vars
  <2> QED  BY <1>1, <2>1
<1>8. ASSUME NEW w \in Workers, Work(w) PROVE Counted'
  BY <1>3, <1>4, <1>8, SendCounted DEF Work
<1> QED  BY <1>2, <1>5, <1>6, <1>7, <1>8, ClaimCounted DEF Next

(* Runs never share an e-mail, and no e-mail is sent more often than it    *)
(* was claimed, so at most MaxAttempts times.                              *)
THEOREM SendsStayClaimed == Spec => []SendsAreClaimed
<1>1. Init => Counted
  <2> SUFFICES ASSUME Init PROVE Counted
    OBVIOUS
  <2>1. \A e \in Emails : SentFor(e) = {}
    BY Constants DEF Init, SentFor
  <2>2. \A e \in Emails : Cardinality(SentFor(e)) = 0 /\ event[e].attempts = 0
    BY <2>1, FS_EmptySet DEF Init
  <2>3. \A w \in Workers : worker[w].todo = {}
    BY DEF Init, IdleRun
  <2> QED  BY <2>2, <2>3 DEF Counted
<1>2. OutboxInv /\ Counted /\ [Next]_vars => Counted'
  BY StepCounted
<1>3. OutboxInv /\ Counted => SendsAreClaimed
  BY DEF OutboxInv, InHand, Counted, SentFor, SendsAreClaimed
<1> QED  BY <1>1, <1>2, <1>3, OutboxInvariant, PTL DEF Spec

(* A report moves its communication once, when it is marked processed.     *)
THEOREM ReportsApplyOnce == Spec => ReportsAreAppliedOnce
<1>1. OutboxInv /\ [Next]_vars =>
        [\A e \in Emails, k \in Kinds :
           communication[e].status # k /\ communication'[e].status = k =>
             \E n \in Messages : /\ message[n] = e
                                 /\ delivery[<<n, k>>] = "processing"
                                 /\ delivery'[<<n, k>>] = "processed"]_vars
  <2> SUFFICES ASSUME OutboxInv, Next, NEW e \in Emails, NEW k \in Kinds,
                      communication[e].status # k, communication'[e].status = k
               PROVE  \E n \in Messages : /\ message[n] = e
                                          /\ delivery[<<n, k>>] = "processing"
                                          /\ delivery'[<<n, k>>] = "processed"
    <3>1. UNCHANGED vars => UNCHANGED communication
      BY DEF vars
    <3> QED  BY <3>1
  <2>0. communication \in [Emails -> CommunicationRow]
    BY DEF OutboxInv, TypeOK
  <2>1. ASSUME NEW x \in Emails, Queue(x) PROVE FALSE
    <3>1. communication' = [communication EXCEPT ![x].status = "queued"]
      BY <2>1 DEF Queue
    <3> QED  BY <2>0, <3>1, Constants DEF CommunicationRow
  <2>2. ASSUME NEW w \in Workers, RecordSent(w) PROVE FALSE
    <3>1. communication' = [communication EXCEPT
            ![worker[w].email] = [status |-> "sent", message |-> worker[w].message]]
      BY <2>2 DEF RecordSent
    <3>2. k # "sent"
      BY OutboxAssumption, Zenon
    <3> QED  BY <2>0, <3>1, <3>2
  <2>3. ASSUME NEW x \in Emails, BecomeDue(x) PROVE UNCHANGED communication
    BY <2>3 DEF BecomeDue
  <2>4. ASSUME NEW w \in Workers,
               \/ \E batch \in SUBSET Emails : Claim(w, batch)
               \/ \E x \in Emails : SendNothing(w, x) \/ \E n \in Messages : Send(w, x, n)
               \/ RecordThrows(w) \/ Fail(w) \/ Interrupt(w)
        PROVE  UNCHANGED communication
    BY <2>4 DEF Claim, SendNothing, Send, RecordThrows, Fail, Interrupt
  <2>5. ASSUME NEW h \in Hooks,
               \/ \E n \in Messages, j \in Kinds : ReceiveReport(h, n, j)
               \/ FindCommunication(h) \/ FindNoCommunication(h)
               \/ ReportThrows(h) \/ StopHook(h)
        PROVE  UNCHANGED communication
    BY <2>5 DEF ReceiveReport, FindCommunication, FindNoCommunication, ReportThrows, StopHook
  <2>6. PICK h \in Hooks : ApplyReport(h)
    BY <2>1, <2>2, <2>3, <2>4, <2>5 DEF Next, Work
  <2>7. /\ hook[h].at = "found"
        /\ communication' = [communication EXCEPT
              ![hook[h].email].status = hook[h].kind]
        /\ delivery' = [delivery EXCEPT ![<<hook[h].message, hook[h].kind>>] = "processed"]
    BY <2>6 DEF ApplyReport
  <2>8. /\ hook[h].message \in Messages /\ hook[h].kind \in Kinds
        /\ delivery[<<hook[h].message, hook[h].kind>>] = "processing"
        /\ message[hook[h].message] = hook[h].email
    BY <2>7 DEF OutboxInv, Established
  <2>9. hook[h].email = e /\ hook[h].kind = k
    BY <2>0, <2>7 DEF CommunicationRow
  <2>10. delivery'[<<hook[h].message, hook[h].kind>>] = "processed"
    BY <2>7, <2>8 DEF OutboxInv, TypeOK
  <2> QED  BY <2>8, <2>9, <2>10
<1> QED  BY <1>1, OutboxInvariant, PTL DEF Spec, ReportsAreAppliedOnce
=============================================================================
