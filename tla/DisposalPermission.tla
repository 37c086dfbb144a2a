------------------------- MODULE DisposalPermission -------------------------
(***************************************************************************)
(* What the disposal service promises about a task, with clocks, versions, *)
(* products, locks and transactions left out: how the evidence that counts *)
(* and the permission that rests on it may change, and what closes a task. *)
(***************************************************************************)
CONSTANT Tasks

VARIABLES
  stage,       \* of each task: is it there, and how was it closed
  evidence,    \* the verdict on the newest evidence
  permission   \* the permission that rests on that evidence

avars == <<stage, evidence, permission>>

Stages      == {"none", "open", "permitted", "excepted"}
Verdicts    == {"none", "pending", "accepted", "refused"}
Permissions == {"none", "live", "ended"}

ATypeOK ==
  /\ stage \in [Tasks -> Stages]
  /\ evidence \in [Tasks -> Verdicts]
  /\ permission \in [Tasks -> Permissions]

AInit ==
  /\ stage = [t \in Tasks |-> "none"]
  /\ evidence = [t \in Tasks |-> "none"]
  /\ permission = [t \in Tasks |-> "none"]

Open(t) ==
  /\ stage[t] = "none"
  /\ stage' = [stage EXCEPT ![t] = "open"]
  /\ UNCHANGED <<evidence, permission>>

(* New evidence takes the permission that rested on the old with it. *)
Send(t) ==
  /\ stage[t] # "none"
  /\ evidence' = [evidence EXCEPT ![t] = "pending"]
  /\ permission' = [permission EXCEPT ![t] = "none"]
  /\ UNCHANGED stage

(* A verdict is given once. *)
Decide(t, verdict) ==
  /\ evidence[t] = "pending"
  /\ evidence' = [evidence EXCEPT ![t] = verdict]
  /\ UNCHANGED <<stage, permission>>

(* The instructions of some tasks are withdrawn. *)
Withdraw(affected) ==
  /\ evidence' = [t \in Tasks |->
       IF t \in affected /\ evidence[t] = "pending" THEN "refused" ELSE evidence[t]]
  /\ permission' = [t \in Tasks |->
       IF t \in affected /\ permission[t] = "live" THEN "ended" ELSE permission[t]]
  /\ UNCHANGED stage

Permit(t) ==
  /\ stage[t] = "open"
  /\ evidence[t] = "accepted"
  /\ permission[t] # "live"
  /\ permission' = [permission EXCEPT ![t] = "live"]
  /\ UNCHANGED <<stage, evidence>>

Retire(t) ==
  /\ permission[t] = "live"
  /\ permission' = [permission EXCEPT ![t] = "ended"]
  /\ UNCHANGED <<stage, evidence>>

Complete(t) ==
  /\ stage[t] = "open"
  /\ evidence[t] = "accepted"
  /\ permission[t] # "none"
  /\ stage' = [stage EXCEPT ![t] = "permitted"]
  /\ UNCHANGED <<evidence, permission>>

Except(t) ==
  /\ stage[t] = "open"
  /\ stage' = [stage EXCEPT ![t] = "excepted"]
  /\ UNCHANGED <<evidence, permission>>

ANext ==
  \/ \E t \in Tasks : \/ Open(t)
                      \/ Send(t)
                      \/ \E verdict \in {"accepted", "refused"} : Decide(t, verdict)
                      \/ Permit(t)
                      \/ Retire(t)
                      \/ Complete(t)
                      \/ Except(t)
  \/ \E affected \in SUBSET Tasks : Withdraw(affected)

ASpec == AInit /\ [][ANext]_avars
=============================================================================
