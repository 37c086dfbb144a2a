---------------------------- MODULE CoverageLoop ----------------------------
(***************************************************************************)
(* The loop of coverageFor: it walks the documents of a batch in the order *)
(* the database happens to return them and keeps, per product, how much is *)
(* covered so far.  The rest of the model uses CoverageFor, a set without  *)
(* an order; here the loop is shown to compute it after every document.    *)
(***************************************************************************)
EXTENDS DisposalCoverage, Sequences

CONSTANT MaxDocuments    \* bound: documents of one batch

ASSUME DocumentsAssumption == MaxDocuments \in Nat

VARIABLES
  documents,   \* what the batch's documents claim, in the order read
  confirmed,   \* units of each product staff confirmed
  at,          \* how many documents the loop has taken
  covered      \* the Map it fills; 0 where it has no entry

vars == <<documents, confirmed, at, covered>>

TypeOK ==
  /\ documents \in UNION {[1..n -> Claim] : n \in 0..MaxDocuments}
  /\ confirmed \in [Products -> 0..MaxQuantity]
  /\ at \in 0..MaxDocuments
  /\ covered \in [Products -> 0..MaxQuantity]

Init ==
  /\ documents \in UNION {[1..n -> Claim] : n \in 0..MaxDocuments}
  /\ confirmed \in [Products -> 0..MaxQuantity]
  /\ at = 0
  /\ covered = [p \in Products |-> 0]

Greater(m, n) == IF m >= n THEN m ELSE n
Lesser(m, n)  == IF m <= n THEN m ELSE n

Requested(document, p) ==
  IF document.quantity = NoQuantity THEN confirmed[p] ELSE document.quantity

(* Mutant: the last document that names a product decides. *)
ReplacedBy(document, p) ==
  IF document.product = AllProducts THEN confirmed[p]
  ELSE IF document.product = p /\ confirmed[p] # Unconfirmed
       THEN Lesser(confirmed[p], Requested(document, p))
       ELSE covered[p]

CoveredBy(document, p) ==
  IF document.product = AllProducts THEN confirmed[p]
  ELSE IF document.product = p /\ confirmed[p] # Unconfirmed
       THEN Lesser(confirmed[p], Greater(covered[p], Requested(document, p)))
       ELSE covered[p]

TakeDocument ==
  /\ at < Len(documents)
  /\ at' = at + 1
  /\ covered' = [p \in Products |-> CoveredBy(documents[at + 1], p)]
  /\ UNCHANGED <<documents, confirmed>>

Next == TakeDocument

Spec == Init /\ [][Next]_vars

-----------------------------------------------------------------------------
Taken == {documents[k] : k \in 1..at}
Entries == {[product |-> p, quantity |-> covered[p]] :
              p \in {q \in Products : covered[q] # 0}}

(* Whatever the order and the number of the documents, the Map holds what  *)
(* CoverageFor says of the documents taken so far: each product once, the  *)
(* largest claim about it, never more than was confirmed, and nothing of a *)
(* product nobody confirmed.                                               *)
LoopComputesCoverage == Entries = CoverageFor(Taken, confirmed)
=============================================================================
