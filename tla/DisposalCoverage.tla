-------------------------- MODULE DisposalCoverage --------------------------
(***************************************************************************)
(* What one disposal permission covers: a function of what the documents   *)
(* of the accepted batch claim and of what staff confirmed (coverageFor in *)
(* drizzle-disposal-service.ts), stated without the loop that computes it. *)
(* Module CoverageLoop relates the two.                                    *)
(***************************************************************************)
EXTENDS Naturals, FiniteSetsExt

CONSTANTS
  Products,      \* campaign products, all named on every task
  MaxQuantity    \* bound: units of one product

AllProducts == "all"    \* campaign_product_id NULL in a batch document
NoQuantity  == 0        \* quantity_covered NULL in a batch document
Unconfirmed == 0        \* confirmed_affected = false

Quantities  == 1..MaxQuantity
Claim       == [product : Products \cup {AllProducts}, quantity : 0..MaxQuantity]
CoveredItem == [product : Products, quantity : Quantities]

ASSUME CoverageAssumption == MaxQuantity \in Nat /\ AllProducts \notin Products

(* coverageFor: what the batch's documents claim, product by product, up   *)
(* to the confirmed quantity.  A claim that names no product, or no        *)
(* quantity, stands for everything confirmed.                              *)
FullyClaimed(claims, p) ==
  \E c \in claims : \/ c.product = AllProducts
                    \/ c.product = p /\ c.quantity = NoQuantity
ClaimedQuantities(claims, p) ==
  {c.quantity : c \in {d \in claims : d.product = p}}

(* Mutant: what a document claims is taken at its word. *)
ClaimedQuantity(claims, confirmed, p) ==
  IF FullyClaimed(claims, p) THEN confirmed[p]
  ELSE Max(ClaimedQuantities(claims, p))

CoveredQuantity(claims, confirmed, p) ==
  IF FullyClaimed(claims, p) THEN confirmed[p]
  ELSE Min({confirmed[p], Max(ClaimedQuantities(claims, p))})

(* Mutant: a product nobody confirmed is covered too. *)
CoverageOfAnyProduct(claims, confirmed) ==
  {[product |-> p, quantity |-> CoveredQuantity(claims, confirmed, p)] :
     p \in {q \in Products : \E c \in claims : c.product \in {q, AllProducts}}}

CoverageFor(claims, confirmed) ==
  {[product |-> p, quantity |-> CoveredQuantity(claims, confirmed, p)] :
     p \in {q \in Products :
              /\ confirmed[q] # Unconfirmed
              /\ \E c \in claims : c.product \in {q, AllProducts}}}
=============================================================================
