----------------------- MODULE DisposalCoverageProofs -----------------------
(***************************************************************************)
(* What CoverageFor may return, for every set of claims and every          *)
(* confirmation.                                                           *)
(***************************************************************************)
EXTENDS DisposalCoverage, Integers, WellFoundedInduction, TLAPS

(* A nonempty set of naturals with a bound has a greatest element, and     *)
(* that is the element Max chooses: LatestBatch and LatestIssue name a row *)
(* that exists, and a claimed quantity is one of those claimed.            *)
LEMMA MaxOfBounded ==
  ASSUME NEW n \in Nat, NEW S \in SUBSET (0..n), S # {}
  PROVE  /\ Max(S) \in S
         /\ \A x \in S : Max(S) >= x
<1> DEFINE T == {n - x : x \in S}
<1>1. \A x \in S : x \in Nat /\ n - x \in Nat
  OBVIOUS
<1>2. T \subseteq Nat /\ T # {}
  BY <1>1
<1>3. PICK m \in T : \A k \in T : ~(<<k, m>> \in OpToRel(<, Nat))
  <2> HIDE DEF T
  <2> QED  BY <1>2, NatLessThanWellFounded, WFMin
<1>4. PICK x \in S : m = n - x
  OBVIOUS
<1>5. ASSUME NEW y \in S PROVE x >= y
  <2>1. ~(<<n - y, n - x>> \in OpToRel(<, Nat))
    BY <1>3, <1>4
  <2>2. ~(n - y < n - x)
    BY <1>1, <2>1 DEF OpToRel
  <2> QED  BY <1>1, <2>2
<1> QED
  BY <1>5 DEF Max

(* The least of two naturals. *)
LEMMA MinOfTwo ==
  ASSUME NEW m \in Nat, NEW n \in Nat
  PROVE  Min({m, n}) = IF m <= n THEN m ELSE n
<1>1. \E x \in {m, n} : \A y \in {m, n} : x =< y
  <2>1. m <= n => \A y \in {m, n} : m =< y
    OBVIOUS
  <2>2. ~(m <= n) => \A y \in {m, n} : n =< y
    OBVIOUS
  <2> QED  BY <2>1, <2>2
<1>2. Min({m, n}) \in {m, n} /\ \A y \in {m, n} : Min({m, n}) =< y
  BY <1>1 DEF Min
<1> QED
  BY <1>2

(* The largest claim about a product is one of the claims about it. *)
LEMMA LargestClaim ==
  ASSUME NEW claims \in SUBSET Claim, NEW p \in Products,
         \E c \in claims : c.product = p
  PROVE  /\ \E c \in claims : /\ c.product = p
                              /\ c.quantity = Max(ClaimedQuantities(claims, p))
         /\ \A c \in claims : c.product = p =>
              c.quantity <= Max(ClaimedQuantities(claims, p))
         /\ Max(ClaimedQuantities(claims, p)) \in 0..MaxQuantity
<1>1. ClaimedQuantities(claims, p) \in SUBSET (0..MaxQuantity)
  BY DEF ClaimedQuantities, Claim
<1>2. ClaimedQuantities(claims, p) # {}
  BY DEF ClaimedQuantities
<1>3. /\ Max(ClaimedQuantities(claims, p)) \in ClaimedQuantities(claims, p)
      /\ \A q \in ClaimedQuantities(claims, p) :
           Max(ClaimedQuantities(claims, p)) >= q
  BY <1>1, <1>2, MaxOfBounded, CoverageAssumption
<1>4. \A c \in claims : c.product = p => c.quantity \in ClaimedQuantities(claims, p)
  BY DEF ClaimedQuantities
<1>5. \E c \in claims : /\ c.product = p
                        /\ c.quantity = Max(ClaimedQuantities(claims, p))
  BY <1>3 DEF ClaimedQuantities
<1>6. \A q \in 0..MaxQuantity : \A r \in 0..MaxQuantity : q >= r => r <= q
  BY CoverageAssumption
<1> QED  BY <1>1, <1>3, <1>4, <1>5, <1>6

(* A permission covers only products somebody confirmed and the documents  *)
(* name, at least one unit of each and no more than was confirmed          *)
(* (coverageFor: "never covers more of a product than a person confirmed   *)
(* was affected").                                                         *)
THEOREM CoverageWithinConfirmed ==
  ASSUME NEW claims \in SUBSET Claim,
         NEW confirmed \in [Products -> 0..MaxQuantity]
  PROVE  \A item \in CoverageFor(claims, confirmed) :
           /\ item \in CoveredItem
           /\ item.quantity <= confirmed[item.product]
<1> SUFFICES ASSUME NEW p \in Products, confirmed[p] # Unconfirmed,
                    \E c \in claims : c.product \in {p, AllProducts}
             PROVE  /\ CoveredQuantity(claims, confirmed, p) \in Quantities
                    /\ CoveredQuantity(claims, confirmed, p) <= confirmed[p]
  BY DEF CoverageFor, CoveredItem
<1>1. confirmed[p] \in Quantities /\ confirmed[p] \in Nat
  BY CoverageAssumption DEF Quantities, Unconfirmed
<1>2. CASE FullyClaimed(claims, p)
  BY <1>1, <1>2 DEF CoveredQuantity
<1>3. CASE ~FullyClaimed(claims, p)
  <2> DEFINE largest == Max(ClaimedQuantities(claims, p))
  <2>1. \E c \in claims : c.product = p
    BY <1>3 DEF FullyClaimed
  <2>2. \A c \in claims : c.product = p => c.quantity # 0
    BY <1>3 DEF FullyClaimed, NoQuantity
  <2>3. largest \in 0..MaxQuantity /\ largest # 0
    BY <2>1, <2>2, LargestClaim
  <2>4. CoveredQuantity(claims, confirmed, p)
          = IF confirmed[p] <= largest THEN confirmed[p] ELSE largest
    <3>1. largest \in Nat
      BY <2>3, CoverageAssumption
    <3>2. CoveredQuantity(claims, confirmed, p) = Min({confirmed[p], largest})
      BY <1>3 DEF CoveredQuantity
    <3> QED  BY <1>1, <3>1, <3>2, MinOfTwo
  <2> HIDE DEF largest
  <2> QED  BY <1>1, <2>3, <2>4, CoverageAssumption DEF Quantities
<1> QED  BY <1>2, <1>3
=============================================================================
