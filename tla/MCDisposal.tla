----------------------------- MODULE MCDisposal -----------------------------
(***************************************************************************)
(* Small inputs for module Disposal: what documents claim, and which       *)
(* materials staff record behind an instruction version.                   *)
(***************************************************************************)
EXTENDS Disposal, TLC

CONSTANTS p1, p2

Everything == [product |-> AllProducts, quantity |-> NoQuantity]
Units(p, n) == [product |-> p, quantity |-> n]

(* One document for the whole task. *)
WholeTask == {{Everything}}

(* Documents that name products, some with a quantity and some without. *)
ByProduct == {{Everything}, {Units(p1, 2)}, {Units(p1, 1), Units(p1, 2)},
              {Units(p1, NoQuantity), Units(p2, 1)}}

Letter == [material |-> "recall_expectation_letter",
           scope    |-> "consumer_held_product",
           measure  |-> "consumer_disposal"]
Report == [Letter EXCEPT !.material = "laboratory_report"]

(* An approval in force throughout. *)
LetterInForce ==
  {[input |-> Letter, window |-> [from |-> 0, until |-> MaxTime + 1]]}

(* One that runs out at time 1, beside a material that never authorizes. *)
LetterRunningOut ==
  {[input |-> Letter, window |-> [from |-> 0, until |-> 1]],
   [input |-> Report, window |-> [from |-> 0, until |-> MaxTime + 1]]}

Interchangeable ==
  Permutations(Sessions) \cup Permutations(Tasks) \cup Permutations(Keys)
=============================================================================
