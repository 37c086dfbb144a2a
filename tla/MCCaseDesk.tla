----------------------------- MODULE MCCaseDesk -----------------------------
(* Instances of CaseDesk for TLC. *)
EXTENDS CaseDesk, TLC

Symmetry == Permutations(Requests) \cup Permutations(Escalations) \cup Permutations(Exports)
=============================================================================
