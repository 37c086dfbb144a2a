------------------------ MODULE MCEvidenceDocuments ------------------------
(***************************************************************************)
(* Small instances of EvidenceDocuments for TLC.                           *)
(***************************************************************************)
EXTENDS EvidenceDocuments, TLC

Interchangeable ==
  Permutations(ClaimFiles) \cup Permutations(DisposalPhotos)
    \cup Permutations(Callbacks) \cup Permutations(Workers)
=============================================================================
