------------------------ MODULE ProductIdentification ------------------------
(***************************************************************************)
(* Is a product recalled (modules/product-identification/policy.ts)?       *)
(*                                                                         *)
(* A check asks about all products of the published version at once; a     *)
(* claim asks about each product it names, with only that product in the   *)
(* snapshot.  Both call identify, so that their triage cannot drift, says  *)
(* the service (service.ts); but the contract of a check trims the legacy  *)
(* fields and that of a claim does not, and what rows hold is trimmed.     *)
(* One version is asked here: a check reads the published one, a claim the *)
(* one its draft pinned, which agree on nothing once they differ.          *)
(***************************************************************************)
EXTENDS Naturals, FiniteSets

CONSTANTS
  RecalledProducts,  \* products of the version
  Variants,          \* variants of these products
  Identifiers,       \* normalised identifiers
  Attributes,        \* shapes and flavors of products, as rows have them
  Codes,             \* lot and date codes, as rows have them
  Snapshots          \* contents versions have

VARIABLE checked     \* the question: who asked, the snapshot read, what was typed

-----------------------------------------------------------------------------
LotStatuses == {"affected", "not_affected", "manual_review"}
Modes == {"product_identifiers", "purchase_evidence", "unknown"}

(* readSnapshot.                                                           *)
Snapshot ==
  [owner       : [Variants -> RecalledProducts \cup {"none"}],
   identifiers : [Variants -> SUBSET Identifiers],
   attributes  : [RecalledProducts -> SUBSET Attributes],
   lots        : SUBSET (RecalledProducts \X Codes \X LotStatuses)]

ASSUME IdentificationAssumption ==
  /\ "none" \notin RecalledProducts
  /\ {"none", "no row's"} \cap (Attributes \cup Codes) = {}
  /\ IsFiniteSet(Variants) /\ RecalledProducts # {}
  /\ Snapshots \subseteq Snapshot

(* What a consumer types into a legacy field: a value or nothing, with or  *)
(* without blanks around it; nothing but blanks is a blank field.          *)
Typed(S) == (S \cup {"none"}) \X {"exact", "padded"}

Padded(typed) == typed[2] = "padded"

(* The legacy fields are one attribute and one code here; a purchase trail *)
(* is absent or given, be it empty.  Identifiers are trimmed by both       *)
(* contracts, and by neither left empty.                                   *)
Sent ==
  [identifiers : SUBSET Identifiers,
   attribute   : Typed(Attributes),
   code        : Typed(Codes),
   evidence    : {"absent", "given"}]

(* What identify is given; a value with blanks around it is no row's.      *)
Signals ==
  [identifiers : SUBSET Identifiers,
   attribute   : Attributes \cup {"none", "no row's"},
   code        : Codes \cup {"none", "no row's"},
   evidence    : {"absent", "given"}]

(* The contract of a check trims, and a blank field is then an absent one. *)
CheckSignals(sent) ==
  [sent EXCEPT !.attribute = sent.attribute[1], !.code = sent.code[1]]

(* Mutant: a value of a claim that no row has is left out. *)
UntrimmedIsAbsent(typed) == IF Padded(typed) THEN "none" ELSE typed[1]

(* That of a claim does not, and a blank field is given.                   *)
Untrimmed(typed) == IF Padded(typed) THEN "no row's" ELSE typed[1]

ClaimSignals(sent) ==
  [sent EXCEPT !.attribute = Untrimmed(sent.attribute), !.code = Untrimmed(sent.code)]

EmptySnapshot ==
  [owner |-> [v \in Variants |-> "none"], identifiers |-> [v \in Variants |-> {}],
   attributes |-> [p \in RecalledProducts |-> {}], lots |-> {}]

NothingSent ==
  [identifiers |-> {}, attribute |-> <<"none", "exact">>, code |-> <<"none", "exact">>,
   evidence |-> "absent"]

NoSignals == [identifiers |-> {}, attribute |-> "none", code |-> "none", evidence |-> "absent"]

IdentificationTypeOK ==
  checked \in [by : {"nobody", "check", "claim"}, snapshot : Snapshot, mode : Modes, sent : Sent]

IdentificationInit ==
  checked = [by |-> "nobody", snapshot |-> EmptySnapshot, mode |-> "unknown", sent |-> NothingSent]

-----------------------------------------------------------------------------
VariantsOf(s, p) == {v \in Variants : s.owner[v] = p}

(* The snapshot of a claim has the lots of its product only.               *)
LotsIn(s, scope) == {lot \in s.lots : lot[1] \in scope}

(* Mutant: lots are not tied to their product. *)
LotsOfAny(s, scope, p, code) ==
  {lot \in LotsIn(s, scope) : code \in {"none", lot[2]}}

(* The lots of product p that carry the code asked for, or any of them.    *)
LotsOf(s, scope, p, code) ==
  {lot \in LotsIn(s, scope) : lot[1] = p /\ code \in {"none", lot[2]}}

(* matchLegacy: products of the scope that have the attribute and a lot    *)
(* that is affected or must be looked at.                                  *)
Asked(signals) == signals.attribute # "none" \/ signals.code # "none"

Recalled(s, scope, signals, statuses) ==
  {p \in scope :
     /\ Asked(signals)
     /\ signals.attribute \in s.attributes[p] \cup {"none"}
     /\ \E lot \in LotsOf(s, scope, p, signals.code) : lot[3] \in statuses}

LegacyManual(s, scope, signals) == Recalled(s, scope, signals, {"manual_review"}) # {}

Matched(s, scope, mode, signals) ==
  {v \in UNION {VariantsOf(s, p) : p \in scope} :
     \/ mode = "product_identifiers" /\ s.identifiers[v] \cap signals.identifiers # {}
     \/ s.owner[v] \in Recalled(s, scope, signals, {"affected", "manual_review"})}

(* hasNoSignals: a purchase trail counts as a signal, also an empty one.   *)
HasNoSignals(signals) == signals = NoSignals

(* identify.                                                               *)
Identify(s, scope, mode, signals) ==
  LET n == Cardinality(Matched(s, scope, mode, signals))
  IN  CASE LegacyManual(s, scope, signals)                 -> "manual_review"
        [] ~LegacyManual(s, scope, signals) /\ n > 1       -> "manual_review"
        [] ~LegacyManual(s, scope, signals) /\ n = 1       -> "potential_match"
        [] ~LegacyManual(s, scope, signals) /\ n = 0       ->
             IF mode # "product_identifiers" \/ HasNoSignals(signals)
             THEN "manual_review" ELSE "not_matched"

(* deriveEvidenceProfile.                                                  *)
EvidenceProfile(s, scope, mode, signals) ==
  IF LegacyManual(s, scope, signals) \/ Cardinality(Matched(s, scope, mode, signals)) # 1
  THEN "manual_review"
  ELSE CASE mode = "product_identifiers" -> "identifier_match"
         [] mode = "purchase_evidence"   -> "order_evidence"
         [] mode = "unknown"             -> "manual_review"

Ask(by, s, mode, sent) ==
  checked' = [by |-> by, snapshot |-> s, mode |-> mode, sent |-> sent]

(* toIdentificationInput: identifiers, a purchase trail, nothing, or the   *)
(* legacy fields, which are looked up as identifiers are.  A request with  *)
(* blank legacy fields only is refused by its contract.                    *)
CheckProduct(s, mode, sent) ==
  LET legacy == Asked(ClaimSignals(sent))
  IN  /\ mode = "product_identifiers" <=>
           (sent.identifiers # {} \/ Asked(CheckSignals(sent)))
      /\ legacy => /\ Asked(CheckSignals(sent))
                   /\ sent.identifiers = {} /\ sent.evidence = "absent"
      /\ mode = "purchase_evidence" => sent.evidence = "given"
      /\ Ask("check", s, mode, sent)

(* A claim sends its mode and any of the signals about each product.       *)
ClaimProduct(s, mode, sent) == Ask("claim", s, mode, sent)

(* Every question is answered on its own: one is enough.                   *)
IdentificationNext ==
  /\ checked.by = "nobody"
  /\ \E s \in Snapshots, mode \in Modes, sent \in Sent :
       CheckProduct(s, mode, sent) \/ ClaimProduct(s, mode, sent)

IdentificationSpec == IdentificationInit /\ [][IdentificationNext]_checked

-----------------------------------------------------------------------------
(* A check of all products with these signals, and a claim about each with *)
(* those: they match the same variants, a product that must be looked at   *)
(* is looked at in both, a match of the check is the match of one product, *)
(* which is asked for the same evidence, and both reject the same.         *)
SaysTheSame(s, mode, asked, claimed) ==
  LET all == Identify(s, RecalledProducts, mode, asked)
      of(p) == Identify(s, {p}, mode, claimed)
      profile == EvidenceProfile(s, RecalledProducts, mode, asked)
  IN  /\ Matched(s, RecalledProducts, mode, asked) =
           UNION {Matched(s, {p}, mode, claimed) : p \in RecalledProducts}
      /\ LegacyManual(s, RecalledProducts, asked) <=>
           \E p \in RecalledProducts : LegacyManual(s, {p}, claimed)
      /\ all = "potential_match" =>
           Cardinality({p \in RecalledProducts : of(p) = "potential_match"}) = 1
      /\ profile # "manual_review" =>
           \E p \in RecalledProducts : EvidenceProfile(s, {p}, mode, claimed) = profile
      /\ all = "not_matched" <=> \A p \in RecalledProducts : of(p) = "not_matched"

(* Of one version and of what was typed without blanks around it, a claim  *)
(* is told of its products what a check says of them all (identify in      *)
(* submit and in productChecks.check).  With blanks the two drift, and one *)
(* way only: a claim matches, and holds for review by its lots, no more    *)
(* than the check, and rejects whatever the check rejects.  A purchase     *)
(* trail neither makes a match nor takes one away.                         *)
ClaimsAgreeWithChecks ==
  LET s == checked.snapshot
      mode == checked.mode
      sent == checked.sent
      asked == CheckSignals(sent)
      claimed == ClaimSignals(sent)
      all == Identify(s, RecalledProducts, mode, asked)
      plain == Identify(s, RecalledProducts, mode, [asked EXCEPT !.evidence = "absent"])
  IN  /\ ~Padded(sent.attribute) /\ ~Padded(sent.code) => SaysTheSame(s, mode, asked, claimed)
      /\ \A p \in RecalledProducts :
           /\ Matched(s, {p}, mode, claimed) \subseteq Matched(s, RecalledProducts, mode, asked)
           /\ LegacyManual(s, {p}, claimed) => all = "manual_review"
           /\ all = "not_matched" => Identify(s, {p}, mode, claimed) = "not_matched"
      /\ plain # all => {all, plain} = {"not_matched", "manual_review"}
=============================================================================
