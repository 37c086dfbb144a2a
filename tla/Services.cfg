CONSTANTS
  Products = {b1, b2}
  MaxQuantity = 2
  MaxDocuments = 3
  f1 = f1
  Drafts = {b1, b2}
  Documents = {f1}
  Bodies <- SomeBodies
  Keys = {k1, k2}
  Submissions = {a1, a2}
  References = {c1, c2}
  MinimumFiles = 0
  MaximumFiles = 2
  DraftTTL = 1
  RecordTTL = 2
  EscalatedStatus = TRUE
  MaxTime = 2
  Staff = {u1}
  CustomRoles = {"role_a"}
  RolesInPlay = {"MANAGER"}
  Grants <- SomeGrants
  RoutesInPlay = {"pii.view_raw", "case.assign", "campaign.publish", "staff.create", "staff.role.change", "staff.delete", "session.revoke_all", "access.policy.update"}
  Calls = {a1, a2}
  MaxRevision = 2
  v1 = v1
  v2 = v2
  v3 = v3
  Versions = {v1, v2, v3}
  Locales = {"en", "es"}
  Content <- SomeContent
  SignOffs <- SomeSignOffs
  Publications = {a1, a2}
  Readers = {r1}
  RecalledProducts = {b1, b2}
  Variants = {c1, c2}
  Identifiers = {i1}
  Attributes = {shape}
  Codes = {l1}
  Snapshots <- SomeSnapshots
  Mailboxes = {c1, c2}
  Accounts = {b1, b2}
  Tokens = {t1}
  Registrations = {a1, a2}
  Claims = {e1}
SYMMETRY Interchangeable
SPECIFICATION ServicesSpec
CHECK_DEADLOCK FALSE
INVARIANTS
  ServicesTypeOK
  LoopComputesCoverage
  OneCasePerDraft
  RolesInUseExist
  ClaimsAgreeWithChecks
  ConsumersSeeTheirClaims
PROPERTIES
  AuditTellsTheTruth
  RetriesAreAnswered
  CasesStartWhole
  PolicyEditsAreNotLost
  PublicationsStand
