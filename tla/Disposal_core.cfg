CONSTANTS
  p1 = p1
  p2 = p2
  Tasks = {t1}
  Products = {p1}
  Sessions = {s1, s2}
  Keys = {k1, k2}
  Submissions <- WholeTask
  Approvals <- LetterRunningOut
  MaxInstructions = 1
  MaxBatches = 2
  MaxIssues = 3
  MaxRowVersion = 2
  MaxQuantity = 1
  MaxTime = 1
SYMMETRY Interchangeable
SPECIFICATION Spec
CHECK_DEADLOCK FALSE
INVARIANTS
  LivePermissionRestsOnAcceptedEvidence
  OneLivePermission
  SubmissionsAreSerial
  DeclarationKeepsItsEvidence
PROPERTIES
  CompletionNeedsPermission
  ClosureIsFinal
  EligibilityDecidedOnWhatWasSeen
  KeepsPromise
