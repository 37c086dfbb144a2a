CONSTANTS
  p1 = p1
  p2 = p2
  Tasks = {t1}
  Products = {p1, p2}
  Sessions = {s1, s2}
  Keys = {k1, k2}
  Submissions <- ByProduct
  Approvals <- LetterInForce
  MaxInstructions = 1
  MaxBatches = 2
  MaxIssues = 1
  MaxRowVersion = 2
  MaxQuantity = 2
  MaxTime = 0
SYMMETRY Interchangeable
SPECIFICATION Spec
CHECK_DEADLOCK FALSE
INVARIANT TypeOK
PROPERTY PermissionNeedsEveryPrecondition
