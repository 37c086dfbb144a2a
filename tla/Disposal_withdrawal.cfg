CONSTANTS
  p1 = p1
  p2 = p2
  Tasks = {t1}
  Products = {p1}
  Sessions = {s1, s2}
  Keys = {k1}
  Submissions <- WholeTask
  Approvals <- LetterInForce
  MaxInstructions = 1
  MaxBatches = 1
  MaxIssues = 1
  MaxRowVersion = 2
  MaxQuantity = 1
  MaxTime = 0
SYMMETRY Interchangeable
SPECIFICATION Spec
CHECK_DEADLOCK FALSE
INVARIANT WithdrawalLeavesNoLivePermission
