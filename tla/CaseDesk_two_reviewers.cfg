SPECIFICATION Spec
CONSTANTS
  Cases = {c1}
  Escalations = {e1}
  Requests = {r1, r2}
  Exports = {b1}
  Categories = {"legal"}
  EscalationsRead = 1
  MaxVersion = 3
PROPERTIES
  DecidedReviewIsFinal
CHECK_DEADLOCK FALSE
