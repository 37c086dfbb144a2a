SPECIFICATION Spec
CONSTANTS
  Cases = {c1}
  Escalations = {e1, e2}
  Requests = {r1, r2}
  Exports = {b1}
  Categories = {"legal", "suspected_fraud"}
  EscalationsRead = 2
  MaxVersion = 4
SYMMETRY Symmetry
INVARIANTS
  TypeOK
  ClosedMeansRemedied
  MailedFactsStand
  ExportsAreFinal
  OpenCasesHaveAWay
PROPERTIES
  ClosingOwesNothing
  DecidedOnWhatWasShown
  TerminalFactsAreSticky
CHECK_DEADLOCK FALSE
