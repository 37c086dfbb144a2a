SPECIFICATION FairSpec
CONSTANTS
  Emails = {e1, e2}
  Workers = {w1, w2}
  Hooks = {h1, h2}
  Kinds = {"delivered", "other"}
  MaxAttempts = 2
  BatchLimit = 2
  MaxMessages = 2
  MaxReports = 2
INVARIANTS
  TypeOK
  SendsAreClaimed
  RecordsAreTrue
PROPERTIES
  ReportsAreAppliedOnce
  EventsAreSettled
CHECK_DEADLOCK FALSE
