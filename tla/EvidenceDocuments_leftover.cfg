CONSTANTS
  ClaimFiles = {f1}
  DisposalPhotos = {}
  Callbacks = {c1}
  Workers = {w1}
  Submitters = {}
  MaxFiles = 1
  MaxUploads = 1
  RetentionIsSet = FALSE
SPECIFICATION Spec
CHECK_DEADLOCK FALSE
INVARIANT DeletedRowHasNoObject
