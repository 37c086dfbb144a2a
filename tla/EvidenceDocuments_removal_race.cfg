CONSTANTS
  ClaimFiles = {}
  DisposalPhotos = {d1}
  Callbacks = {c1}
  Workers = {}
  Submitters = {s1}
  MaxFiles = 1
  MaxUploads = 1
  RetentionIsSet = FALSE
SPECIFICATION Spec
CHECK_DEADLOCK FALSE
INVARIANT BatchKeepsItsPhotos
