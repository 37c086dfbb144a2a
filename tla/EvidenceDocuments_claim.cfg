CONSTANTS
  ClaimFiles = {f1}
  DisposalPhotos = {}
  Callbacks = {c1, c2}
  Workers = {w1}
  Submitters = {}
  MaxFiles = 1
  MaxUploads = 2
  RetentionIsSet = FALSE
SYMMETRY Interchangeable
SPECIFICATION Spec
CHECK_DEADLOCK FALSE
INVARIANTS TypeOK KeptFileHasItsObject
PROPERTY DecidedFilesStand
