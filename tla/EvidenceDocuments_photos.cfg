CONSTANTS
  ClaimFiles = {}
  DisposalPhotos = {d1, d2}
  Callbacks = {c1}
  Workers = {w1, w2}
  Submitters = {s1, s2}
  MaxFiles = 1
  MaxUploads = 1
  RetentionIsSet = TRUE
SYMMETRY Interchangeable
SPECIFICATION Spec
CHECK_DEADLOCK FALSE
INVARIANT FilesWithinLimit
PROPERTY RetainedEvidenceStays
