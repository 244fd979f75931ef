SPECIFICATION Spec
CONSTANTS
  N = 4
  SizeOf <- Sizes
  MayBeUnreadable <- AllFiles
  Incremental = TRUE
  MaxFiles = 2
  MaxBytes = 3
  MaxAttempts = 3
INVARIANTS TypeOK EverythingLinked BatchBounded
CHECK_DEADLOCK FALSE
