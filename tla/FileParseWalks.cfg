SPECIFICATION Spec
CONSTANTS
  Names = {"A", "B"}
  Generic = {"A<T>"}
  Bare <- BareNames
  Variable = "v"
  MaxNodes = 4
  MaxLines = 2
  OverlapLines = 1
INVARIANTS UsesAttributed BasesJoinTypes ChunkIDsDistinct ChunksCover
CONSTRAINT FirstNamed
CHECK_DEADLOCK FALSE
