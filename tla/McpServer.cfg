SPECIFICATION Spec
CONSTANTS
  MigrationFiles = 2
  MaxStops = 1
  SessionIDs = {s1, s2}
  Streams = {g1, g2, g3}
  NoSession = none
  Calls = {c1, c2}
  NamesOf <- OneFile
  KeyNames = {1, 2}
  KeyCount = 1
  LineCount = 4
  Ranges <- FewRanges
  NoSummary = none
  Uploads = {u1, u2}
  PayloadFields = 3
  Classes = {"A", "B", "C"}
  MaxDepth = 2
  MaxEdges = 3
INVARIANTS ServingHasSchema StreamsRegistered SummaryOfItsSources CollectionIndexed
PROPERTIES HierarchyNearest RequestsAnswered
CONSTRAINT PartsApart
CHECK_DEADLOCK FALSE
