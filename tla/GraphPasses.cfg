SPECIFICATION Spec
CONSTANTS
  p = p  q = q  r = r  v1 = v1  v2 = v2
  run1 = run1  run2 = run2  main1 = main1  other1 = other1  other2 = other2
  r1 = r1  r2 = r2
  Files = {p, q, r}
  Contents = {v1, v2}
  SymbolIDs = {run1, run2, main1, other1, other2}
  FileOf <- Home
  Names <- AllNames
  Qualified <- QualifiedNames
  ShortName <- ShortNames
  SymbolsOf <- Parsed
  RefsOf <- Calls
  Passes = {r1, r2}
  NoContent = NoContent
  NoSymbol = NoSymbol
INVARIANTS TypeOK EdgesJoinSymbols RelationshipsStored
SYMMETRY PassSymmetry
