SPECIFICATION Spec
CONSTANTS
  p = p  q = q  v1 = v1  v2 = v2  only = only  empty = empty
  x = x  y = y  z = z  other = other  h1 = h1  h2 = h2
  Codebases = {cb1}
  Paths = {p, q}
  Contents = {v1, v2, only}
  Versions <- Uploaded
  SymbolIDs = {y, other}
  PathOf <- Sources
  SymbolsOf <- Parsed
  Handlers = {h1, h2}
  NoCodebase = NoCodebase
  NoContent = NoContent
INVARIANTS IndexMatchesState VectorsBackedBySymbols
SYMMETRY BatchSymmetry
