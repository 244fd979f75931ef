SPECIFICATION FairSpec
CONSTANTS
  f1 = f1  f2 = f2  v1 = v1  v2 = v2  b1 = b1  b2 = b2
  Files = {f1}
  Excluded = {}
  Contents = {v1, v2}
  Batches = {b1, b2}
  QueueCap = 2
  Missing = Missing
  Nobody = Nobody
  FullPass = FullPass
INVARIANTS TypeOK IndexMirrorsTree
PROPERTY Converges
