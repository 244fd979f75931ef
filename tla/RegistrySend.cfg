\* A reindex call holds its target while the connection's handler deregisters.
SPECIFICATION Spec
CONSTANTS
  d1 = d1  d2 = d2  d3 = d3  host = host  host2 = host2  a = a  b = b  r1 = r1  r2 = r2  w1 = w1
  NoConn = NoConn  NoDaemon = NoDaemon
  Daemons = {d1}
  NodeIDs = {host}
  Codebases = {a, b}
  NodeOf <- OneDaemonNode
  Serves <- OneDaemonServes
  Conns = {c1, c2}
  Requests = {r1}
  WatchBatches = {}
  CodebaseOf <- AllOnB
  ChanCap = 1
INVARIANTS SendIsSafeOutsideLock
