\* One daemon and two requests for one codebase.
SPECIFICATION FairSpec
CONSTANTS
  d1 = d1  d2 = d2  d3 = d3  host = host  host2 = host2  a = a  b = b  r1 = r1  r2 = r2  w1 = w1
  NoConn = NoConn  NoDaemon = NoDaemon
  Daemons = {d1}
  NodeIDs = {host}
  Codebases = {a, b}
  NodeOf <- OneDaemonNode
  Serves <- OneDaemonServes
  Conns = {c1, c2}
  Requests = {r1, r2}
  WatchBatches = {}
  CodebaseOf <- AllOnB
  ChanCap = 1
PROPERTIES ImplementsLifecycle ReindexAnswered Heals
