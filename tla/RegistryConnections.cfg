\* Two daemons on one host that share a codebase and one on another host, with a
\* request for and a watch batch on the codebase both hosts serve.
SPECIFICATION Spec
CONSTANTS
  d1 = d1  d2 = d2  d3 = d3  host = host  host2 = host2  a = a  b = b  r1 = r1  r2 = r2  w1 = w1
  NoConn = NoConn  NoDaemon = NoDaemon
  Daemons = {d1, d2, d3}
  NodeIDs = {host, host2}
  Codebases = {a, b}
  NodeOf <- TwoHosts
  Serves <- SharedCodebases
  Conns = {c1, c2}
  Requests = {r1}
  WatchBatches = {w1}
  CodebaseOf <- AllOnB
  ChanCap = 1
INVARIANTS TypeOK RegistrySound ClosedAtMostOnce ListenerIsRegistered CommandsRouted BusyForAReason
PROPERTIES ImplementsLifecycle
SYMMETRY ConnSymmetry
