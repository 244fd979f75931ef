----------------------- MODULE IndexerRegistryProofs -----------------------
(***************************************************************************)
(* Safety of the daemon registry, for any number of daemons, codebases,    *)
(* connections and requests and any channel capacity.                      *)
(***************************************************************************)
EXTENDS IndexerRegistry, TLAPS

-----------------------------------------------------------------------------
(* Type correctness                                                        *)

\* A report, delivered or lost, leaves the entries, the node statuses and the
\* history well typed.
LEMMA ReportTyped ==
  ASSUME TypeOK, NEW j \in Jobs, NEW d, NEW s \in Statuses, ReportStatus(j, d, s)
  PROVE  /\ requests' \in [Jobs -> Statuses]
         /\ nodeStatus' \in [Conns -> {"idle", "indexing"}]
         /\ disturbed' \in SUBSET Jobs
<1>1. CASE UpdateStatus(j, d, s) /\ UNCHANGED disturbed
  <2>1. requests' \in [Jobs -> Statuses] /\ disturbed' \in SUBSET Jobs
    BY <1>1 DEF TypeOK, UpdateStatus
  <2>2. PICK c : nodeStatus' =
          IF c = NoConn THEN nodeStatus
          ELSE [nodeStatus EXCEPT
                  ![c] = IF s = "started" THEN "indexing" ELSE "idle"]
    BY <1>1 DEF UpdateStatus
  <2>3. nodeStatus' \in [Conns -> {"idle", "indexing"}]
    BY <2>2 DEF TypeOK
  <2>4. QED
    BY <2>1, <2>3
<1>2. CASE disturbed' = disturbed \cup {j} /\ UNCHANGED <<requests, nodeStatus>>
  BY <1>2 DEF TypeOK
<1>3. QED
  BY <1>1, <1>2 DEF ReportStatus

\* Every variable keeps its type: no handler, call or job reaches a state, and
\* no channel a content, the program does not have.
THEOREM TypeCorrect == Spec => []TypeOK
<1> USE ConstantsAssumption DEF registryVars, connVars, callVars, jobVars, Jobs
<1>1. Init => TypeOK
  BY DEF Init, TypeOK, HandlerStates, CallStates, JobStates, Statuses
<1>2. TypeOK /\ [Next]_vars => TypeOK'
  <2> SUFFICES ASSUME TypeOK, [Next]_vars PROVE TypeOK'
    OBVIOUS
  <2> USE DEF TypeOK, HandlerStates, CallStates, JobStates, Statuses
  <2>1. ASSUME NEW d \in Daemons, NEW c \in Conns, RegisterNode(d, c)
        PROVE  TypeOK'
    <3>1. KeysOf(d) \subseteq Keys
      BY DEF KeysOf, Keys
    <3>2. displaced' \in SUBSET Conns
      BY <2>1, <3>1 DEF RegisterNode
    <3>3. QED
      BY <2>1, <3>2 DEF RegisterNode, GoTo
  <2>2. ASSUME NEW c \in Conns, HandlerStep(c)
        PROVE  TypeOK'
    <3>1. CASE Acknowledge(c)
      BY <3>1 DEF Acknowledge, GoTo
    <3>2. CASE Disconnected(c)
      BY <3>2 DEF Disconnected, GoTo
    <3>3. CASE ChannelClosed(c)
      BY <3>3 DEF ChannelClosed, GoTo
    <3>4. CASE DeregisterNode(c)
      <4>1. nodes' \in [Keys -> Conns \cup {NoConn}]
        BY <3>4 DEF DeregisterNode
      <4>2. closing' \in [Conns -> Conns \cup {NoConn}]
        <5>1. \/ closing' = closing
              \/ \E k \in Keys : closing' = [closing EXCEPT ![c] = nodes[k]]
          BY <3>4, Zenon DEF DeregisterNode
        <5>2. \A k \in Keys : nodes[k] \in Conns \cup {NoConn}
          OBVIOUS
        <5>3. QED
          BY <5>1, <5>2
      <4>3. handler' \in [Conns -> HandlerStates] /\ up' \in [Conns -> BOOLEAN]
        BY <3>4 DEF DeregisterNode, GoTo
      <4>4. displaced' \in SUBSET Conns
        <5> DEFINE doomed == {k \in Keys : k[1] = NodeOf[owner[c]] /\ nodes[k] # NoConn}
        <5>1. \/ displaced' = displaced
              \/ \E k \in doomed :
                   displaced' = displaced \cup ({nodes[l] : l \in doomed} \ {nodes[k]})
          BY <3>4, Zenon DEF DeregisterNode
        <5>2. {nodes[l] : l \in doomed} \subseteq Conns
          OBVIOUS
        <5>3. QED
          BY <5>1, <5>2
      <4>5. QED
        BY <3>4, <4>1, <4>2, <4>3, <4>4 DEF DeregisterNode
    <3>5. CASE CloseChannel(c)
      BY <3>5 DEF CloseChannel, GoTo
    <3>6. CASE Recycle(c)
      BY <3>6 DEF Recycle, GoTo
    <3>7. QED
      BY <2>2, <3>1, <3>2, <3>3, <3>4, <3>5, <3>6 DEF HandlerStep
  <2>3. ASSUME NEW c \in Conns, ForwardCommand(c)
        PROVE  TypeOK'
    <3>1. sseChan' \in [Conns -> Seq(Requests)]
      BY <2>3 DEF ForwardCommand
    <3>2. Head(sseChan[c]) \in Requests
      BY <2>3 DEF ForwardCommand
    <3>3. job' \in [Jobs -> JobStates] /\ runner' \in [Jobs -> Daemons \cup {NoDaemon}]
      BY <2>3, <3>2 DEF ForwardCommand
    <3>4. QED
      BY <2>3, <3>1, <3>3 DEF ForwardCommand
  <2>4. ASSUME NEW r \in Requests, SendReindex(r)
        PROVE  TypeOK'
    <3>1. target' \in [Requests -> Conns \cup {NoConn}]
      <4>1. \/ target' = target
            \/ \E k \in Keys : target' = [target EXCEPT ![r] = nodes[k]]
        BY <2>4 DEF SendReindex
      <4>2. \A k \in Keys : nodes[k] \in Conns \cup {NoConn}
        OBVIOUS
      <4>3. QED
        BY <4>1, <4>2
    <3>2. /\ requests' \in [Jobs -> Statuses]
          /\ caller' \in [Requests -> CallStates]
      <4>1. \/ /\ requests' = requests
               /\ caller' = [caller EXCEPT ![r] = "refused"]
            \/ /\ requests' = [requests EXCEPT ![r] = "requested"]
               /\ caller' = [caller EXCEPT ![r] = "sending"]
        BY <2>4, Zenon DEF SendReindex
      <4>2. requests' \in [Jobs -> Statuses]
        BY <4>1
      <4>3. caller' \in [Requests -> CallStates]
        BY <4>1
      <4>4. QED
        BY <4>2, <4>3
    <3>3. QED
      BY <2>4, <3>1, <3>2 DEF SendReindex
  <2>5. ASSUME NEW r \in Requests, CallStep(r)
        PROVE  TypeOK'
    <3>1. CASE SendCommand(r)
      <4>1. sseChan' \in [Conns -> Seq(Requests)]
        <5>1. \/ sseChan' = sseChan
              \/ sseChan' = [sseChan EXCEPT ![target[r]] = Append(@, r)]
          BY <3>1, Zenon DEF SendCommand
        <5>2. target[r] \in Conns => Append(sseChan[target[r]], r) \in Seq(Requests)
          OBVIOUS
        <5>3. QED
          BY <5>1, <5>2
      <4>2. /\ caller' \in [Requests -> CallStates]
            /\ target' \in [Requests -> Conns \cup {NoConn}]
            /\ disturbed' \in SUBSET Jobs
        <5>1. /\ target' = [target EXCEPT ![r] = NoConn]
              /\ disturbed' \in {disturbed, disturbed \cup {r}}
              /\ \E s \in {"panicked", "done", "overflowed"} :
                   caller' = [caller EXCEPT ![r] = s]
          BY <3>1, Zenon DEF SendCommand
        <5>2. QED
          BY <5>1
      <4>3. QED
        BY <3>1, <4>1, <4>2 DEF SendCommand
    <3>2. CASE RecordOverflow(r)
      BY <3>2 DEF RecordOverflow
    <3>3. QED
      BY <2>5, <3>1, <3>2 DEF CallStep
  <2>6. ASSUME NEW d \in Daemons, DaemonNotices(d)
        PROVE  TypeOK'
    BY <2>6 DEF DaemonNotices
  <2>7. ASSUME NEW r \in Requests, StartReindex(r)
        PROVE  TypeOK'
    BY <2>7, ReportTyped DEF StartReindex
  <2>8. ASSUME NEW w \in WatchBatches, NEW d \in Daemons, StartWatchBatch(w, d)
        PROVE  TypeOK'
    BY <2>8, ReportTyped DEF StartWatchBatch
  <2>9. ASSUME NEW j \in Jobs, FinishJob(j)
        PROVE  TypeOK'
    BY <2>9, ReportTyped DEF FinishJob
  <2>10. ASSUME NEW c \in Conns, Drop(c)
         PROVE  TypeOK'
    BY <2>10 DEF Drop, InFlight
  <2>11. ASSUME NEW d \in Daemons, CrashDaemon(d)
         PROVE  TypeOK'
    BY <2>11 DEF CrashDaemon, InFlight, JobsOf
  <2>12. CASE UNCHANGED vars
    BY <2>12 DEF vars
  <2>13. QED
    BY <2>1, <2>2, <2>3, <2>4, <2>5, <2>6, <2>7, <2>8, <2>9, <2>10, <2>11, <2>12
    DEF Next, Fault
<1>3. QED
  BY <1>1, <1>2, PTL DEF Spec

-----------------------------------------------------------------------------
(* The registry                                                            *)

\* The invariant speaks only of the map, the channels and the handlers.
LEMMA RegistryFrame ==
  ASSUME RegistryInv, UNCHANGED <<nodes, closed, handler, closing, owner>>
  PROVE  RegistryInv'
BY DEF RegistryInv, RegistrySound, ClosingSound, UnusedIsFresh, Registered

\* An empty registry is sound.
LEMMA RegistryInit == Init => RegistryInv
BY ConstantsAssumption
DEF Init, RegistryInv, RegistrySound, ClosingSound, UnusedIsFresh, Registered

\* A new registration takes over entries; the ones it replaces were sound and the
\* struct it enters is in use nowhere else.
LEMMA RegisterKeepsRegistry ==
  ASSUME TypeOK, RegistryInv, NEW d \in Daemons, NEW c \in Conns, RegisterNode(d, c)
  PROVE  RegistryInv'
<1> USE ConstantsAssumption DEF RegisterNode, GoTo, TypeOK, Keys, KeysOf
<1>1. /\ c # NoConn
      /\ ~closed[c] /\ closed' = closed /\ closing' = closing
      /\ owner' = [owner EXCEPT ![c] = d]
      /\ handler' = [handler EXCEPT ![c] = "registered"]
      /\ nodes' = [k \in Keys |->
                 IF k[1] = NodeOf[d] /\ k[2] \in Serves[d] THEN c ELSE nodes[k]]
  BY DEF RegistryInv, UnusedIsFresh
<1>2. RegistrySound'
  <2> SUFFICES ASSUME NEW k \in Keys, nodes'[k] # NoConn
               PROVE  LET e == nodes'[k]
                      IN /\ handler'[e] \in Registering /\ ~closed'[e]
                         /\ owner'[e] \in Daemons
                         /\ k[1] = NodeOf[owner'[e]] /\ k[2] \in Serves[owner'[e]]
    BY DEF RegistrySound
  <2>1. CASE k[1] = NodeOf[d] /\ k[2] \in Serves[d]
    BY <1>1, <2>1 DEF Registering
  <2>2. CASE ~(k[1] = NodeOf[d] /\ k[2] \in Serves[d])
    <3>1. nodes'[k] = nodes[k]
      BY <1>1, <2>2
    <3>2. nodes[k] # c
      BY <3>1, <1>1 DEF RegistryInv, RegistrySound, Registering
    <3>3. QED
      BY <1>1, <3>1, <3>2 DEF RegistryInv, RegistrySound
  <2>3. QED
    BY <2>1, <2>2
<1>3. ClosingSound'
  <2>1. \A x \in Conns : closing[x] # c
    BY DEF RegistryInv, ClosingSound
  <2>2. \A x \in Conns : closing[x] # NoConn => closing[x] \notin Registered'
    BY <1>1, <2>1 DEF RegistryInv, ClosingSound, Registered
  <2>3. QED
    BY <1>1, <2>1, <2>2 DEF RegistryInv, ClosingSound
<1>4. UnusedIsFresh' /\ \A x \in Conns : handler'[x] # "panicked"
  BY <1>1 DEF RegistryInv, UnusedIsFresh
<1>5. QED
  BY <1>2, <1>3, <1>4 DEF RegistryInv

\* Moving a handler from one registered place to the next.
LEMMA MoveKeepsRegistry ==
  ASSUME TypeOK, RegistryInv, NEW c \in Conns,
         handler[c] \in Registering, NEW s \in Registering, GoTo(c, s),
         UNCHANGED <<nodes, closed, closing, owner>>
  PROVE  RegistryInv'
BY DEF GoTo, TypeOK, RegistryInv, RegistrySound, ClosingSound, UnusedIsFresh,
       Registered, Registering

\* DeregisterNode takes every entry of the node ID out before the close, so that
\* the struct it keeps is in no entry and in no other handler's hands.
LEMMA DeregisterKeepsRegistry ==
  ASSUME TypeOK, RegistryInv, NEW c \in Conns, DeregisterNode(c)
  PROVE  RegistryInv'
<1> DEFINE doomed == {k \in Keys : k[1] = NodeOf[owner[c]] /\ nodes[k] # NoConn}
<1>1. \A k \in Keys : nodes[k] = c => k \in doomed
  BY ConstantsAssumption DEF RegistryInv, RegistrySound
<1>2. CASE doomed = {}
  <2>1. /\ handler' = [handler EXCEPT ![c] = "gone"] /\ handler[c] = "returning"
        /\ UNCHANGED <<nodes, closed, closing, owner>>
    BY <1>2 DEF DeregisterNode, GoTo
  <2>2. \A k \in Keys : nodes[k] # c
    BY <1>1, <1>2
  <2>3. QED
    BY <2>1, <2>2 DEF TypeOK, RegistryInv, RegistrySound, ClosingSound,
                      UnusedIsFresh, Registered
<1>3. CASE doomed # {}
  <2>1. PICK k0 \in doomed : closing' = [closing EXCEPT ![c] = nodes[k0]]
    BY <1>3, Zenon DEF DeregisterNode
  <2>2. /\ handler[c] = "returning"
        /\ handler' = [handler EXCEPT ![c] = "closing"]
        /\ nodes' = [k \in Keys |-> IF k \in doomed THEN NoConn ELSE nodes[k]]
        /\ UNCHANGED <<closed, owner>>
    BY <1>3 DEF DeregisterNode, GoTo
  <2> DEFINE e == nodes[k0]
  <2> HIDE DEF doomed
  <2>3. e \in Conns /\ e # NoConn /\ e \in Registered /\ ~closed[e]
        /\ handler[e] \in Registering /\ k0 \in Keys
    BY <2>1, ConstantsAssumption
    DEF doomed, TypeOK, RegistryInv, RegistrySound, Registered
  <2>4. \A k \in Keys : nodes'[k] # NoConn => nodes'[k] = nodes[k] /\ nodes[k] # c
    BY <1>1, <2>2
  <2>5. RegistrySound'
    BY <2>2, <2>4 DEF TypeOK, RegistryInv, RegistrySound
  <2>6. e \notin Registered'
    <3>1. \A k \in Keys : nodes[k] = e => k \in doomed
      BY <2>3 DEF doomed, RegistryInv, RegistrySound
    <3>2. QED
      BY <3>1, <2>2, <2>3 DEF Registered
  <2>7. Registered' \subseteq Registered
    BY <2>4 DEF Registered
  <2>8. \A x \in Conns : x # c => closing'[x] = closing[x] /\ closing[x] # e
    BY <2>1, <2>3 DEF TypeOK, RegistryInv, ClosingSound
  <2>9. closing'[c] = e /\ handler'[c] = "closing" /\ c # NoConn
        /\ \A x \in Conns : x # c => handler'[x] = handler[x]
    BY <2>1, <2>2, ConstantsAssumption DEF TypeOK
  <2>10. \A x \in Conns : handler'[x] = "none" => handler[x] = "none"
    BY <2>9
  <2>11. ClosingSound'
    <3> SUFFICES ASSUME NEW x \in Conns
                 PROVE  /\ handler'[x] = "closing" <=> closing'[x] # NoConn
                        /\ closing'[x] # NoConn =>
                             /\ closing'[x] \notin Registered'
                             /\ ~closed'[closing'[x]]
                             /\ handler'[closing'[x]] # "none"
                             /\ \A y \in Conns : closing'[y] = closing'[x] => x = y
      BY Zenon DEF ClosingSound
    <3>1. CASE x = c
      BY <3>1, <2>2, <2>3, <2>6, <2>8, <2>9, <2>10 DEF Registering
    <3>2. CASE x # c
      <4>1. closing[x] # NoConn =>
              /\ closing[x] \in Conns /\ closing[x] \notin Registered
              /\ ~closed[closing[x]] /\ handler[closing[x]] # "none"
              /\ \A y \in Conns : closing[y] = closing[x] => x = y
        BY DEF TypeOK, RegistryInv, ClosingSound
      <4>2. handler[x] = "closing" <=> closing[x] # NoConn
        BY DEF RegistryInv, ClosingSound
      <4>3. QED
        BY <3>2, <4>1, <4>2, <2>2, <2>7, <2>8, <2>9, <2>10
    <3>3. QED
      BY <3>1, <3>2
  <2>12. UnusedIsFresh' /\ \A x \in Conns : handler'[x] # "panicked"
    BY <2>2 DEF TypeOK, RegistryInv, UnusedIsFresh
  <2>13. QED
    BY <2>5, <2>11, <2>12 DEF RegistryInv
<1>4. QED
  BY <1>2, <1>3

\* The close hits a channel that is out of the map and closed by this handler only.
LEMMA CloseKeepsRegistry ==
  ASSUME TypeOK, RegistryInv, NEW c \in Conns, CloseChannel(c)
  PROVE  RegistryInv'
<1> DEFINE e == closing[c]
<1>1. /\ handler[c] = "closing" /\ e # NoConn /\ e \in Conns
      /\ e \notin Registered /\ ~closed[e] /\ handler[e] # "none"
      /\ \A y \in Conns : closing[y] = e => y = c
  BY DEF CloseChannel, TypeOK, RegistryInv, ClosingSound
<1>2. /\ handler' = [handler EXCEPT ![c] = "gone"]
      /\ closed' = [closed EXCEPT ![e] = TRUE]
      /\ closing' = [closing EXCEPT ![c] = NoConn]
      /\ UNCHANGED <<nodes, owner>>
  BY <1>1 DEF CloseChannel, GoTo, registryVars
<1>3. \A k \in Keys : nodes[k] # NoConn => nodes[k] # e /\ nodes[k] # c /\ nodes[k] \in Conns
  <2> SUFFICES ASSUME NEW k \in Keys, nodes[k] # NoConn
               PROVE  nodes[k] # e /\ nodes[k] # c /\ nodes[k] \in Conns
    OBVIOUS
  <2>1. nodes[k] \in Registered /\ nodes[k] \in Conns
    BY DEF Registered, TypeOK
  <2>2. handler[nodes[k]] \in Registering
    BY DEF RegistryInv, RegistrySound
  <2>3. QED
    BY <1>1, <2>1, <2>2 DEF Registering
<1>4. RegistrySound'
  BY <1>2, <1>3 DEF TypeOK, RegistryInv, RegistrySound
<1>5. ClosingSound'
  BY <1>1, <1>2 DEF TypeOK, RegistryInv, ClosingSound, Registered
<1>6. UnusedIsFresh' /\ \A x \in Conns : handler'[x] # "panicked"
  BY <1>1, <1>2 DEF TypeOK, RegistryInv, UnusedIsFresh
<1>7. QED
  BY <1>4, <1>5, <1>6 DEF RegistryInv

\* An identity that nothing refers to can be used again.
LEMMA RecycleKeepsRegistry ==
  ASSUME TypeOK, RegistryInv, NEW c \in Conns, Recycle(c)
  PROVE  RegistryInv'
<1>1. /\ handler[c] = "gone" /\ c \notin Registered
      /\ \A x \in Conns : closing[x] # c
      /\ handler' = [handler EXCEPT ![c] = "none"]
      /\ closed' = [closed EXCEPT ![c] = FALSE]
      /\ owner' = [owner EXCEPT ![c] = NoDaemon]
      /\ UNCHANGED <<nodes, closing>>
  BY DEF Recycle, GoTo
<1>2. c # NoConn /\ \A k \in Keys : nodes[k] # c
  BY <1>1, ConstantsAssumption DEF Registered
<1>3. RegistrySound'
  BY <1>1, <1>2 DEF TypeOK, RegistryInv, RegistrySound
<1>4. ClosingSound'
  BY <1>1 DEF TypeOK, RegistryInv, ClosingSound, Registered
<1>5. UnusedIsFresh' /\ \A x \in Conns : handler'[x] # "panicked"
  BY <1>1 DEF TypeOK, RegistryInv, UnusedIsFresh
<1>6. QED
  BY <1>3, <1>4, <1>5 DEF RegistryInv

\* The invariant of the registry is inductive, one case per action.
LEMMA StepKeepsRegistry ==
  ASSUME TypeOK, RegistryInv, [Next]_vars
  PROVE  RegistryInv'
<1>1. ASSUME NEW d \in Daemons, NEW c \in Conns, RegisterNode(d, c)
      PROVE  RegistryInv'
  BY <1>1, RegisterKeepsRegistry
<1>2. ASSUME NEW c \in Conns, HandlerStep(c)
      PROVE  RegistryInv'
  <2>1. CASE Acknowledge(c) \/ Disconnected(c) \/ ChannelClosed(c)
    BY <2>1, MoveKeepsRegistry
    DEF Acknowledge, Disconnected, ChannelClosed, Registering, registryVars, connVars
  <2>2. CASE DeregisterNode(c) \/ CloseChannel(c) \/ Recycle(c)
    BY <2>2, DeregisterKeepsRegistry, CloseKeepsRegistry, RecycleKeepsRegistry
  <2>3. QED
    BY <1>2, <2>1, <2>2 DEF HandlerStep
<1>3. ASSUME NEW c \in Conns, ForwardCommand(c) \/ Drop(c)
      PROVE  RegistryInv'
  BY <1>3, RegistryFrame DEF ForwardCommand, Drop, registryVars, connVars
<1>4. ASSUME NEW r \in Requests, SendReindex(r) \/ CallStep(r) \/ StartReindex(r)
      PROVE  RegistryInv'
  BY <1>4, RegistryFrame
  DEF SendReindex, CallStep, SendCommand, RecordOverflow, StartReindex,
      registryVars, connVars
<1>5. ASSUME NEW d \in Daemons, DaemonNotices(d) \/ CrashDaemon(d)
      PROVE  RegistryInv'
  BY <1>5, RegistryFrame DEF DaemonNotices, CrashDaemon, registryVars
<1>6. ASSUME NEW w \in WatchBatches, NEW d \in Daemons, StartWatchBatch(w, d)
      PROVE  RegistryInv'
  BY <1>6, RegistryFrame DEF StartWatchBatch, connVars
<1>7. ASSUME NEW j \in Jobs, FinishJob(j)
      PROVE  RegistryInv'
  BY <1>7, RegistryFrame DEF FinishJob, connVars
<1>8. CASE UNCHANGED vars
  BY <1>8, RegistryFrame DEF vars
<1>9. QED
  BY <1>1, <1>2, <1>3, <1>4, <1>5, <1>6, <1>7, <1>8 DEF Next, Fault

\* The strengthened invariant of the registry holds in every behaviour.
LEMMA RegistryInvariant == Spec => []RegistryInv
<1>1. TypeOK /\ RegistryInv /\ [Next]_vars => RegistryInv'
  BY StepKeepsRegistry
<1>2. QED
  BY RegistryInit, TypeCorrect, <1>1, PTL DEF Spec

\* A map entry never outlives its connection, for any overlap of connections.
THEOREM RegistrySafe == Spec => []RegistrySound
<1>1. RegistryInv => RegistrySound
  BY DEF RegistryInv
<1>2. QED
  BY RegistryInvariant, <1>1, PTL

\* No channel is closed twice, whoever deregisters whom.
THEOREM NoDoubleClose == Spec => []ClosedAtMostOnce
<1>1. RegistryInv => ClosedAtMostOnce
  BY DEF RegistryInv, ClosingSound, ClosedAtMostOnce
<1>2. QED
  BY RegistryInvariant, <1>1, PTL

-----------------------------------------------------------------------------
(* Who listens                                                             *)

\* The keys of a daemon are the ones with its node ID and a codebase it serves.
LEMMA KeysOfDaemon ==
  ASSUME NEW d \in Daemons
  PROVE  /\ KeysOf(d) \subseteq Keys /\ KeysOf(d) # {}
         /\ \A k \in Keys : k \in KeysOf(d) <=> k[1] = NodeOf[d] /\ k[2] \in Serves[d]
<1>1. NodeOf[d] \in NodeIDs /\ Serves[d] \subseteq Codebases /\ Serves[d] # {}
  BY ConstantsAssumption
<1>2. PICK cb \in Serves[d] : <<NodeOf[d], cb>> \in KeysOf(d)
  BY <1>1 DEF KeysOf
<1>3. QED
  BY <1>1, <1>2 DEF KeysOf, Keys

\* A connection in the map has an entry and an owner, and only entries of its owner.
LEMMA RegisteredSound ==
  ASSUME TypeOK, RegistryInv, NEW c \in Registered
  PROVE  /\ c \in Conns /\ c # NoConn /\ handler[c] \in Registering
         /\ owner[c] \in Daemons
         /\ \A k \in Keys : nodes[k] = c => k \in KeysOf(owner[c])
         /\ \E k \in Keys : nodes[k] = c
<1>1. PICK k \in Keys : nodes[k] = c /\ c # NoConn
  BY DEF Registered
<1>2. c \in Conns /\ handler[c] \in Registering /\ owner[c] \in Daemons
  BY <1>1 DEF TypeOK, RegistryInv, RegistrySound
<1>3. ASSUME NEW l \in Keys, nodes[l] = c
      PROVE  l \in KeysOf(owner[c])
  BY <1>1, <1>2, <1>3, KeysOfDaemon DEF RegistryInv, RegistrySound
<1>4. QED
  BY <1>1, <1>2, <1>3

\* The invariant speaks only of the map, the channels, the handlers, the lines and
\* the history of displacements.
LEMMA ListenerFrame ==
  ASSUME ListenerInv,
         UNCHANGED <<nodes, closed, handler, closing, owner, up, line, displaced>>
  PROVE  ListenerInv'
BY DEF ListenerInv, LineOfOwner, OneRegistrationPerDaemon, DisplacedSound, CutOff,
       Registered

\* A step that ends or moves connections and leaves the map and the channels.
LEMMA ListenerWeakens ==
  ASSUME ListenerInv, UNCHANGED <<nodes, closed, closing, owner, line, displaced>>,
         \A x \in Conns : /\ up'[x] => up[x]
                          /\ handler'[x] \in {"registered", "serving"} =>
                               handler[x] \in {"registered", "serving"},
         \A x \in displaced : handler'[x] # "none"
  PROVE  ListenerInv'
BY DEF ListenerInv, LineOfOwner, OneRegistrationPerDaemon, DisplacedSound, CutOff,
       Registered

\* Nobody listens at first.
LEMMA ListenerInit == Init => ListenerInv
BY DEF Init, ListenerInv, LineOfOwner, OneRegistrationPerDaemon, DisplacedSound,
       Registered

\* A registration replaces entries of the same daemon, which does not read their
\* connection any more, or of a sibling, which is displaced.
LEMMA RegisterKeepsListener ==
  ASSUME TypeOK, RegistryInv, ListenerInv,
         NEW d \in Daemons, NEW c \in Conns, RegisterNode(d, c)
  PROVE  ListenerInv'
<1> DEFINE lost == {e \in {nodes[k] : k \in KeysOf(d)} \ {NoConn} : owner[e] # d}
<1>1. /\ handler[c] = "none" /\ line[d] = NoConn /\ c # NoConn
      /\ nodes' = [k \in Keys |-> IF k \in KeysOf(d) THEN c ELSE nodes[k]]
      /\ displaced' = displaced \cup lost
      /\ handler' = [handler EXCEPT ![c] = "registered"]
      /\ owner' = [owner EXCEPT ![c] = d]
      /\ up' = [up EXCEPT ![c] = TRUE]
      /\ line' = [line EXCEPT ![d] = c]
      /\ UNCHANGED <<closed, closing>>
  BY ConstantsAssumption DEF RegisterNode, GoTo
<1>2. c \notin Registered /\ c \notin displaced
  BY <1>1, RegisteredSound DEF ListenerInv, DisplacedSound, Registering
<1>3. \A x \in Conns : up[x] => owner[x] # d
  BY <1>1, ConstantsAssumption DEF ListenerInv, LineOfOwner
<1>4. LineOfOwner'
  BY <1>1, <1>3 DEF TypeOK, ListenerInv, LineOfOwner
<1>5. c \in Registered'
  BY <1>1, KeysOfDaemon DEF Registered
<1>6. ASSUME NEW x \in Registered', x # c
      PROVE  /\ x \in Registered /\ x \in Conns /\ owner[x] # d
             /\ owner'[x] = owner[x] /\ handler'[x] = handler[x]
  <2>1. PICK k \in Keys : nodes'[k] = x /\ x # NoConn
    BY DEF Registered
  <2>2. nodes[k] = x /\ k \notin KeysOf(d)
    BY <1>1, <1>6, <2>1
  <2>3. x \in Registered
    BY <2>1, <2>2 DEF Registered
  <2>4. x \in Conns /\ k \in KeysOf(owner[x])
    BY <2>2, <2>3, RegisteredSound
  <2>5. QED
    BY <1>1, <1>6, <2>2, <2>3, <2>4 DEF TypeOK
<1>7. OneRegistrationPerDaemon'
  <2> SUFFICES ASSUME NEW x \in Registered', NEW y \in Registered',
                      owner'[x] = owner'[y]
               PROVE  x = y
    BY DEF OneRegistrationPerDaemon
  <2>1. owner'[c] = d
    BY <1>1 DEF TypeOK
  <2>2. QED
    BY <1>6, <2>1 DEF ListenerInv, OneRegistrationPerDaemon
<1>8. lost \subseteq Registered
  BY KeysOfDaemon DEF Registered
<1>9. DisplacedSound'
  <2> SUFFICES ASSUME NEW x \in displaced'
               PROVE  handler'[x] # "none" /\ Siblings(owner'[x]) # {}
    BY DEF DisplacedSound, Siblings
  <2>1. CASE x \in displaced
    BY <1>1, <1>2, <2>1 DEF TypeOK, ListenerInv, DisplacedSound
  <2>2. CASE x \in lost
    <3>1. PICK k \in KeysOf(d) : nodes[k] = x
      BY <2>2
    <3>2. /\ x \in Registered /\ x # c /\ owner[x] # d /\ x \in Conns
          /\ owner[x] \in Daemons /\ k \in KeysOf(owner[x]) /\ handler[x] # "none"
      BY <1>2, <1>8, <2>2, <3>1, KeysOfDaemon, RegisteredSound DEF Registering
    <3>3. NodeOf[owner[x]] = NodeOf[d]
      BY <3>1, <3>2, KeysOfDaemon
    <3>4. d \in Siblings(owner[x])
      BY <3>2, <3>3 DEF Siblings
    <3>5. QED
      BY <1>1, <3>2, <3>4 DEF TypeOK
  <2>3. QED
    BY <1>1, <2>1, <2>2
<1>10. ASSUME NEW x \in Conns, x # c, handler'[x] \in {"registered", "serving"}, up'[x]
       PROVE  x \in Registered' \/ CutOff(x)' \/ x \in displaced'
  <2>1. up[x] /\ handler[x] \in {"registered", "serving"}
    BY <1>1, <1>10 DEF TypeOK
  <2>2. CASE x \in Registered
    <3>1. PICK k \in Keys : nodes[k] = x /\ x # NoConn
      BY <2>2 DEF Registered
    <3>2. CASE k \in KeysOf(d)
      BY <1>1, <1>3, <2>1, <3>1, <3>2
    <3>3. CASE k \notin KeysOf(d)
      BY <1>1, <3>1, <3>3 DEF Registered
    <3>4. QED
      BY <3>2, <3>3
  <2>3. CASE CutOff(x) \/ x \in displaced
    BY <2>3, <1>1 DEF CutOff
  <2>4. QED
    BY <2>1, <2>2, <2>3 DEF ListenerInv
<1>11. QED
  BY <1>4, <1>5, <1>7, <1>9, <1>10 DEF ListenerInv

\* Of the registrations of a node ID that DeregisterNode removes, one is about to
\* be closed; the others belong to other daemons and are displaced.
LEMMA DeregisterKeepsListener ==
  ASSUME TypeOK, RegistryInv, ListenerInv, NEW c \in Conns, DeregisterNode(c)
  PROVE  ListenerInv'
<1> DEFINE doomed == {k \in Keys : k[1] = NodeOf[owner[c]] /\ nodes[k] # NoConn}
<1>1. CASE doomed = {}
  <2>1. /\ handler' = [handler EXCEPT ![c] = "gone"] /\ up' = [up EXCEPT ![c] = FALSE]
        /\ UNCHANGED <<nodes, closed, closing, owner, line, displaced>>
    BY <1>1 DEF DeregisterNode, GoTo
  <2>2. \A x \in Conns : /\ up'[x] => up[x]
                         /\ handler'[x] \in {"registered", "serving"} =>
                              handler[x] \in {"registered", "serving"}
                         /\ handler[x] # "none" => handler'[x] # "none"
    BY <2>1 DEF TypeOK
  <2>3. \A x \in displaced : handler'[x] # "none"
    BY <2>2 DEF ListenerInv, DisplacedSound, TypeOK
  <2>4. QED
    BY <2>1, <2>2, <2>3, ListenerWeakens
<1>2. CASE doomed # {}
  <2>1. PICK k0 \in doomed :
          /\ closing' = [closing EXCEPT ![c] = nodes[k0]]
          /\ displaced' = displaced \cup ({nodes[l] : l \in doomed} \ {nodes[k0]})
    BY <1>2, Zenon DEF DeregisterNode
  <2>2. /\ handler[c] = "returning"
        /\ handler' = [handler EXCEPT ![c] = "closing"]
        /\ nodes' = [k \in Keys |-> IF k \in doomed THEN NoConn ELSE nodes[k]]
        /\ UNCHANGED <<closed, owner, up, line>>
    BY <1>2 DEF DeregisterNode, GoTo
  <2>3. closing[c] = NoConn
    BY <2>2 DEF RegistryInv, ClosingSound
  <2>4. Registered' \subseteq Registered
    BY <2>2 DEF Registered
  <2>5. LineOfOwner' /\ OneRegistrationPerDaemon'
    BY <2>2, <2>4 DEF ListenerInv, LineOfOwner, OneRegistrationPerDaemon
  <2>6. ASSUME NEW l \in doomed
        PROVE  /\ nodes[l] \in Registered /\ nodes[l] \in Conns
               /\ handler[nodes[l]] # "none" /\ owner[nodes[l]] \in Daemons
               /\ NodeOf[owner[nodes[l]]] = NodeOf[owner[c]]
    <3>1. l \in Keys /\ nodes[l] # NoConn /\ l[1] = NodeOf[owner[c]]
      OBVIOUS
    <3>2. nodes[l] \in Registered
      BY <3>1 DEF Registered
    <3>3. NodeOf[owner[nodes[l]]] = l[1]
      BY <3>1 DEF RegistryInv, RegistrySound
    <3>4. QED
      BY <3>1, <3>2, <3>3, RegisteredSound DEF Registering
  <2> HIDE DEF doomed
  <2>7. DisplacedSound'
    <3> SUFFICES ASSUME NEW x \in displaced'
                 PROVE  handler'[x] # "none" /\ Siblings(owner[x]) # {}
      BY <2>2 DEF DisplacedSound, Siblings
    <3>1. handler[x] # "none" /\ x \in Conns => handler'[x] # "none"
      BY <2>2 DEF TypeOK
    <3>2. CASE x \in displaced
      BY <3>1, <3>2 DEF ListenerInv, DisplacedSound, TypeOK
    <3>3. CASE x \in {nodes[l] : l \in doomed} \ {nodes[k0]}
      <4>1. PICK l \in doomed : nodes[l] = x /\ x # nodes[k0]
        BY <3>3
      <4>2. owner[x] # owner[nodes[k0]]
        BY <2>1, <2>6, <4>1 DEF ListenerInv, OneRegistrationPerDaemon
      <4>3. owner[nodes[k0]] \in Siblings(owner[x])
        BY <2>1, <2>6, <4>1, <4>2 DEF Siblings
      <4>4. QED
        BY <2>6, <3>1, <4>1, <4>3
    <3>4. QED
      BY <2>1, <3>2, <3>3
  <2>8. ASSUME NEW x \in Conns, handler'[x] \in {"registered", "serving"}, up'[x]
        PROVE  x \in Registered' \/ CutOff(x)' \/ x \in displaced'
    <3>1. up[x] /\ handler[x] \in {"registered", "serving"} /\ x # c
      BY <2>2, <2>8 DEF TypeOK
    <3>2. CASE x \in Registered
      <4>1. PICK k \in Keys : nodes[k] = x /\ x # NoConn
        BY <3>2 DEF Registered
      <4>2. CASE k \in doomed
        BY <4>1, <4>2, <2>1 DEF TypeOK, CutOff
      <4>3. CASE k \notin doomed
        BY <4>1, <4>3, <2>2 DEF Registered
      <4>4. QED
        BY <4>2, <4>3
    <3>3. CASE closed[x]
      BY <3>3, <2>2 DEF CutOff
    <3>4. CASE \E y \in Conns : closing[y] = x
      <4>1. x # NoConn
        BY ConstantsAssumption
      <4>2. QED
        BY <3>4, <4>1, <2>1, <2>3 DEF TypeOK, CutOff
    <3>5. CASE x \in displaced
      BY <3>5, <2>1
    <3>6. QED
      BY <3>1, <3>2, <3>3, <3>4, <3>5 DEF ListenerInv, CutOff
  <2>9. QED
    BY <2>5, <2>7, <2>8 DEF ListenerInv
<1>3. QED
  BY <1>1, <1>2

\* A closed channel keeps its listener accounted for.
LEMMA CloseKeepsListener ==
  ASSUME TypeOK, RegistryInv, ListenerInv, NEW c \in Conns, CloseChannel(c)
  PROVE  ListenerInv'
<1>1. /\ handler[c] = "closing" /\ closing[c] \in Conns
      /\ \A y \in Conns : y # c => closing[y] # closing[c]
  BY DEF CloseChannel, TypeOK, RegistryInv, ClosingSound
<1>2. /\ handler'[c] \in {"gone", "panicked"}
      /\ \A x \in Conns : x # c => handler'[x] = handler[x]
      /\ closed' = [closed EXCEPT ![closing[c]] = TRUE]
      /\ closing' = [closing EXCEPT ![c] = NoConn]
      /\ up' = [up EXCEPT ![c] = FALSE]
      /\ UNCHANGED <<nodes, owner, line, displaced>>
  BY <1>1 DEF CloseChannel, GoTo, TypeOK, registryVars
<1>3. LineOfOwner' /\ OneRegistrationPerDaemon'
  <2>1. LineOfOwner'
    BY <1>2 DEF TypeOK, ListenerInv, LineOfOwner
  <2>2. OneRegistrationPerDaemon'
    BY <1>2 DEF ListenerInv, OneRegistrationPerDaemon, Registered
  <2>3. QED
    BY <2>1, <2>2
<1>4. DisplacedSound'
  BY <1>2 DEF TypeOK, ListenerInv, DisplacedSound
<1>5. ASSUME NEW x \in Conns, handler'[x] \in {"registered", "serving"}, up'[x]
      PROVE  x \in Registered' \/ CutOff(x)' \/ x \in displaced'
  <2>1. up[x] /\ handler[x] \in {"registered", "serving"}
    BY <1>2, <1>5 DEF TypeOK
  <2>2. CASE x \in Registered \/ x \in displaced
    BY <2>2, <1>2 DEF Registered
  <2>3. CASE closed[x] \/ closing[c] = x
    BY <2>3, <1>1, <1>2 DEF TypeOK, CutOff
  <2>4. CASE \E y \in Conns : y # c /\ closing[y] = x
    BY <2>4, <1>2 DEF TypeOK, CutOff
  <2>5. QED
    BY <2>1, <2>2, <2>3, <2>4 DEF ListenerInv, CutOff
<1>6. QED
  BY <1>3, <1>4, <1>5 DEF ListenerInv

\* A connection whose identity is used again carries nothing and has no reader.
LEMMA RecycleKeepsListener ==
  ASSUME TypeOK, RegistryInv, ListenerInv, NEW c \in Conns, Recycle(c)
  PROVE  ListenerInv'
<1>1. /\ \A d \in Daemons : line[d] # c
      /\ c \notin Registered
      /\ handler' = [handler EXCEPT ![c] = "none"]
      /\ closed' = [closed EXCEPT ![c] = FALSE]
      /\ owner' = [owner EXCEPT ![c] = NoDaemon]
      /\ displaced' = displaced \ {c}
      /\ UNCHANGED <<nodes, closing, up, line>>
  BY DEF Recycle, GoTo
<1>2. ~up[c]
  BY <1>1 DEF ListenerInv, LineOfOwner
<1>3. LineOfOwner'
  BY <1>1, <1>2 DEF TypeOK, ListenerInv, LineOfOwner
<1>4. Registered' = Registered /\ \A x \in Registered : owner'[x] = owner[x]
  BY <1>1, RegisteredSound DEF TypeOK, Registered
<1>5. OneRegistrationPerDaemon'
  BY <1>4 DEF ListenerInv, OneRegistrationPerDaemon
<1>6. DisplacedSound'
  BY <1>1 DEF TypeOK, ListenerInv, DisplacedSound
<1>7. ASSUME NEW x \in Conns, handler'[x] \in {"registered", "serving"}, up'[x]
      PROVE  x \in Registered' \/ CutOff(x)' \/ x \in displaced'
  BY <1>1, <1>2, <1>4, <1>7 DEF TypeOK, ListenerInv, CutOff
<1>8. QED
  BY <1>3, <1>5, <1>6, <1>7 DEF ListenerInv

\* The daemon closes or loses its own end.
LEMMA HangUpKeepsListener ==
  ASSUME TypeOK, ListenerInv, NEW d \in Daemons, DaemonNotices(d) \/ CrashDaemon(d)
  PROVE  ListenerInv'
<1>1. /\ \A x \in Conns : up'[x] => up[x] /\ line[d] # x
      /\ line' = [line EXCEPT ![d] = NoConn]
      /\ UNCHANGED <<nodes, closed, handler, closing, owner, displaced>>
  BY DEF DaemonNotices, CrashDaemon, TypeOK, registryVars
<1>2. LineOfOwner' /\ OneRegistrationPerDaemon' /\ DisplacedSound'
  BY <1>1 DEF TypeOK, ListenerInv, LineOfOwner, OneRegistrationPerDaemon,
              DisplacedSound, Registered
<1>3. QED
  BY <1>1, <1>2 DEF ListenerInv, Registered, CutOff

\* The invariant of the listeners is inductive, one case per action.
LEMMA StepKeepsListener ==
  ASSUME TypeOK, RegistryInv, ListenerInv, [Next]_vars
  PROVE  ListenerInv'
<1>1. ASSUME NEW d \in Daemons, NEW c \in Conns, RegisterNode(d, c)
      PROVE  ListenerInv'
  BY <1>1, RegisterKeepsListener
<1>2. ASSUME NEW c \in Conns, HandlerStep(c)
      PROVE  ListenerInv'
  <2>1. CASE Acknowledge(c) \/ Disconnected(c) \/ ChannelClosed(c)
    <3>1. /\ UNCHANGED <<nodes, closed, closing, owner, line, up, displaced>>
          /\ \A x \in Conns : /\ handler'[x] \in {"registered", "serving"} =>
                                   handler[x] \in {"registered", "serving"}
                              /\ handler[x] # "none" => handler'[x] # "none"
      BY <2>1 DEF Acknowledge, Disconnected, ChannelClosed, GoTo, TypeOK,
                  registryVars, connVars
    <3>2. \A x \in displaced : handler'[x] # "none"
      BY <3>1 DEF ListenerInv, DisplacedSound, TypeOK
    <3>3. QED
      BY <3>1, <3>2, ListenerWeakens
  <2>2. CASE DeregisterNode(c) \/ CloseChannel(c) \/ Recycle(c)
    BY <2>2, DeregisterKeepsListener, CloseKeepsListener, RecycleKeepsListener
  <2>3. QED
    BY <1>2, <2>1, <2>2 DEF HandlerStep
<1>3. ASSUME NEW c \in Conns, ForwardCommand(c) \/ Drop(c)
      PROVE  ListenerInv'
  <2>1. /\ UNCHANGED <<nodes, closed, closing, owner, line, displaced, handler>>
        /\ \A x \in Conns : up'[x] => up[x]
    BY <1>3 DEF ForwardCommand, Drop, TypeOK, registryVars, connVars
  <2>2. QED
    BY <2>1, ListenerWeakens DEF ListenerInv, DisplacedSound
<1>4. ASSUME NEW r \in Requests, SendReindex(r) \/ CallStep(r) \/ StartReindex(r)
      PROVE  ListenerInv'
  BY <1>4, ListenerFrame
  DEF SendReindex, CallStep, SendCommand, RecordOverflow, StartReindex,
      registryVars, connVars
<1>5. ASSUME NEW d \in Daemons, DaemonNotices(d) \/ CrashDaemon(d)
      PROVE  ListenerInv'
  BY <1>5, HangUpKeepsListener
<1>6. ASSUME NEW w \in WatchBatches, NEW d \in Daemons, StartWatchBatch(w, d)
      PROVE  ListenerInv'
  BY <1>6, ListenerFrame DEF StartWatchBatch, connVars
<1>7. ASSUME NEW j \in Jobs, FinishJob(j)
      PROVE  ListenerInv'
  BY <1>7, ListenerFrame DEF FinishJob, connVars
<1>8. CASE UNCHANGED vars
  BY <1>8, ListenerFrame DEF vars
<1>9. QED
  BY <1>1, <1>2, <1>3, <1>4, <1>5, <1>6, <1>7, <1>8 DEF Next, Fault

\* The invariant of the listeners holds in every behaviour.
LEMMA ListenerInvariant == Spec => []ListenerInv
<1>1. TypeOK /\ RegistryInv /\ ListenerInv /\ [Next]_vars => ListenerInv'
  BY StepKeepsListener
<1>2. QED
  BY ListenerInit, TypeCorrect, RegistryInvariant, <1>1, PTL DEF Spec

\* A daemon that listens on an intact connection is registered, or is being cut off
\* so that it dials again; the one exception is a connection whose entries another
\* daemon with the same node ID took or removed.
THEOREM ListenersStayRegistered == Spec => []ListenerIsRegistered
<1>1. ListenerInv /\ TypeOK => ListenerIsRegistered
  BY DEF ListenerInv, DisplacedSound, ListenerIsRegistered, Displaced, TypeOK
<1>2. QED
  BY ListenerInvariant, TypeCorrect, <1>1, PTL

-----------------------------------------------------------------------------
(* Commands                                                                *)

\* A call of the reindex tool that has not sent its command yet: nobody has run
\* the request, and its target is a connection in use that serves the codebase.
CallSound(r) ==
  /\ target[r] # NoConn <=> caller[r] = "sending"
  /\ caller[r] = "idle" => job[r] = "none" /\ requests[r] = "absent"
  /\ caller[r] \in {"sending", "overflowed"} =>
       job[r] = "none" /\ requests[r] = "requested"
  /\ caller[r] = "sending" =>
       /\ handler[target[r]] # "none"
       /\ CodebaseOf[r] \in Serves[owner[target[r]]]

\* A channel holds commands of calls that have ended and that nobody has run; one
\* that is not in use is empty.
ChannelSound(c) ==
  /\ handler[c] = "none" => sseChan[c] = <<>>
  /\ \A i \in DOMAIN sseChan[c] :
       LET r == sseChan[c][i]
       IN /\ caller[r] = "done" /\ CodebaseOf[r] \in Serves[owner[c]]
          /\ job[r] = "none" /\ requests[r] = "requested"

OnePlaceOnly ==
  \A c, e \in Conns : \A i \in DOMAIN sseChan[c], k \in DOMAIN sseChan[e] :
    sseChan[c][i] = sseChan[e][k] => c = e /\ i = k

CommandInv == /\ \A r \in Requests : CallSound(r)
              /\ \A c \in Conns : ChannelSound(c)
              /\ OnePlaceOnly

\* Nothing is called, sent or buffered at first.
LEMMA CommandInit == Init => CommandInv
BY ConstantsAssumption
DEF Init, CommandInv, CallSound, ChannelSound, OnePlaceOnly, Jobs

\* The positions of a channel's commands and what they hold.
LEMMA ChannelTyped ==
  ASSUME TypeOK, NEW c \in Conns
  PROVE  /\ sseChan[c] \in Seq(Requests)
         /\ DOMAIN sseChan[c] = 1..Len(sseChan[c]) /\ Len(sseChan[c]) \in Nat
         /\ \A i \in DOMAIN sseChan[c] : sseChan[c][i] \in Requests
BY DEF TypeOK

\* A handler that moves on, without taking up or giving up its connection, does
\* nothing to the commands.
LEMMA CommandFrame ==
  ASSUME CommandInv, UNCHANGED <<requests, sseChan, owner, caller, target, job>>,
         \A x \in Conns : handler'[x] = "none" <=> handler[x] = "none",
         TypeOK
  PROVE  CommandInv'
<1>1. ASSUME NEW r \in Requests PROVE CallSound(r)'
  <2>1. CallSound(r) /\ target[r] \in Conns \cup {NoConn}
    BY DEF CommandInv, TypeOK
  <2>2. QED
    BY <2>1 DEF CallSound
<1>2. ASSUME NEW c \in Conns PROVE ChannelSound(c)'
  BY DEF CommandInv, ChannelSound
<1>3. QED
  BY <1>1, <1>2 DEF CommandInv, OnePlaceOnly

\* A step of jobs that have left "none" does nothing to the commands either.
LEMMA CommandJobFrame ==
  ASSUME TypeOK, CommandInv, UNCHANGED <<sseChan, handler, owner, caller, target>>,
         \A r \in Requests : job[r] = "none" =>
                               job'[r] = "none" /\ requests'[r] = requests[r]
  PROVE  CommandInv'
<1>1. ASSUME NEW r \in Requests PROVE CallSound(r)'
  BY DEF CommandInv, CallSound
<1>2. ASSUME NEW c \in Conns PROVE ChannelSound(c)'
  BY ChannelTyped DEF CommandInv, ChannelSound
<1>3. QED
  BY <1>1, <1>2 DEF CommandInv, OnePlaceOnly

\* A report sets the entry of its own job and of no other.
LEMMA ReportsOwnEntry ==
  ASSUME TypeOK, NEW j \in Jobs, NEW d, NEW s, ReportStatus(j, d, s)
  PROVE  requests' = requests \/ requests' = [requests EXCEPT ![j] = s]
BY Zenon DEF ReportStatus, UpdateStatus

\* An identity in no use has an empty channel and is nobody's target.
LEMMA RegisterKeepsCommands ==
  ASSUME TypeOK, CommandInv, NEW d \in Daemons, NEW c \in Conns, RegisterNode(d, c)
  PROVE  CommandInv'
<1>1. /\ handler[c] = "none" /\ sseChan[c] = <<>>
      /\ handler' = [handler EXCEPT ![c] = "registered"]
      /\ owner' = [owner EXCEPT ![c] = d]
      /\ UNCHANGED <<requests, sseChan, caller, target, job>>
  BY DEF RegisterNode, GoTo, CommandInv, ChannelSound, callVars, jobVars
<1>2. ASSUME NEW r \in Requests PROVE CallSound(r)'
  <2>1. CallSound(r) /\ target[r] \in Conns \cup {NoConn}
    BY DEF CommandInv, TypeOK
  <2>2. QED
    BY <1>1, <2>1, ConstantsAssumption DEF CallSound, TypeOK
<1>3. ASSUME NEW e \in Conns PROVE ChannelSound(e)'
  BY <1>1 DEF CommandInv, ChannelSound, TypeOK
<1>4. QED
  BY <1>1, <1>2, <1>3 DEF CommandInv, OnePlaceOnly

\* What was left in the channel of a connection goes with it.
LEMMA RecycleKeepsCommands ==
  ASSUME TypeOK, CommandInv, NEW c \in Conns, Recycle(c)
  PROVE  CommandInv'
<1>1. /\ \A r \in Requests : target[r] # c
      /\ handler' = [handler EXCEPT ![c] = "none"]
      /\ sseChan' = [sseChan EXCEPT ![c] = <<>>]
      /\ owner' = [owner EXCEPT ![c] = NoDaemon]
      /\ UNCHANGED <<requests, caller, target, job>>
  BY DEF Recycle, GoTo, callVars, jobVars
<1>2. ASSUME NEW r \in Requests PROVE CallSound(r)'
  <2>1. CallSound(r) /\ target[r] \in Conns \cup {NoConn} /\ target[r] # c
    BY <1>1 DEF CommandInv, TypeOK
  <2>2. QED
    BY <1>1, <2>1 DEF CallSound, TypeOK
<1>3. ASSUME NEW e \in Conns PROVE ChannelSound(e)'
  BY <1>1 DEF CommandInv, ChannelSound, TypeOK
<1>4. OnePlaceOnly'
  BY <1>1 DEF CommandInv, OnePlaceOnly, TypeOK
<1>5. QED
  BY <1>2, <1>3, <1>4 DEF CommandInv

\* The registration that is picked serves the codebase and is in use; a call
\* that finds none leaves no entry.
LEMMA SendReindexKeepsCommands ==
  ASSUME TypeOK, RegistryInv, CommandInv, NEW r \in Requests, SendReindex(r)
  PROVE  CommandInv'
<1>1. caller[r] = "idle" /\ job[r] = "none" /\ target[r] = NoConn
  BY DEF SendReindex, CommandInv, CallSound
<1>2. UNCHANGED <<sseChan, handler, owner, job>>
  BY DEF SendReindex, connVars, jobVars
<1>3. \/ caller' = [caller EXCEPT ![r] = "refused"] /\ UNCHANGED <<target, requests>>
      \/ \E k \in Keys :
           /\ k[2] = CodebaseOf[r] /\ nodes[k] # NoConn
           /\ target' = [target EXCEPT ![r] = nodes[k]]
           /\ requests' = [requests EXCEPT ![r] = "requested"]
           /\ caller' = [caller EXCEPT ![r] = "sending"]
  <2> DEFINE serving == {nodes[k] : k \in {x \in Keys : x[2] = CodebaseOf[r]}} \ {NoConn}
  <2>1. \/ caller' = [caller EXCEPT ![r] = "refused"] /\ UNCHANGED <<target, requests>>
        \/ /\ \E c \in serving : target' = [target EXCEPT ![r] = c]
           /\ requests' = [requests EXCEPT ![r] = "requested"]
           /\ caller' = [caller EXCEPT ![r] = "sending"]
    BY Zenon DEF SendReindex
  <2>2. QED
    BY <2>1
<1>4. \A x \in Requests : x # r => UNCHANGED <<caller[x], target[x], requests[x]>>
  BY <1>3 DEF TypeOK, Jobs
<1>5. CallSound(r)'
  <2>1. CASE caller' = [caller EXCEPT ![r] = "refused"] /\ UNCHANGED <<target, requests>>
    BY <1>1, <1>2, <2>1 DEF TypeOK, CallSound
  <2>2. CASE \E k \in Keys :
           /\ k[2] = CodebaseOf[r] /\ nodes[k] # NoConn
           /\ target' = [target EXCEPT ![r] = nodes[k]]
           /\ requests' = [requests EXCEPT ![r] = "requested"]
           /\ caller' = [caller EXCEPT ![r] = "sending"]
    <3>1. PICK k \in Keys :
           /\ k[2] = CodebaseOf[r] /\ nodes[k] # NoConn
           /\ target' = [target EXCEPT ![r] = nodes[k]]
           /\ requests' = [requests EXCEPT ![r] = "requested"]
           /\ caller' = [caller EXCEPT ![r] = "sending"]
      BY <2>2
    <3>2. handler[nodes[k]] # "none" /\ CodebaseOf[r] \in Serves[owner[nodes[k]]]
      BY <3>1 DEF RegistryInv, RegistrySound, Registering
    <3>3. target'[r] = nodes[k] /\ requests'[r] = "requested" /\ caller'[r] = "sending"
      BY <3>1 DEF TypeOK, Jobs
    <3>4. QED
      BY <1>1, <1>2, <3>1, <3>2, <3>3 DEF CallSound
  <2>3. QED
    BY <1>3, <2>1, <2>2
<1>6. ASSUME NEW x \in Requests PROVE CallSound(x)'
  BY <1>2, <1>4, <1>5 DEF CommandInv, CallSound
<1>7. ASSUME NEW c \in Conns PROVE ChannelSound(c)'
  <2>1. \A i \in DOMAIN sseChan[c] : sseChan[c][i] \in Requests /\ sseChan[c][i] # r
    BY <1>1, ChannelTyped DEF CommandInv, ChannelSound
  <2>2. QED
    BY <1>2, <1>4, <2>1 DEF CommandInv, ChannelSound
<1>8. QED
  BY <1>2, <1>6, <1>7 DEF CommandInv, OnePlaceOnly

\* A command that is being sent is in no channel yet, and goes to the end of one.
LEMMA SendCommandKeepsCommands ==
  ASSUME TypeOK, CommandInv, NEW r \in Requests, SendCommand(r)
  PROVE  CommandInv'
<1> DEFINE c == target[r]
<1>1. /\ caller[r] = "sending" /\ c \in Conns /\ handler[c] # "none"
      /\ job[r] = "none" /\ requests[r] = "requested"
      /\ CodebaseOf[r] \in Serves[owner[c]]
  BY DEF SendCommand, CommandInv, CallSound, TypeOK
<1>2. /\ UNCHANGED <<requests, handler, owner, job>>
      /\ target' = [target EXCEPT ![r] = NoConn]
  BY DEF SendCommand, registryVars, connVars, jobVars
<1>3. \/ /\ sseChan' = sseChan
         /\ \E s \in {"panicked", "overflowed"} : caller' = [caller EXCEPT ![r] = s]
      \/ /\ sseChan' = [sseChan EXCEPT ![c] = Append(@, r)]
         /\ caller' = [caller EXCEPT ![r] = "done"]
  BY Zenon DEF SendCommand
<1>4. \A x \in Requests : x # r => UNCHANGED <<caller[x], target[x]>>
  BY <1>2, <1>3 DEF TypeOK
<1>5. ASSUME NEW x \in Requests PROVE CallSound(x)'
  <2>1. CASE x # r
    BY <1>2, <1>4, <2>1 DEF CommandInv, CallSound
  <2>2. CASE x = r
    <3>1. target'[r] = NoConn /\ caller'[r] \in {"panicked", "overflowed", "done"}
      BY <1>2, <1>3 DEF TypeOK
    <3>2. QED
      BY <1>1, <1>2, <2>2, <3>1 DEF CallSound
  <2>3. QED
    BY <2>1, <2>2
<1>6. \A e \in Conns : \A i \in DOMAIN sseChan[e] :
        sseChan[e][i] \in Requests /\ sseChan[e][i] # r
  BY <1>1, ChannelTyped DEF CommandInv, ChannelSound
<1>7. CASE sseChan' = sseChan
  <2>1. ASSUME NEW e \in Conns PROVE ChannelSound(e)'
    BY <1>2, <1>4, <1>6, <1>7 DEF CommandInv, ChannelSound
  <2>2. QED
    BY <1>5, <1>7, <2>1 DEF CommandInv, OnePlaceOnly
<1>8. CASE /\ sseChan' = [sseChan EXCEPT ![c] = Append(@, r)]
           /\ caller' = [caller EXCEPT ![r] = "done"]
  <2> DEFINE n == Len(sseChan[c]) + 1
  <2>1. /\ sseChan'[c] = Append(sseChan[c], r)
        /\ \A e \in Conns : e # c => sseChan'[e] = sseChan[e]
        /\ caller'[r] = "done"
    BY <1>1, <1>8 DEF TypeOK
  <2>2. /\ DOMAIN sseChan'[c] = DOMAIN sseChan[c] \cup {n} /\ n \notin DOMAIN sseChan[c]
        /\ sseChan'[c][n] = r
        /\ \A i \in DOMAIN sseChan[c] : sseChan'[c][i] = sseChan[c][i]
    BY <1>1, <2>1, ChannelTyped
  <2> HIDE DEF n
  <2>3. ASSUME NEW e \in Conns PROVE ChannelSound(e)'
    <3>1. CASE e # c
      BY <1>2, <1>4, <1>6, <2>1, <3>1 DEF CommandInv, ChannelSound
    <3>2. CASE e = c
      <4>1. ASSUME NEW i \in DOMAIN sseChan'[c]
            PROVE  LET x == sseChan'[c][i]
                   IN /\ caller'[x] = "done" /\ CodebaseOf[x] \in Serves[owner'[c]]
                      /\ job'[x] = "none" /\ requests'[x] = "requested"
        <5>1. CASE i = n
          BY <1>1, <1>2, <2>1, <2>2, <5>1
        <5>2. CASE i # n
          BY <1>1, <1>2, <1>4, <1>6, <2>2, <5>2 DEF CommandInv, ChannelSound
        <5>3. QED
          BY <5>1, <5>2
      <4>2. handler'[c] # "none"
        BY <1>1, <1>2
      <4>3. QED
        BY <3>2, <4>1, <4>2 DEF ChannelSound
    <3>3. QED
      BY <3>1, <3>2
  <2>4. OnePlaceOnly'
    <3> SUFFICES ASSUME NEW e \in Conns, NEW f \in Conns,
                        NEW i \in DOMAIN sseChan'[e], NEW k \in DOMAIN sseChan'[f],
                        sseChan'[e][i] = sseChan'[f][k]
                 PROVE  e = f /\ i = k
      BY DEF OnePlaceOnly
    <3>1. ASSUME NEW g \in Conns, NEW m \in DOMAIN sseChan'[g]
          PROVE  IF g = c /\ m = n THEN sseChan'[g][m] = r
                 ELSE /\ m \in DOMAIN sseChan[g] /\ sseChan'[g][m] = sseChan[g][m]
                      /\ sseChan'[g][m] # r
      BY <1>6, <2>1, <2>2, <3>1
    <3>2. QED
      BY <3>1 DEF CommandInv, OnePlaceOnly
  <2>5. QED
    BY <1>5, <2>3, <2>4 DEF CommandInv
<1>9. QED
  BY <1>3, <1>7, <1>8


\* The call that records an overflow is over, and its request is in no channel.
LEMMA OverflowKeepsCommands ==
  ASSUME TypeOK, CommandInv, NEW r \in Requests, RecordOverflow(r)
  PROVE  CommandInv'
<1>1. /\ caller[r] = "overflowed" /\ target[r] = NoConn
      /\ requests' = [requests EXCEPT ![r] = "error"]
      /\ caller' = [caller EXCEPT ![r] = "done"]
      /\ UNCHANGED <<sseChan, handler, owner, target, job>>
  BY DEF RecordOverflow, CommandInv, CallSound, connVars, jobVars
<1>2. \A x \in Requests : x # r => UNCHANGED <<caller[x], requests[x]>>
  BY <1>1 DEF TypeOK, Jobs
<1>3. ASSUME NEW x \in Requests PROVE CallSound(x)'
  <2>1. CASE x = r
    BY <1>1, <2>1 DEF CallSound, TypeOK
  <2>2. CASE x # r
    BY <1>1, <1>2, <2>2 DEF CommandInv, CallSound
  <2>3. QED
    BY <2>1, <2>2
<1>4. ASSUME NEW c \in Conns PROVE ChannelSound(c)'
  <2>1. \A i \in DOMAIN sseChan[c] : sseChan[c][i] \in Requests /\ sseChan[c][i] # r
    BY <1>1, ChannelTyped DEF CommandInv, ChannelSound
  <2>2. QED
    BY <1>1, <1>2, <2>1 DEF CommandInv, ChannelSound
<1>5. QED
  BY <1>1, <1>3, <1>4 DEF CommandInv, OnePlaceOnly

\* The command that is taken out was in one place, so that none is left for it.
LEMMA ForwardKeepsCommands ==
  ASSUME TypeOK, CommandInv, NEW c \in Conns, ForwardCommand(c)
  PROVE  CommandInv'
<1> DEFINE r == Head(sseChan[c])
<1>1. /\ handler[c] = "serving" /\ sseChan[c] # <<>>
      /\ sseChan' = [sseChan EXCEPT ![c] = Tail(@)]
      /\ UNCHANGED <<requests, handler, owner, caller, target>>
  BY DEF ForwardCommand, registryVars, connVars, callVars
<1>2. /\ DOMAIN sseChan[c] = 1..Len(sseChan[c]) /\ Len(sseChan[c]) \in Nat \ {0}
      /\ r = sseChan[c][1] /\ r \in Requests
  BY <1>1 DEF TypeOK
<1>3. /\ DOMAIN sseChan'[c] = 1..(Len(sseChan[c]) - 1)
      /\ \A i \in DOMAIN sseChan'[c] :
           i + 1 \in DOMAIN sseChan[c] /\ sseChan'[c][i] = sseChan[c][i + 1]
      /\ \A e \in Conns : e # c => sseChan'[e] = sseChan[e]
  BY <1>1, <1>2 DEF TypeOK
<1> HIDE DEF r
<1>4. job' = job \/ job' = [job EXCEPT ![r] = "queued"]
  BY Zenon DEF ForwardCommand, jobVars, r
<1>5. \A x \in Requests : x # r => job'[x] = job[x]
  BY <1>4 DEF TypeOK, Jobs
<1>6. caller[r] = "done"
  BY <1>2 DEF CommandInv, ChannelSound
<1>7. ASSUME NEW x \in Requests PROVE CallSound(x)'
  <2>1. CASE x # r
    BY <1>1, <1>5, <2>1 DEF CommandInv, CallSound
  <2>2. CASE x = r
    BY <1>1, <1>6, <2>2 DEF CommandInv, CallSound
  <2>3. QED
    BY <2>1, <2>2
<1>8. ASSUME NEW e \in Conns, NEW i \in DOMAIN sseChan'[e]
      PROVE  /\ sseChan'[e][i] # r
             /\ \E k \in DOMAIN sseChan[e] : /\ sseChan'[e][i] = sseChan[e][k]
                                             /\ k = IF e = c THEN i + 1 ELSE i
  <2>1. CASE e = c
    <3>1. i \in Nat \ {0} /\ i + 1 \in DOMAIN sseChan[c] /\ 1 \in DOMAIN sseChan[c]
      BY <1>2, <1>3, <1>8, <2>1
    <3>2. sseChan[c][i + 1] # sseChan[c][1]
      <4>1. i + 1 # 1
        BY <3>1
      <4>2. QED
        BY <3>1, <4>1 DEF CommandInv, OnePlaceOnly
    <3>3. QED
      BY <1>2, <1>3, <1>8, <2>1, <3>1, <3>2
  <2>2. CASE e # c
    <3>1. i \in DOMAIN sseChan[e] /\ sseChan'[e] = sseChan[e] /\ 1 \in DOMAIN sseChan[c]
      BY <1>2, <1>3, <1>8, <2>2
    <3>2. sseChan[e][i] # sseChan[c][1]
      BY <2>2, <3>1 DEF CommandInv, OnePlaceOnly
    <3>3. QED
      BY <1>2, <2>2, <3>1, <3>2
  <2>3. QED
    BY <2>1, <2>2
<1>9. ASSUME NEW e \in Conns PROVE ChannelSound(e)'
  <2>1. handler'[e] = "none" => sseChan'[e] = <<>>
    BY <1>1, <1>3 DEF CommandInv, ChannelSound
  <2>2. ASSUME NEW i \in DOMAIN sseChan'[e]
        PROVE  LET x == sseChan'[e][i]
               IN /\ caller'[x] = "done" /\ CodebaseOf[x] \in Serves[owner'[e]]
                  /\ job'[x] = "none" /\ requests'[x] = "requested"
    <3>1. PICK k \in DOMAIN sseChan[e] : sseChan'[e][i] = sseChan[e][k]
      BY <1>8
    <3>2. sseChan[e][k] \in Requests /\ sseChan[e][k] # r
      BY <1>8, <3>1, ChannelTyped
    <3>3. QED
      BY <1>1, <1>5, <3>1, <3>2 DEF CommandInv, ChannelSound
  <2>3. QED
    BY <2>1, <2>2 DEF ChannelSound
<1>10. OnePlaceOnly'
  <2> SUFFICES ASSUME NEW e \in Conns, NEW f \in Conns,
                      NEW i \in DOMAIN sseChan'[e], NEW k \in DOMAIN sseChan'[f],
                      sseChan'[e][i] = sseChan'[f][k]
               PROVE  e = f /\ i = k
    BY DEF OnePlaceOnly
  <2>1. PICK m \in DOMAIN sseChan[e] : /\ sseChan'[e][i] = sseChan[e][m]
                                       /\ m = IF e = c THEN i + 1 ELSE i
    BY <1>8
  <2>2. PICK n \in DOMAIN sseChan[f] : /\ sseChan'[f][k] = sseChan[f][n]
                                       /\ n = IF f = c THEN k + 1 ELSE k
    BY <1>8
  <2>3. e = f /\ m = n
    <3>1. sseChan[e][m] = sseChan[f][n]
      BY <2>1, <2>2
    <3>2. QED
      BY <3>1, Zenon DEF CommandInv, OnePlaceOnly
  <2>4. i = k
    <3>1. CASE e = c
      <4>1. i \in Nat /\ k \in Nat
        BY <1>2, <1>3, <2>3, <3>1
      <4>2. QED
        BY <2>1, <2>2, <2>3, <3>1, <4>1
    <3>2. CASE e # c
      BY <2>1, <2>2, <2>3, <3>2
    <3>3. QED
      BY <3>1, <3>2
  <2>5. QED
    BY <2>3, <2>4
<1>11. QED
  BY <1>7, <1>9, <1>10 DEF CommandInv

\* The invariant of the commands is inductive, one case per action.
LEMMA StepKeepsCommands ==
  ASSUME TypeOK, RegistryInv, CommandInv, [Next]_vars
  PROVE  CommandInv'
<1> USE DEF registryVars, connVars, callVars, jobVars
<1>1. ASSUME NEW d \in Daemons, NEW c \in Conns, RegisterNode(d, c)
      PROVE  CommandInv'
  BY <1>1, RegisterKeepsCommands
<1>2. ASSUME NEW c \in Conns, HandlerStep(c)
      PROVE  CommandInv'
  <2>1. CASE Acknowledge(c) \/ Disconnected(c) \/ ChannelClosed(c) \/ CloseChannel(c)
    <3>1. /\ UNCHANGED <<requests, sseChan, owner, caller, target, job>>
          /\ handler[c] # "none" /\ handler'[c] # "none"
          /\ \A x \in Conns : x # c => handler'[x] = handler[x]
      BY <2>1 DEF Acknowledge, Disconnected, ChannelClosed, CloseChannel, GoTo, TypeOK
    <3>2. QED
      BY <3>1, CommandFrame
  <2>2. CASE DeregisterNode(c)
    <3>1. /\ UNCHANGED <<requests, sseChan, owner, caller, target, job>>
          /\ GoTo(c, "gone") \/ GoTo(c, "closing")
      BY <2>2, Zenon DEF DeregisterNode
    <3>2. /\ handler[c] # "none" /\ handler'[c] # "none"
          /\ \A x \in Conns : x # c => handler'[x] = handler[x]
      BY <2>2, <3>1 DEF GoTo, TypeOK, DeregisterNode
    <3>3. QED
      BY <3>1, <3>2, CommandFrame
  <2>3. CASE Recycle(c)
    BY <2>3, RecycleKeepsCommands
  <2>4. QED
    BY <1>2, <2>1, <2>2, <2>3 DEF HandlerStep
<1>3. ASSUME NEW c \in Conns, ForwardCommand(c)
      PROVE  CommandInv'
  BY <1>3, ForwardKeepsCommands
<1>4. ASSUME NEW r \in Requests, SendReindex(r) \/ CallStep(r)
      PROVE  CommandInv'
  BY <1>4, SendReindexKeepsCommands, SendCommandKeepsCommands, OverflowKeepsCommands
  DEF CallStep
<1>5. ASSUME NEW d \in Daemons, DaemonNotices(d)
      PROVE  CommandInv'
  BY <1>5, CommandFrame DEF DaemonNotices
<1>6. ASSUME NEW c \in Conns, Drop(c)
      PROVE  CommandInv'
  BY <1>6, CommandFrame DEF Drop
<1>7. ASSUME NEW d \in Daemons, CrashDaemon(d)
      PROVE  CommandInv'
  <2>1. \A r \in Requests : job[r] = "none" => job'[r] = "none" /\ requests'[r] = requests[r]
    BY <1>7 DEF CrashDaemon, JobsOf, Jobs
  <2>2. QED
    BY <1>7, <2>1, CommandJobFrame DEF CrashDaemon
<1>8. ASSUME NEW r \in Requests, StartReindex(r)
      PROVE  CommandInv'
  <2>1. requests' = requests \/ requests' = [requests EXCEPT ![r] = "started"]
    BY <1>8, ReportsOwnEntry DEF StartReindex, Jobs
  <2>2. job[r] = "queued" /\ job' = [job EXCEPT ![r] = "running"]
    BY <1>8 DEF StartReindex
  <2>3. \A x \in Requests : job[x] = "none" => job'[x] = "none" /\ requests'[x] = requests[x]
    BY <2>1, <2>2 DEF TypeOK, Jobs
  <2>4. QED
    BY <1>8, <2>3, CommandJobFrame DEF StartReindex
<1>9. ASSUME NEW w \in WatchBatches, NEW d \in Daemons, StartWatchBatch(w, d)
      PROVE  CommandInv'
  <2>1. requests' = requests \/ requests' = [requests EXCEPT ![w] = "started"]
    BY <1>9, ReportsOwnEntry DEF StartWatchBatch, Jobs
  <2>2. w \notin Requests /\ job' = [job EXCEPT ![w] = "running"]
    BY <1>9, ConstantsAssumption DEF StartWatchBatch
  <2>3. \A x \in Requests : job[x] = "none" => job'[x] = "none" /\ requests'[x] = requests[x]
    BY <2>1, <2>2 DEF TypeOK, Jobs
  <2>4. QED
    BY <1>9, <2>3, CommandJobFrame DEF StartWatchBatch
<1>10. ASSUME NEW j \in Jobs, FinishJob(j)
       PROVE  CommandInv'
  <2>1. \/ requests' = requests \/ requests' = [requests EXCEPT ![j] = "complete"]
        \/ requests' = [requests EXCEPT ![j] = "error"]
    BY <1>10, ReportsOwnEntry DEF FinishJob
  <2>2. job[j] = "running" /\ job' = [job EXCEPT ![j] = "done"]
    BY <1>10 DEF FinishJob
  <2>3. \A x \in Requests : job[x] = "none" => job'[x] = "none" /\ requests'[x] = requests[x]
    BY <2>1, <2>2 DEF TypeOK, Jobs
  <2>4. QED
    BY <1>10, <2>3, CommandJobFrame DEF FinishJob
<1>11. CASE UNCHANGED vars
  BY <1>11, CommandFrame DEF vars
<1>12. QED
  BY <1>1, <1>2, <1>3, <1>4, <1>5, <1>6, <1>7, <1>8, <1>9, <1>10, <1>11 DEF Next, Fault

\* The invariant of the commands holds in every behaviour.
LEMMA CommandInvariant == Spec => []CommandInv
<1>1. TypeOK /\ RegistryInv /\ CommandInv /\ [Next]_vars => CommandInv'
  BY StepKeepsCommands
<1>2. QED
  BY CommandInit, TypeCorrect, RegistryInvariant, <1>1, PTL DEF Spec

\* A buffered command is in one place, on the way to a daemon that serves its
\* codebase, and has not been run.
THEOREM CommandsAreRouted == Spec => []CommandsRouted
<1>1. TypeOK /\ RegistryInv /\ CommandInv => CommandsRouted
  <2> SUFFICES ASSUME TypeOK, RegistryInv, CommandInv PROVE CommandsRouted
    OBVIOUS
  <2>1. \A c \in Conns : \A i \in DOMAIN sseChan[c] : owner[c] \in Daemons
    BY DEF RegistryInv, UnusedIsFresh, CommandInv, ChannelSound
  <2>2. QED
    BY <2>1 DEF CommandsRouted, CommandInv, ChannelSound, OnePlaceOnly
<1>2. QED
  BY TypeCorrect, RegistryInvariant, CommandInvariant, <1>1, PTL


-----------------------------------------------------------------------------
(* The registry and the daemon implement ReindexLifecycle                  *)

\* The start report, delivered or lost, of a job that may begin.
LEMMA StartRefines ==
  ASSUME NEW j \in Jobs, NEW d, ReportStatus(j, d, "started"),
         job' = [job EXCEPT ![j] = "running"],
         \/ j \in Requests /\ job[j] = "queued"
         \/ j \in WatchBatches /\ job[j] = "none"
  PROVE  Lifecycle!Next
<1>1. requests' = requests \/ requests' = [requests EXCEPT ![j] = "started"]
  BY Zenon DEF ReportStatus, UpdateStatus
<1>2. Lifecycle!Begin(j)
  BY <1>1, Zenon DEF Lifecycle!Begin, Lifecycle!Show
<1>3. QED
  BY <1>2, Zenon DEF Lifecycle!Next, Lifecycle!Jobs, Jobs

\* The last report, delivered or lost, of a job that runs.
LEMMA FinishRefines ==
  ASSUME NEW j \in Jobs, FinishJob(j)
  PROVE  Lifecycle!Next
<1>1. \/ requests' = requests
      \/ \E s \in {"complete", "error"} : requests' = [requests EXCEPT ![j] = s]
  BY Zenon DEF FinishJob, ReportStatus, UpdateStatus
<1>2. Lifecycle!End(j)
  BY <1>1, Zenon DEF FinishJob, Lifecycle!End, Lifecycle!Show, Lifecycle!Terminal
<1>3. QED
  BY <1>2, Zenon DEF Lifecycle!Next, Lifecycle!Jobs, Jobs

\* Every step of the registry, the connections and the daemons is a step of the
\* life of one job, the death of a daemon's jobs, or none of them.
LEMMA StepRefines ==
  ASSUME TypeOK, CommandInv, [Next]_vars
  PROVE  [Lifecycle!Next]_(Lifecycle!vars)
<1> USE DEF registryVars, connVars, callVars, jobVars
<1>1. ASSUME UNCHANGED <<job, requests>>
      PROVE  UNCHANGED Lifecycle!vars
  BY <1>1 DEF Lifecycle!vars
<1>2. ASSUME NEW d \in Daemons, NEW c \in Conns, RegisterNode(d, c)
      PROVE  UNCHANGED Lifecycle!vars
  BY <1>1, <1>2 DEF RegisterNode
<1>3. ASSUME NEW c \in Conns, HandlerStep(c) \/ Drop(c)
      PROVE  UNCHANGED Lifecycle!vars
  BY <1>1, <1>3
  DEF HandlerStep, Drop, Acknowledge, Disconnected, ChannelClosed, DeregisterNode,
      CloseChannel, Recycle
<1>4. ASSUME NEW c \in Conns, ForwardCommand(c)
      PROVE  Lifecycle!Next \/ UNCHANGED Lifecycle!vars
  <2> DEFINE r == Head(sseChan[c])
  <2>1. /\ UNCHANGED requests
        /\ job' = job \/ job' = [job EXCEPT ![r] = "queued"]
    BY <1>4, Zenon DEF ForwardCommand
  <2>2. r \in Requests /\ job[r] = "none" /\ requests[r] = "requested"
    <3>1. 1 \in DOMAIN sseChan[c] /\ r = sseChan[c][1]
      BY <1>4 DEF ForwardCommand, TypeOK
    <3>2. QED
      BY <3>1, ChannelTyped DEF CommandInv, ChannelSound
  <2> HIDE DEF r
  <2>3. CASE job' = [job EXCEPT ![r] = "queued"]
    <3>1. Lifecycle!Queue(r)
      BY <2>1, <2>2, <2>3, Zenon DEF Lifecycle!Queue
    <3>2. QED
      BY <2>2, <3>1, Zenon DEF Lifecycle!Next
  <2>4. QED
    BY <1>1, <2>1, <2>3
<1>5. ASSUME NEW r \in Requests, SendReindex(r)
      PROVE  Lifecycle!Next \/ UNCHANGED Lifecycle!vars
  <2>1. /\ UNCHANGED job
        /\ requests' = requests \/ requests' = [requests EXCEPT ![r] = "requested"]
    BY <1>5, Zenon DEF SendReindex
  <2>2. job[r] = "none" /\ requests[r] = "absent"
    BY <1>5 DEF SendReindex, CommandInv, CallSound
  <2>3. CASE requests' = [requests EXCEPT ![r] = "requested"]
    <3>1. Lifecycle!Accept(r)
      BY <2>1, <2>2, <2>3, Zenon DEF Lifecycle!Accept, Lifecycle!Show
    <3>2. QED
      BY <3>1, Zenon DEF Lifecycle!Next
  <2>4. QED
    BY <1>1, <2>1, <2>3
<1>6. ASSUME NEW r \in Requests, CallStep(r)
      PROVE  Lifecycle!Next \/ UNCHANGED Lifecycle!vars
  <2>1. CASE SendCommand(r)
    BY <1>1, <2>1 DEF SendCommand
  <2>2. CASE RecordOverflow(r)
    <3>1. job[r] = "none" /\ requests[r] = "requested"
      BY <2>2 DEF RecordOverflow, CommandInv, CallSound
    <3>2. Lifecycle!GiveUp(r)
      BY <2>2, <3>1 DEF RecordOverflow, Lifecycle!GiveUp, Lifecycle!Show
    <3>3. QED
      BY <3>2, Zenon DEF Lifecycle!Next
  <2>3. QED
    BY <1>6, <2>1, <2>2 DEF CallStep
<1>7. ASSUME NEW d \in Daemons, DaemonNotices(d)
      PROVE  UNCHANGED Lifecycle!vars
  BY <1>1, <1>7 DEF DaemonNotices
<1>8. ASSUME NEW d \in Daemons, CrashDaemon(d)
      PROVE  Lifecycle!Next
  <2>1. Lifecycle!Die(JobsOf(d))
    BY <1>8 DEF CrashDaemon, JobsOf, Lifecycle!Die, Lifecycle!Jobs, Jobs
  <2>2. JobsOf(d) \in SUBSET Lifecycle!Jobs
    BY DEF JobsOf, Lifecycle!Jobs, Jobs
  <2>3. QED
    BY <2>1, <2>2, Zenon DEF Lifecycle!Next
<1>9. ASSUME NEW r \in Requests, StartReindex(r)
      PROVE  Lifecycle!Next
  BY <1>9, StartRefines DEF StartReindex, Jobs
<1>10. ASSUME NEW w \in WatchBatches, NEW d \in Daemons, StartWatchBatch(w, d)
       PROVE  Lifecycle!Next
  BY <1>10, StartRefines DEF StartWatchBatch, Jobs
<1>11. ASSUME NEW j \in Jobs, FinishJob(j)
       PROVE  Lifecycle!Next
  BY <1>11, FinishRefines
<1>12. CASE UNCHANGED vars
  BY <1>1, <1>12 DEF vars
<1>13. QED
  BY <1>2, <1>3, <1>4, <1>5, <1>6, <1>7, <1>8, <1>9, <1>10, <1>11, <1>12
  DEF Next, Fault

\* The registry and the daemons run each job at most once, and what the server
\* shows of it never runs ahead of it, goes back or leaves a terminal status,
\* through overflowing channels, lost connections and dying daemons.
THEOREM RefinesLifecycle == Spec => ImplementsLifecycle
<1>1. Init => Lifecycle!Init
  BY DEF Init, Lifecycle!Init, Lifecycle!Jobs, Jobs
<1>2. TypeOK /\ CommandInv /\ [Next]_vars => [Lifecycle!Next]_(Lifecycle!vars)
  BY StepRefines
<1>3. QED
  BY <1>1, <1>2, TypeCorrect, CommandInvariant, PTL
  DEF Spec, ImplementsLifecycle, Lifecycle!Spec


-----------------------------------------------------------------------------
(* What a registration is shown to do                                      *)

\* Nothing is registered and nothing runs at first.
LEMMA BusyInit == Init => BusyInv
<1> SUFFICES ASSUME Init PROVE BusyInv
  OBVIOUS
<1>1. Registered = {}
  BY DEF Init, Registered
<1>2. QED
  BY <1>1, ConstantsAssumption DEF Init, BusyInv, WholeRegistrations

\* A step that registers nothing, shows nothing new and only loses jobs to faults.
LEMMA BusyFrame ==
  ASSUME BusyInv, WholeRegistrations',
         \A c \in Registered' \ displaced' : nodeStatus'[c] = "indexing" =>
           /\ c \in Registered \ displaced /\ owner'[c] = owner[c]
           /\ nodeStatus[c] = "indexing",
         \A j \in Jobs : runner[j] \in Daemons =>
           /\ runner'[j] = runner[j] /\ requests'[j] = requests[j]
           /\ job[j] = "running" => job'[j] = "running" \/ j \in disturbed',
         disturbed \subseteq disturbed',
         \A c \in Conns : handler'[c] = "none" => nodeStatus'[c] = "idle",
         \A j \in Jobs : runner'[j] \in Daemons <=> job'[j] # "none"
  PROVE  BusyInv'
<1>1. ASSUME NEW c \in Registered' \ displaced', nodeStatus'[c] = "indexing"
      PROVE  \E j \in Jobs : Explains(j, c)'
  <2>1. PICK j \in Jobs : Explains(j, c)
    BY <1>1 DEF BusyInv
  <2>2. Explains(j, c)'
    BY <1>1, <2>1 DEF Explains
  <2>3. QED
    BY <2>2
<1>2. QED
  BY <1>1 DEF BusyInv

\* A registration takes over all entries of its daemon; what it leaves of another
\* one's is whole or has been displaced.
LEMMA RegisterIsWhole ==
  ASSUME TypeOK, RegistryInv, WholeRegistrations,
         NEW d \in Daemons, NEW c \in Conns, RegisterNode(d, c)
  PROVE  WholeRegistrations'
<1>1. /\ handler[c] = "none" /\ c # NoConn
      /\ nodes' = [k \in Keys |-> IF k \in KeysOf(d) THEN c ELSE nodes[k]]
      /\ displaced' = displaced \cup
           {e \in {nodes[k] : k \in KeysOf(d)} \ {NoConn} : owner[e] # d}
      /\ owner' = [owner EXCEPT ![c] = d]
  BY ConstantsAssumption DEF RegisterNode
<1> SUFFICES ASSUME NEW e \in Registered' \ displaced', NEW l \in KeysOf(owner'[e])
             PROVE  nodes'[l] = e
  BY DEF WholeRegistrations, KeysOf
<1>2. PICK k \in Keys : nodes'[k] = e /\ e # NoConn
  BY DEF Registered
<1>3. CASE e = c
  BY <1>1, <1>3, KeysOfDaemon DEF TypeOK
<1>4. CASE e # c
  <2>1. nodes[k] = e /\ k \notin KeysOf(d)
    BY <1>1, <1>2, <1>4
  <2>2. e \in Registered /\ e \notin displaced
    BY <1>1, <1>2, <2>1 DEF Registered
  <2>3. e \in Conns /\ owner[e] \in Daemons /\ k \in KeysOf(owner[e]) /\ owner[e] # d
    BY <2>1, <2>2, RegisteredSound
  <2>4. owner'[e] = owner[e]
    BY <1>1, <1>4, <2>3 DEF TypeOK
  <2>5. nodes[l] = e /\ l \in Keys
    BY <2>2, <2>3, <2>4, KeysOfDaemon DEF WholeRegistrations
  <2>6. l \notin KeysOf(d)
    BY <1>1, <1>2, <2>3, <2>5
  <2>7. QED
    BY <1>1, <2>5, <2>6
<1>5. QED
  BY <1>3, <1>4

\* DeregisterNode leaves whole registrations: it takes all entries of a node ID.
LEMMA DeregisterIsWhole ==
  ASSUME TypeOK, RegistryInv, WholeRegistrations, NEW c \in Conns, DeregisterNode(c)
  PROVE  /\ WholeRegistrations' /\ Registered' \subseteq Registered
         /\ displaced \subseteq displaced'
<1> DEFINE doomed == {k \in Keys : k[1] = NodeOf[owner[c]] /\ nodes[k] # NoConn}
<1>1. /\ \/ nodes' = nodes
         \/ nodes' = [k \in Keys |-> IF k \in doomed THEN NoConn ELSE nodes[k]]
      /\ owner' = owner
  BY Zenon DEF DeregisterNode
<1>2. \A k \in Keys : nodes'[k] # NoConn => nodes'[k] = nodes[k]
  BY <1>1
<1>3. Registered' \subseteq Registered
  BY <1>2 DEF Registered
<1>4. \/ displaced' = displaced
      \/ \E k \in doomed :
           displaced' = displaced \cup ({nodes[l] : l \in doomed} \ {nodes[k]})
  BY Zenon DEF DeregisterNode
<1>5. displaced \subseteq displaced'
  BY <1>4
<1>6. ASSUME NEW e \in Registered' \ displaced', NEW l \in KeysOf(owner[e])
      PROVE  nodes'[l] = e
  <2>1. PICK k \in Keys : nodes'[k] = e /\ e # NoConn
    BY DEF Registered
  <2>2. /\ e \in Registered \ displaced /\ owner[e] \in Daemons
        /\ nodes[k] = e /\ k \in KeysOf(owner[e])
    BY <1>2, <1>3, <1>5, <2>1, RegisteredSound
  <2>3. nodes[l] = e /\ l \in Keys /\ l[1] = k[1]
    BY <2>2, KeysOfDaemon DEF WholeRegistrations
  <2>4. QED
    BY <1>1, <2>1, <2>2, <2>3
<1>7. QED
  BY <1>1, <1>3, <1>5, <1>6 DEF WholeRegistrations, KeysOf

\* A report sets the status of the registration it belongs to: to indexing only
\* for a job that runs, back to idle with the last report that arrives.
LEMMA ReportKeepsBusy ==
  ASSUME TypeOK, RegistryInv, BusyInv, UNCHANGED <<nodes, owner, handler, displaced>>,
         NEW j \in Jobs, NEW d \in Daemons, NEW s \in Statuses, ReportStatus(j, d, s),
         runner'[j] = d, job'[j] = IF s = "started" THEN "running" ELSE "done",
         runner[j] \in Daemons => runner[j] = d,
         \A x \in Jobs : x # j => runner'[x] = runner[x] /\ job'[x] = job[x]
  PROVE  BusyInv'
<1> DEFINE e == nodes[<<NodeOf[d], CodebaseOf[j]>>]
           report == IF s = "started" THEN "indexing" ELSE "idle"
<1>1. WholeRegistrations' /\ Registered' = Registered
  BY DEF BusyInv, WholeRegistrations, Registered
<1>2. \A x \in Jobs : runner'[x] \in Daemons <=> job'[x] # "none"
  BY DEF BusyInv
<1>3. \/ /\ disturbed' = disturbed /\ requests' = [requests EXCEPT ![j] = s]
         /\ nodeStatus' = IF e = NoConn THEN nodeStatus
                          ELSE [nodeStatus EXCEPT ![e] = report]
      \/ disturbed' = disturbed \cup {j} /\ UNCHANGED <<requests, nodeStatus>>
  BY Zenon DEF ReportStatus, UpdateStatus
<1>4. <<NodeOf[d], CodebaseOf[j]>> \in Keys /\ e \in Conns \cup {NoConn}
  BY ConstantsAssumption DEF Keys, TypeOK
<1>5. e # NoConn =>
        /\ e \in Registered /\ handler[e] # "none"
        /\ NodeOf[d] = NodeOf[owner[e]] /\ CodebaseOf[j] \in Serves[owner[e]]
  BY <1>4 DEF Registered, RegistryInv, RegistrySound, Registering
<1> HIDE DEF e
<1>6. CASE disturbed' = disturbed \cup {j} /\ UNCHANGED <<requests, nodeStatus>>
  <2>1. ASSUME NEW c \in Registered \ displaced, nodeStatus[c] = "indexing"
        PROVE  \E x \in Jobs : Explains(x, c)'
    <3>1. PICK x \in Jobs : Explains(x, c)
      BY <2>1 DEF BusyInv
    <3>2. Explains(x, c)'
      BY <1>6, <3>1 DEF Explains
    <3>3. QED
      BY <3>2
  <2>2. QED
    BY <1>1, <1>2, <1>6, <2>1 DEF BusyInv
<1>7. CASE /\ disturbed' = disturbed /\ requests' = [requests EXCEPT ![j] = s]
           /\ nodeStatus' = IF e = NoConn THEN nodeStatus
                            ELSE [nodeStatus EXCEPT ![e] = report]
  <2>1. requests'[j] = s /\ \A x \in Jobs : x # j => requests'[x] = requests[x]
    BY <1>7 DEF TypeOK
  <2>2. ASSUME NEW c \in Registered \ displaced, nodeStatus'[c] = "indexing"
        PROVE  \E x \in Jobs : Explains(x, c)'
    <3>1. c \in Conns /\ c # NoConn /\ owner[c] \in Daemons
      BY RegisteredSound
    <3>2. CASE c # e
      <4>1. nodeStatus[c] = "indexing"
        BY <1>4, <1>7, <2>2, <3>1, <3>2 DEF TypeOK
      <4>2. PICK x \in Jobs : Explains(x, c)
        BY <4>1 DEF BusyInv
      <4>3. x # j
        <5> SUFFICES ASSUME x = j PROVE FALSE
          OBVIOUS
        <5>1. runner[j] = d /\ <<NodeOf[d], CodebaseOf[j]>> \in KeysOf(owner[c])
          BY <4>2 DEF Explains, KeysOf
        <5>2. QED
          BY <5>1, <3>2 DEF BusyInv, WholeRegistrations, e
      <4>4. Explains(x, c)'
        BY <1>7, <2>1, <4>2, <4>3 DEF Explains
      <4>5. QED
        BY <4>4
    <3>3. CASE c = e
      <4>1. s = "started"
        BY <1>4, <1>7, <2>2, <3>1, <3>3 DEF TypeOK
      <4>2. Explains(j, c)'
        BY <1>5, <2>1, <3>1, <3>3, <4>1 DEF Explains
      <4>3. QED
        BY <4>2
    <3>4. QED
      BY <3>2, <3>3
  <2>3. \A c \in Conns : handler'[c] = "none" => nodeStatus'[c] = "idle"
    BY <1>4, <1>5, <1>7 DEF BusyInv, TypeOK
  <2>4. QED
    BY <1>1, <1>2, <2>2, <2>3 DEF BusyInv
<1>8. QED
  BY <1>3, <1>6, <1>7

\* Steps of handlers: what they do to the map only takes registrations out, and an
\* identity that is used again starts idle.
LEMMA HandlerKeepsBusy ==
  ASSUME TypeOK, RegistryInv, BusyInv, NEW c \in Conns, HandlerStep(c)
  PROVE  BusyInv'
<1> USE DEF registryVars, connVars, callVars, jobVars
<1>1. UNCHANGED <<runner, job, disturbed, requests>>
  BY DEF HandlerStep, Acknowledge, Disconnected, ChannelClosed, DeregisterNode,
         CloseChannel, Recycle
<1>2. CASE Acknowledge(c) \/ Disconnected(c) \/ ChannelClosed(c) \/ CloseChannel(c)
  <2>1. /\ UNCHANGED <<nodes, nodeStatus, owner, displaced>> /\ handler'[c] # "none"
        /\ \A x \in Conns : x # c => handler'[x] = handler[x]
    BY <1>2 DEF Acknowledge, Disconnected, ChannelClosed, CloseChannel, GoTo, TypeOK
  <2>2. WholeRegistrations' /\ Registered' = Registered
    BY <2>1 DEF BusyInv, WholeRegistrations, Registered
  <2>3. QED
    BY <1>1, <2>1, <2>2, BusyFrame DEF BusyInv
<1>3. CASE DeregisterNode(c)
  <2>1. /\ WholeRegistrations' /\ Registered' \subseteq Registered
        /\ displaced \subseteq displaced'
    BY <1>3, DeregisterIsWhole DEF BusyInv
  <2>2. GoTo(c, "gone") \/ GoTo(c, "closing")
    BY <1>3, Zenon DEF DeregisterNode
  <2>3. UNCHANGED <<nodeStatus, owner>>
    BY <1>3 DEF DeregisterNode
  <2>4. handler'[c] # "none" /\ \A x \in Conns : x # c => handler'[x] = handler[x]
    BY <2>2 DEF GoTo, TypeOK
  <2>5. \A x \in Conns : handler'[x] = "none" => nodeStatus'[x] = "idle"
    BY <2>3, <2>4 DEF BusyInv
  <2>6. QED
    BY <1>1, <2>1, <2>3, <2>5, BusyFrame DEF BusyInv
<1>4. CASE Recycle(c)
  <2>1. /\ c \notin Registered
        /\ handler' = [handler EXCEPT ![c] = "none"]
        /\ nodeStatus' = [nodeStatus EXCEPT ![c] = "idle"]
        /\ owner' = [owner EXCEPT ![c] = NoDaemon]
        /\ displaced' = displaced \ {c}
        /\ UNCHANGED nodes
    BY <1>4 DEF Recycle, GoTo
  <2>2. \A x \in Registered : owner'[x] = owner[x] /\ nodeStatus'[x] = nodeStatus[x]
    BY <2>1, RegisteredSound DEF TypeOK
  <2>3. Registered' = Registered /\ Registered' \ displaced' = Registered \ displaced
    BY <2>1 DEF Registered
  <2>4. WholeRegistrations'
    BY <2>1, <2>2, <2>3 DEF BusyInv, WholeRegistrations, KeysOf
  <2>5. \A x \in Conns : handler'[x] = "none" => nodeStatus'[x] = "idle"
    BY <2>1 DEF BusyInv, TypeOK
  <2>6. QED
    BY <1>1, <2>2, <2>3, <2>4, <2>5, BusyFrame DEF BusyInv
<1>5. QED
  BY <1>2, <1>3, <1>4 DEF HandlerStep

\* Steps that leave the map alone and start, queue or end no job, but may add to
\* the faults or set the entry of a request no daemon has yet.
LEMMA BusyCallFrame ==
  ASSUME BusyInv,
         UNCHANGED <<nodes, nodeStatus, handler, owner, displaced, job, runner>>,
         \A j \in Jobs : job[j] # "none" => requests'[j] = requests[j],
         disturbed \subseteq disturbed'
  PROVE  BusyInv'
<1>1. WholeRegistrations' /\ Registered' = Registered
  BY DEF BusyInv, WholeRegistrations, Registered
<1>2. QED
  BY <1>1, BusyFrame DEF BusyInv

\* The command that a daemon takes had no runner before.
LEMMA ForwardKeepsBusy ==
  ASSUME TypeOK, RegistryInv, CommandInv, BusyInv, NEW c \in Conns, ForwardCommand(c)
  PROVE  BusyInv'
<1> DEFINE r == Head(sseChan[c])
<1>1. /\ handler[c] = "serving" /\ sseChan[c] # <<>>
      /\ UNCHANGED <<nodes, nodeStatus, requests, handler, owner, disturbed, displaced>>
  BY DEF ForwardCommand, registryVars, connVars
<1>2. r \in Requests /\ job[r] = "none" /\ runner[r] \notin Daemons
  <2>1. 1 \in DOMAIN sseChan[c] /\ r = sseChan[c][1]
    BY <1>1 DEF TypeOK
  <2>2. r \in Requests /\ job[r] = "none"
    BY <2>1, ChannelTyped DEF CommandInv, ChannelSound
  <2>3. QED
    BY <2>2 DEF BusyInv, Jobs
<1>3. owner[c] \in Daemons
  BY <1>1 DEF RegistryInv, UnusedIsFresh
<1>4. \/ UNCHANGED <<job, runner>>
      \/ /\ job' = [job EXCEPT ![r] = "queued"]
         /\ runner' = [runner EXCEPT ![r] = owner[c]]
  BY Zenon DEF ForwardCommand, jobVars
<1> HIDE DEF r
<1>5. CASE UNCHANGED <<job, runner>>
  BY <1>1, <1>5, BusyCallFrame
<1>6. CASE /\ job' = [job EXCEPT ![r] = "queued"]
           /\ runner' = [runner EXCEPT ![r] = owner[c]]
  <2>1. /\ job'[r] = "queued" /\ runner'[r] \in Daemons /\ r \in Jobs
        /\ \A x \in Jobs : x # r => job'[x] = job[x] /\ runner'[x] = runner[x]
    BY <1>2, <1>3, <1>6 DEF TypeOK, Jobs
  <2>2. WholeRegistrations' /\ Registered' = Registered
    BY <1>1 DEF BusyInv, WholeRegistrations, Registered
  <2>3. \A j \in Jobs : runner'[j] \in Daemons <=> job'[j] # "none"
    BY <2>1 DEF BusyInv
  <2>4. \A j \in Jobs : runner[j] \in Daemons =>
           /\ runner'[j] = runner[j]
           /\ job[j] = "running" => job'[j] = "running" \/ j \in disturbed'
    BY <1>2, <2>1
  <2>5. QED
    BY <1>1, <2>2, <2>3, <2>4, BusyFrame DEF BusyInv
<1>7. QED
  BY <1>4, <1>5, <1>6

\* The invariant of what is shown is inductive, one case per action.
LEMMA StepKeepsBusy ==
  ASSUME TypeOK, RegistryInv, CommandInv, BusyInv, [Next]_vars
  PROVE  BusyInv'
<1> USE DEF registryVars, connVars, callVars, jobVars
<1>1. ASSUME NEW d \in Daemons, NEW c \in Conns, RegisterNode(d, c)
      PROVE  BusyInv'
  <2>1. /\ handler[c] = "none" /\ handler' = [handler EXCEPT ![c] = "registered"]
        /\ owner' = [owner EXCEPT ![c] = d]
        /\ nodes' = [k \in Keys |-> IF k \in KeysOf(d) THEN c ELSE nodes[k]]
        /\ displaced \subseteq displaced'
        /\ UNCHANGED <<nodeStatus, requests, job, runner, disturbed>>
    BY <1>1 DEF RegisterNode, GoTo
  <2>2. nodeStatus[c] = "idle"
    BY <2>1 DEF BusyInv
  <2>3. \A e \in Registered' : nodeStatus'[e] = "indexing" =>
           e \in Registered /\ e # c /\ e \in Conns
    <3>1. Registered' \subseteq Registered \cup {c}
      BY <2>1 DEF Registered
    <3>2. QED
      BY <2>1, <2>2, <3>1, RegisteredSound
  <2>4. \A e \in Registered' : nodeStatus'[e] = "indexing" =>
           e \in Registered /\ owner'[e] = owner[e] /\ nodeStatus[e] = "indexing"
    BY <2>1, <2>3 DEF TypeOK
  <2>5. WholeRegistrations'
    BY <1>1, RegisterIsWhole DEF BusyInv
  <2>6. \A x \in Conns : handler'[x] = "none" => nodeStatus'[x] = "idle"
    BY <2>1 DEF BusyInv, TypeOK
  <2>7. QED
    BY <2>1, <2>4, <2>5, <2>6, BusyFrame DEF BusyInv
<1>2. ASSUME NEW c \in Conns, HandlerStep(c)
      PROVE  BusyInv'
  BY <1>2, HandlerKeepsBusy
<1>3. ASSUME NEW c \in Conns, ForwardCommand(c)
      PROVE  BusyInv'
  BY <1>3, ForwardKeepsBusy
<1>4. ASSUME NEW r \in Requests, SendReindex(r) \/ CallStep(r)
      PROVE  BusyInv'
  <2>1. /\ UNCHANGED <<nodes, nodeStatus, handler, owner, displaced, job, runner>>
        /\ disturbed \subseteq disturbed'
    BY <1>4 DEF SendReindex, CallStep, SendCommand, RecordOverflow
  <2>2. \A j \in Jobs : requests'[j] # requests[j] =>
          j = r /\ caller[r] \in {"idle", "overflowed"}
    BY <1>4 DEF SendReindex, CallStep, SendCommand, RecordOverflow, TypeOK
  <2>3. \A j \in Jobs : job[j] # "none" => requests'[j] = requests[j]
    BY <2>2 DEF CommandInv, CallSound
  <2>4. QED
    BY <2>1, <2>3, BusyCallFrame
<1>5. ASSUME NEW c \in Conns, Drop(c)
      PROVE  BusyInv'
  BY <1>5, BusyCallFrame DEF Drop
<1>6. ASSUME NEW d \in Daemons, DaemonNotices(d)
      PROVE  BusyInv'
  BY <1>6, BusyCallFrame DEF DaemonNotices
<1>7. ASSUME NEW d \in Daemons, CrashDaemon(d)
      PROVE  BusyInv'
  <2>1. /\ UNCHANGED <<nodes, nodeStatus, requests, handler, owner, displaced, runner>>
        /\ job' = [j \in Jobs |-> IF j \in JobsOf(d) THEN "dead" ELSE job[j]]
        /\ disturbed \cup JobsOf(d) \subseteq disturbed'
    BY <1>7 DEF CrashDaemon
  <2>2. WholeRegistrations' /\ Registered' = Registered
    BY <2>1 DEF BusyInv, WholeRegistrations, Registered
  <2>3. \A j \in Jobs : runner'[j] \in Daemons <=> job'[j] # "none"
    BY <2>1 DEF BusyInv, JobsOf
  <2>4. QED
    BY <2>1, <2>2, <2>3, BusyFrame DEF BusyInv
<1>8. ASSUME NEW r \in Requests, StartReindex(r)
      PROVE  BusyInv'
  <2>1. /\ UNCHANGED <<nodes, owner, handler, displaced, runner>>
        /\ job[r] = "queued" /\ job' = [job EXCEPT ![r] = "running"]
        /\ ReportStatus(r, runner[r], "started")
    BY <1>8 DEF StartReindex
  <2>2. r \in Jobs /\ runner[r] \in Daemons /\ "started" \in Statuses
    BY <2>1 DEF Jobs, BusyInv, Statuses
  <2>3. /\ job'[r] = IF "started" = "started" THEN "running" ELSE "done"
        /\ \A x \in Jobs : x # r => job'[x] = job[x]
    BY <2>1, <2>2 DEF TypeOK
  <2>4. QED
    BY <2>1, <2>2, <2>3, ReportKeepsBusy
<1>9. ASSUME NEW w \in WatchBatches, NEW d \in Daemons, StartWatchBatch(w, d)
      PROVE  BusyInv'
  <2>1. /\ UNCHANGED <<nodes, owner, handler, displaced>>
        /\ job[w] = "none" /\ job' = [job EXCEPT ![w] = "running"]
        /\ runner' = [runner EXCEPT ![w] = d]
        /\ ReportStatus(w, d, "started")
    BY <1>9 DEF StartWatchBatch
  <2>2. w \in Jobs /\ runner[w] \notin Daemons /\ "started" \in Statuses
    BY <2>1 DEF Jobs, BusyInv, Statuses
  <2>3. /\ job'[w] = IF "started" = "started" THEN "running" ELSE "done"
        /\ runner'[w] = d
        /\ \A x \in Jobs : x # w => runner'[x] = runner[x] /\ job'[x] = job[x]
    BY <2>1, <2>2 DEF TypeOK
  <2>4. QED
    BY <2>1, <2>2, <2>3, ReportKeepsBusy
<1>10. ASSUME NEW j \in Jobs, FinishJob(j)
       PROVE  BusyInv'
  <2>1. /\ UNCHANGED <<nodes, owner, handler, displaced, runner>>
        /\ job[j] = "running" /\ job' = [job EXCEPT ![j] = "done"]
    BY <1>10 DEF FinishJob
  <2>2. PICK s \in {"complete", "error"} : ReportStatus(j, runner[j], s)
    BY <1>10, Zenon DEF FinishJob
  <2>3. runner[j] \in Daemons /\ s \in Statuses /\ s # "started"
    BY <2>1 DEF BusyInv, Statuses
  <2>4. /\ job'[j] = IF s = "started" THEN "running" ELSE "done"
        /\ \A x \in Jobs : x # j => job'[x] = job[x]
    BY <2>1, <2>3 DEF TypeOK
  <2>5. QED
    BY <2>1, <2>2, <2>3, <2>4, ReportKeepsBusy
<1>11. CASE UNCHANGED vars
  BY <1>11, BusyCallFrame DEF vars
<1>12. QED
  BY <1>1, <1>2, <1>3, <1>4, <1>5, <1>6, <1>7, <1>8, <1>9, <1>10, <1>11 DEF Next, Fault

\* A registration is shown as indexing only for a job last heard of when it started
\* that still runs or that a fault touched, unless a daemon with the same node ID
\* took over one of its entries.
THEOREM BusyIsExplained == Spec => []BusyForAReason
<1>1. TypeOK /\ RegistryInv /\ CommandInv /\ BusyInv /\ [Next]_vars => BusyInv'
  BY StepKeepsBusy
<1>2. ListenerInv /\ BusyInv => BusyForAReason
  BY DEF ListenerInv, DisplacedSound, Displaced, BusyInv, BusyForAReason
<1>3. QED
  BY BusyInit, TypeCorrect, RegistryInvariant, ListenerInvariant, CommandInvariant,
     <1>1, <1>2, PTL DEF Spec

=============================================================================
