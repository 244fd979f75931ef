-------------------------- MODULE IndexerRegistry --------------------------
(***************************************************************************)
(* The server's registry of indexer daemons and the dispatch of reindex    *)
(* commands (internal/mcp/indexer_manager.go, the SSE endpoint and the     *)
(* status endpoint of internal/mcp/http.go), together with the daemon's    *)
(* side of the connection (internal/indexer/daemon.go).                    *)
(*                                                                         *)
(* A member of Conns stands for everything one accepted GET /mcp/indexer   *)
(* owns: the handler goroutine, its SSE channel and the IndexerNode struct *)
(* it registers.  Map entries that share a struct hold the same member.    *)
(* An identity is used again (Recycle) once nothing refers to it any more. *)
(***************************************************************************)
EXTENDS Naturals, Sequences, FiniteSets

CONSTANTS Daemons,       \* daemon processes
          NodeIDs,       \* node IDs (the host name unless a flag sets it)
          Codebases,
          NodeOf,        \* the node ID each daemon registers with
          Serves,        \* the codebases each daemon serves
          Conns,         \* SSE connections that can exist at one time
          Requests,      \* calls of the reindex tool
          WatchBatches,  \* batches of watch events that report a status
          CodebaseOf,    \* the codebase a request or a batch is about
          ChanCap,       \* buffer of an SSE channel (64 in the code)
          NoConn, NoDaemon

Jobs == Requests \cup WatchBatches

ASSUME ConstantsAssumption ==
  /\ NodeOf \in [Daemons -> NodeIDs]
  /\ Serves \in [Daemons -> (SUBSET Codebases) \ {{}}]
  /\ CodebaseOf \in [Jobs -> Codebases]
  /\ ChanCap \in Nat \ {0}
  /\ NoConn \notin Conns /\ NoDaemon \notin Daemons
  /\ Requests \cap WatchBatches = {}

VARIABLES
  nodes,       \* IndexerManager.nodes: (node ID, codebase) -> registration
  nodeStatus,  \* IndexerNode.Status
  requests,    \* IndexerManager.requests: the status of each entry
  sseChan,     \* commands buffered in each SSE channel
  closed,      \* whether the channel has been closed
  handler,     \* where each handleIndexer goroutine stands
  closing,     \* DeregisterNode's local node: the struct whose channel it closes
  owner,       \* the daemon at the other end
  up,          \* whether the connection still carries data
  line,        \* the connection each daemon is reading
  caller,      \* where each SendReindex call stands
  target,      \* SendReindex's local targetNode
  job,         \* what became of the job on a daemon
  runner,      \* the daemon that has the job
  disturbed,   \* history: jobs a fault of the network or of a daemon touched
  displaced    \* history: connections that lost map entries to a daemon that
               \* shares their node ID

registryVars == <<nodes, nodeStatus, requests>>
connVars     == <<owner, up, line, displaced>>
callVars     == <<caller, target>>
jobVars      == <<job, runner>>
vars == <<nodes, nodeStatus, requests, sseChan, closed, handler, closing,
          owner, up, line, caller, target, job, runner,
          disturbed, displaced>>

Keys == NodeIDs \X Codebases

HandlerStates == {"none", "registered", "serving", "returning", "closing",
                  "gone", "panicked"}
CallStates == {"idle", "sending", "overflowed", "done", "refused", "panicked"}
JobStates  == {"none", "queued", "running", "done", "dead"}
Statuses   == {"absent", "requested", "started", "complete", "error"}

TypeOK ==
  /\ nodes \in [Keys -> Conns \cup {NoConn}]
  /\ nodeStatus \in [Conns -> {"idle", "indexing"}]
  /\ requests \in [Jobs -> Statuses]
  /\ sseChan \in [Conns -> Seq(Requests)]
  /\ closed \in [Conns -> BOOLEAN]
  /\ handler \in [Conns -> HandlerStates]
  /\ closing \in [Conns -> Conns \cup {NoConn}]
  /\ owner \in [Conns -> Daemons \cup {NoDaemon}]
  /\ up \in [Conns -> BOOLEAN]
  /\ line \in [Daemons -> Conns \cup {NoConn}]
  /\ caller \in [Requests -> CallStates]
  /\ target \in [Requests -> Conns \cup {NoConn}]
  /\ job \in [Jobs -> JobStates]
  /\ runner \in [Jobs -> Daemons \cup {NoDaemon}]
  /\ disturbed \in SUBSET Jobs
  /\ displaced \in SUBSET Conns

Init ==
  /\ nodes = [k \in Keys |-> NoConn]
  /\ nodeStatus = [c \in Conns |-> "idle"]
  /\ requests = [j \in Jobs |-> "absent"]
  /\ sseChan = [c \in Conns |-> <<>>]
  /\ closed = [c \in Conns |-> FALSE]
  /\ handler = [c \in Conns |-> "none"]
  /\ closing = [c \in Conns |-> NoConn]
  /\ owner = [c \in Conns |-> NoDaemon]
  /\ up = [c \in Conns |-> FALSE]
  /\ line = [d \in Daemons |-> NoConn]
  /\ caller = [r \in Requests |-> "idle"]
  /\ target = [r \in Requests |-> NoConn]
  /\ job = [j \in Jobs |-> "none"]
  /\ runner = [j \in Jobs |-> NoDaemon]
  /\ disturbed = {}
  /\ displaced = {}

-----------------------------------------------------------------------------
(* The registry                                                            *)

Registered == {nodes[k] : k \in Keys} \ {NoConn}

GoTo(c, s) == handler' = [handler EXCEPT ![c] = s]

KeysOf(d) == {NodeOf[d]} \X Serves[d]

\* The daemon dials and handleIndexer accepts: a fresh channel and struct,
\* entered under one key per codebase and replacing what was there.
RegisterNode(d, c) ==
  /\ line[d] = NoConn /\ handler[c] = "none"
  /\ nodes' = [k \in Keys |-> IF k \in KeysOf(d) THEN c ELSE nodes[k]]
  /\ displaced' = displaced \cup
       {e \in {nodes[k] : k \in KeysOf(d)} \ {NoConn} : owner[e] # d}
  /\ GoTo(c, "registered")
  /\ owner' = [owner EXCEPT ![c] = d]
  /\ up' = [up EXCEPT ![c] = TRUE]
  /\ line' = [line EXCEPT ![d] = c]
  /\ UNCHANGED <<nodeStatus, requests, sseChan, closed, closing,
                 callVars, jobVars, disturbed>>

\* The registration is acknowledged on the stream and the loop begins.
Acknowledge(c) ==
  /\ handler[c] = "registered"
  /\ GoTo(c, "serving")
  /\ UNCHANGED <<registryVars, sseChan, closed, closing, connVars, callVars,
                 jobVars, disturbed>>

\* The request's context is done: the handler leaves its loop.
Disconnected(c) ==
  /\ handler[c] = "serving" /\ ~up[c]
  /\ GoTo(c, "returning")
  /\ UNCHANGED <<registryVars, sseChan, closed, closing, connVars,
                 callVars, jobVars, disturbed>>

\* Mutant: the handler looks at a closed flag before the buffered commands.
ReturnUndrained(c) ==
  /\ handler[c] = "serving" /\ closed[c]
  /\ GoTo(c, "returning")
  /\ UNCHANGED <<registryVars, sseChan, closed, closing, connVars, callVars,
                 jobVars, disturbed>>

\* A receive from the closed channel fails once its buffer is drained.
ChannelClosed(c) ==
  /\ handler[c] = "serving" /\ closed[c] /\ sseChan[c] = <<>>
  /\ GoTo(c, "returning")
  /\ UNCHANGED <<registryVars, sseChan, closed, closing, connVars,
                 callVars, jobVars, disturbed>>

\* Mutant: the scan stops at the first entry with the node ID.
DeregisterFirstOnly(c) ==
  /\ handler[c] = "returning"
  /\ \E k \in Keys : /\ k[1] = NodeOf[owner[c]] /\ nodes[k] # NoConn
                    /\ closing' = [closing EXCEPT ![c] = nodes[k]]
                    /\ nodes' = [nodes EXCEPT ![k] = NoConn]
  /\ GoTo(c, "closing")
  /\ UNCHANGED <<nodeStatus, requests, sseChan, closed, connVars, callVars,
                 jobVars, disturbed>>

\* Mutant: the entries stay in the map.
DeregisterKeepsEntries(c) ==
  /\ handler[c] = "returning"
  /\ \E k \in Keys : /\ k[1] = NodeOf[owner[c]] /\ nodes[k] # NoConn
                    /\ closing' = [closing EXCEPT ![c] = nodes[k]]
  /\ GoTo(c, "closing")
  /\ UNCHANGED <<registryVars, sseChan, closed, connVars, callVars, jobVars,
                 disturbed>>

\* The deferred DeregisterNode, under the lock: every entry with this node ID
\* goes, whoever made it, and the struct visited last is kept to be closed.
DeregisterNode(c) ==
  /\ handler[c] = "returning"
  /\ LET doomed == {k \in Keys : k[1] = NodeOf[owner[c]] /\ nodes[k] # NoConn}
     IN \/ /\ doomed = {}
           /\ GoTo(c, "gone")
           /\ up' = [up EXCEPT ![c] = FALSE]
           /\ UNCHANGED <<nodes, closing, displaced>>
        \/ /\ \E k \in doomed :
                /\ closing' = [closing EXCEPT ![c] = nodes[k]]
                /\ displaced' = displaced \cup ({nodes[l] : l \in doomed} \ {nodes[k]})
           /\ nodes' = [k \in Keys |-> IF k \in doomed THEN NoConn ELSE nodes[k]]
           /\ GoTo(c, "closing")
           /\ UNCHANGED up
  /\ UNCHANGED <<nodeStatus, requests, sseChan, closed, owner, line,
                 callVars, jobVars, disturbed>>

\* Mutant: the entries go but the channel is left open.
ForgetClose(c) ==
  /\ handler[c] = "closing"
  /\ GoTo(c, "gone")
  /\ up' = [up EXCEPT ![c] = FALSE]
  /\ closing' = [closing EXCEPT ![c] = NoConn]
  /\ UNCHANGED <<registryVars, sseChan, closed, owner, line, displaced, callVars,
                 jobVars, disturbed>>

\* close(node.SSEChan), outside the lock.  Closing twice panics.
CloseChannel(c) ==
  /\ handler[c] = "closing"
  /\ GoTo(c, IF closed[closing[c]] THEN "panicked" ELSE "gone")
  /\ up' = [up EXCEPT ![c] = FALSE]
  /\ closed' = [closed EXCEPT ![closing[c]] = TRUE]
  /\ closing' = [closing EXCEPT ![c] = NoConn]
  /\ UNCHANGED <<registryVars, sseChan, owner, line, displaced, callVars, jobVars,
                 disturbed>>

\* Nothing refers to the connection any more: its identity may be used again.
Recycle(c) ==
  /\ handler[c] = "gone"
  /\ \A d \in Daemons : line[d] # c
  /\ \A r \in Requests : target[r] # c
  /\ \A x \in Conns : closing[x] # c
  /\ c \notin Registered
  /\ GoTo(c, "none")
  /\ nodeStatus' = [nodeStatus EXCEPT ![c] = "idle"]
  /\ sseChan' = [sseChan EXCEPT ![c] = <<>>]
  /\ closed' = [closed EXCEPT ![c] = FALSE]
  /\ owner' = [owner EXCEPT ![c] = NoDaemon]
  /\ displaced' = displaced \ {c}
  /\ UNCHANGED <<nodes, requests, closing, up, line, callVars,
                 jobVars, disturbed>>

-----------------------------------------------------------------------------
(* The reindex tool                                                        *)

\* Mutant: the scan does not compare the codebase.
SendToAnyone(r) ==
  /\ caller[r] = "idle"
  /\ \E c \in Registered : target' = [target EXCEPT ![r] = c]
  /\ requests' = [requests EXCEPT ![r] = "requested"]
  /\ caller' = [caller EXCEPT ![r] = "sending"]
  /\ UNCHANGED <<nodes, nodeStatus, sseChan, closed, handler, closing,
                 connVars, jobVars, disturbed>>

\* SendReindex under the lock: pick any registration for the codebase and
\* record the request, or answer that no indexer serves it.
SendReindex(r) ==
  /\ caller[r] = "idle"
  /\ LET serving == {nodes[k] : k \in {x \in Keys : x[2] = CodebaseOf[r]}}
                      \ {NoConn}
     IN \/ /\ serving = {}
           /\ caller' = [caller EXCEPT ![r] = "refused"]
           /\ UNCHANGED <<target, requests>>
        \/ /\ \E c \in serving : target' = [target EXCEPT ![r] = c]
           /\ requests' = [requests EXCEPT ![r] = "requested"]
           /\ caller' = [caller EXCEPT ![r] = "sending"]
  /\ UNCHANGED <<nodes, nodeStatus, sseChan, closed, handler, closing,
                 connVars, jobVars, disturbed>>

\* The non-blocking send, outside the lock.  On a closed channel it panics,
\* whatever the default branch says; on a full one the default is taken.
SendCommand(r) ==
  /\ caller[r] = "sending"
  /\ LET c == target[r]
     IN \/ /\ closed[c]
           /\ caller' = [caller EXCEPT ![r] = "panicked"]
           /\ UNCHANGED <<sseChan, disturbed>>
        \/ /\ ~closed[c] /\ Len(sseChan[c]) < ChanCap
           /\ sseChan' = [sseChan EXCEPT ![c] = Append(@, r)]
           /\ caller' = [caller EXCEPT ![r] = "done"]
           /\ disturbed' = IF up[c] THEN disturbed ELSE disturbed \cup {r}
        \/ /\ ~closed[c] /\ Len(sseChan[c]) >= ChanCap
           /\ caller' = [caller EXCEPT ![r] = "overflowed"]
           /\ UNCHANGED <<sseChan, disturbed>>
  /\ target' = [target EXCEPT ![r] = NoConn]
  /\ UNCHANGED <<registryVars, closed, handler, closing, connVars,
                 jobVars>>

\* The default branch takes the lock again to record the failure.
RecordOverflow(r) ==
  /\ caller[r] = "overflowed"
  /\ requests' = [requests EXCEPT ![r] = "error"]
  /\ caller' = [caller EXCEPT ![r] = "done"]
  /\ UNCHANGED <<nodes, nodeStatus, sseChan, closed, handler, closing,
                 connVars, target, jobVars, disturbed>>

-----------------------------------------------------------------------------
(* The connection and the daemon                                           *)

\* The handler's loop writes the next command to the stream.  The daemon that
\* reads it starts a goroutine for it if it serves the codebase.
ForwardCommand(c) ==
  /\ handler[c] = "serving" /\ sseChan[c] # <<>>
  /\ sseChan' = [sseChan EXCEPT ![c] = Tail(@)]
  /\ LET r == Head(sseChan[c])
         d == owner[c]
     IN IF up[c] /\ CodebaseOf[r] \in Serves[d]
        THEN /\ job' = [job EXCEPT ![r] = "queued"]
             /\ runner' = [runner EXCEPT ![r] = d]
        ELSE UNCHANGED jobVars
  /\ UNCHANGED <<registryVars, closed, handler, closing, connVars,
                 callVars, disturbed>>

\* Requests that are buffered for, or about to be sent to, a connection.
InFlight(c) == {r \in Requests : \/ target[r] = c
                                 \/ \E i \in DOMAIN sseChan[c] : sseChan[c][i] = r}

\* The network fails: the connection carries nothing from now on.
Drop(c) ==
  /\ up[c]
  /\ up' = [up EXCEPT ![c] = FALSE]
  /\ disturbed' = disturbed \cup InFlight(c)
  /\ UNCHANGED <<registryVars, sseChan, closed, handler, closing,
                 owner, line, displaced, callVars, jobVars>>

\* The daemon's scanner ends: it will dial again.
DaemonNotices(d) ==
  /\ line[d] # NoConn /\ ~up[line[d]]
  /\ line' = [line EXCEPT ![d] = NoConn]
  /\ UNCHANGED <<registryVars, sseChan, closed, handler, closing,
                 owner, up, displaced, callVars, jobVars, disturbed>>

JobsOf(d) == {j \in Jobs : runner[j] = d /\ job[j] \in {"queued", "running"}}

\* The daemon process dies, with its jobs, and is started again.
CrashDaemon(d) ==
  /\ up' = [c \in Conns |-> up[c] /\ line[d] # c]
  /\ line' = [line EXCEPT ![d] = NoConn]
  /\ job' = [j \in Jobs |-> IF j \in JobsOf(d) THEN "dead" ELSE job[j]]
  /\ disturbed' = disturbed \cup JobsOf(d) \cup
                     UNION {InFlight(c) : c \in Conns \cap {line[d]}}
  /\ UNCHANGED <<registryVars, sseChan, closed, handler, closing,
                 owner, displaced, callVars, runner>>

-----------------------------------------------------------------------------
(* Running a job and reporting on it                                       *)

\* Mutant: the node's status is stored in the request's entry.
StatusSwapped(j, d, s) ==
  /\ requests' = [requests EXCEPT ![j] = IF s = "started" THEN "indexing" ELSE "idle"]
  /\ UNCHANGED nodeStatus

\* Mutant: the report is applied to every entry of the codebase.
StatusByCodebase(j, d, s) ==
  /\ requests' = [x \in Jobs |-> IF \/ x = j
                                   \/ /\ CodebaseOf[x] = CodebaseOf[j]
                                      /\ requests[x] # "absent"
                                THEN s ELSE requests[x]]
  /\ UNCHANGED nodeStatus

\* Mutant: the registration is looked up by the node ID alone.
StatusByNodeID(j, d, s) ==
  /\ requests' = [requests EXCEPT ![j] = s]
  /\ LET found == {nodes[k] : k \in {x \in Keys : x[1] = NodeOf[d]}} \ {NoConn}
     IN nodeStatus' =
          [c \in Conns |-> IF found = {} \/ c # (CHOOSE e \in found : TRUE)
                          THEN nodeStatus[c]
                          ELSE IF s = "started" THEN "indexing" ELSE "idle"]

\* UpdateStatus: set the entry (a new one for an unknown request ID), and the
\* status of the registration found under the reporter's node and codebase.
UpdateStatus(j, d, s) ==
  /\ requests' = [requests EXCEPT ![j] = s]
  /\ LET c == nodes[<<NodeOf[d], CodebaseOf[j]>>]
     IN nodeStatus' =
          IF c = NoConn THEN nodeStatus
          ELSE [nodeStatus EXCEPT
                  ![c] = IF s = "started" THEN "indexing" ELSE "idle"]

\* reportStatus: one POST, never retried; a failure is only logged.
ReportStatus(j, d, s) ==
  \/ UpdateStatus(j, d, s) /\ UNCHANGED disturbed
  \/ disturbed' = disturbed \cup {j} /\ UNCHANGED <<requests, nodeStatus>>

\* reindexMu of the daemon's client for a codebase.
ReindexMuFree(d, cb) ==
  \A j \in Jobs : ~(job[j] = "running" /\ runner[j] = d /\ CodebaseOf[j] = cb)

\* handleReindex gets reindexMu and reports that it started.
StartReindex(r) ==
  /\ job[r] = "queued" /\ ReindexMuFree(runner[r], CodebaseOf[r])
  /\ job' = [job EXCEPT ![r] = "running"]
  /\ ReportStatus(r, runner[r], "started")
  /\ UNCHANGED <<nodes, sseChan, closed, handler, closing, connVars,
                 callVars, runner>>

\* processBatch gets reindexMu and reports under a request ID of its own.
StartWatchBatch(w, d) ==
  /\ job[w] = "none" /\ CodebaseOf[w] \in Serves[d]
  /\ ReindexMuFree(d, CodebaseOf[w])
  /\ job' = [job EXCEPT ![w] = "running"]
  /\ runner' = [runner EXCEPT ![w] = d]
  /\ ReportStatus(w, d, "started")
  /\ UNCHANGED <<nodes, sseChan, closed, handler, closing, connVars,
                 callVars>>

\* The pass ends.  A watch batch reports "complete" whatever happened in it.
FinishJob(j) ==
  /\ job[j] = "running"
  /\ job' = [job EXCEPT ![j] = "done"]
  /\ \/ ReportStatus(j, runner[j], "complete")
     \/ j \in Requests /\ ReportStatus(j, runner[j], "error")
  /\ UNCHANGED <<nodes, sseChan, closed, handler, closing, connVars,
                 callVars, runner>>

-----------------------------------------------------------------------------
HandlerStep(c) == \/ Acknowledge(c) \/ Disconnected(c)
                  \/ ChannelClosed(c) \/ DeregisterNode(c) \/ CloseChannel(c)
                  \/ Recycle(c)
CallStep(r) == SendCommand(r) \/ RecordOverflow(r)
Fault == \/ \E c \in Conns : Drop(c)
         \/ \E d \in Daemons : CrashDaemon(d)

Next ==
  \/ \E d \in Daemons, c \in Conns : RegisterNode(d, c)
  \/ \E c \in Conns : HandlerStep(c)
  \/ \E c \in Conns : ForwardCommand(c)
  \/ \E r \in Requests : SendReindex(r)
  \/ \E r \in Requests : CallStep(r)
  \/ \E d \in Daemons : DaemonNotices(d)
  \/ \E r \in Requests : StartReindex(r)
  \/ \E w \in WatchBatches, d \in Daemons : StartWatchBatch(w, d)
  \/ \E j \in Jobs : FinishJob(j)
  \/ Fault

Spec == Init /\ [][Next]_vars

\* The Go scheduler runs every goroutine that can run, a daemon keeps dialling,
\* the loop's select takes a ready channel, and a pass over a codebase ends.
Fairness ==
  /\ \A c \in Conns : /\ WF_vars(HandlerStep(c))
                      /\ WF_vars(ForwardCommand(c))
  /\ \A r \in Requests : WF_vars(CallStep(r)) /\ WF_vars(StartReindex(r))
  /\ \A d \in Daemons : /\ WF_vars(DaemonNotices(d))
                        /\ WF_vars(\E c \in Conns : RegisterNode(d, c))
  /\ \A j \in Jobs : WF_vars(FinishJob(j))

FairSpec == Spec /\ Fairness
-----------------------------------------------------------------------------
(* What must hold                                                          *)

Registering == {"registered", "serving", "returning"}

\* Every entry of the map belongs to a handler that has still to deregister,
\* on an open channel, of a daemon with that node ID that serves the codebase:
\* a registration never outlives its connection, however connections of the
\* same node ID overlap (RegisterNode, DeregisterNode).
RegistrySound ==
  \A k \in Keys : nodes[k] # NoConn =>
    LET c == nodes[k]
    IN /\ handler[c] \in Registering /\ ~closed[c]
       /\ owner[c] \in Daemons
       /\ k[1] = NodeOf[owner[c]] /\ k[2] \in Serves[owner[c]]

\* DeregisterNode never closes a channel that has been closed, although the
\* close happens outside the lock and any handler of the node ID may do it.
ClosedAtMostOnce ==
  /\ \A c \in Conns : handler[c] # "panicked"
  /\ \A c \in Conns : closing[c] # NoConn => ~closed[closing[c]]

\* A command waits only in the channel of a daemon that serves its codebase, in
\* one place, and before anything ran it: dispatchReindex never has to drop a
\* command for an unknown codebase and no request is run twice.
CommandsRouted ==
  /\ \A c \in Conns : \A i \in DOMAIN sseChan[c] :
       LET r == sseChan[c][i]
       IN /\ owner[c] \in Daemons /\ CodebaseOf[r] \in Serves[owner[c]]
          /\ job[r] = "none" /\ requests[r] = "requested"
  /\ \A c, e \in Conns : \A i \in DOMAIN sseChan[c], k \in DOMAIN sseChan[e] :
       sseChan[c][i] = sseChan[e][k] => c = e /\ i = k

Siblings(d) == {e \in Daemons \ {d} : NodeOf[e] = NodeOf[d]}

\* The connection of a daemon that shares its host with another one, which took
\* or removed map entries of it.
Displaced(c) == c \in displaced /\ Siblings(owner[c]) # {}

CutOff(c) == closed[c] \/ \E x \in Conns : closing[x] = c

\* A daemon that is listening on an intact connection is in the registry, or its
\* channel is closed or about to be, so that its handler ends and it dials again
\* ("the SSE channel is closed exactly once", indexer_manager.go:91-93).  Only a
\* sibling, a daemon with the same node ID, can leave it listening in vain.
ListenerIsRegistered ==
  \A c \in Conns :
    handler[c] = "serving" /\ up[c] => c \in Registered \/ CutOff(c) \/ Displaced(c)

\* The jobs that account for a registration being shown as indexing: one on a
\* codebase it serves, from its host, last heard of when it started, which still
\* runs or whose further reports a fault took.
Explains(j, c) ==
  /\ runner[j] \in Daemons /\ NodeOf[runner[j]] = NodeOf[owner[c]]
  /\ CodebaseOf[j] \in Serves[owner[c]]
  /\ requests[j] = "started"
  /\ job[j] = "running" \/ j \in disturbed

\* A registration is shown as indexing only for a job that explains it:
\* "indexing" never sticks without a fault, and a report never moves the state
\* "on a sibling daemon that happens to share the hostname"
\* (indexer_manager.go:206-208) and does not serve the codebase.  A registration
\* that lost entries to a sibling is excepted: reports no longer find it.
BusyForAReason ==
  \A c \in Registered :
    nodeStatus[c] = "indexing" /\ ~Displaced(c) => \E j \in Jobs : Explains(j, c)

\* "channel send is safe outside the lock" (indexer_manager.go:153): no call of
\* the reindex tool sends on a channel DeregisterNode has closed.
SendIsSafeOutsideLock == \A r \in Requests : caller[r] # "panicked"

Lifecycle ==
  INSTANCE ReindexLifecycle WITH Requests <- Requests, WatchBatches <- WatchBatches,
                                 job <- job, requests <- requests

\* Each job is run at most once and its shown status never runs ahead of it or
\* back: the registry and the daemon implement ReindexLifecycle.
ImplementsLifecycle == Lifecycle!Spec

\* A recorded request ends in "complete" or "error", unless a fault touched it or
\* its SendReindex call panicked: no command is forgotten in a channel.
ReindexAnswered ==
  \A r \in Requests :
    requests[r] = "requested" ~>
      (requests[r] \in {"complete", "error"} \/ r \in disturbed
         \/ caller[r] = "panicked")

Routable(d) ==
  \A cb \in Serves[d] : LET c == nodes[<<NodeOf[d], cb>>]
                        IN c # NoConn /\ c = line[d] /\ up[c]

\* Once faults stop, every daemon ends up, for good, reachable under each of its
\* codebases, although the handler of its previous connection may deregister
\* the new one (connectAndListen, the deferred DeregisterNode).
Heals == <>[][~Fault]_vars => \A d \in Daemons : <>[]Routable(d)

-----------------------------------------------------------------------------
(* Strengthenings that the proofs in IndexerRegistryProofs rest on         *)

\* A channel waits to be closed by one handler only; it is out of the map, still
\* open, and its identity is in use.
ClosingSound ==
  \A x \in Conns :
    /\ handler[x] = "closing" <=> closing[x] # NoConn
    /\ closing[x] # NoConn =>
         /\ closing[x] \notin Registered /\ ~closed[closing[x]]
         /\ handler[closing[x]] # "none"
         /\ \A y \in Conns : closing[y] = closing[x] => x = y

\* A connection that is not in use has a fresh channel; one in use has an owner.
UnusedIsFresh ==
  \A c \in Conns :
    IF handler[c] = "none" THEN ~closed[c] ELSE owner[c] \in Daemons

RegistryInv == RegistrySound /\ ClosingSound /\ UnusedIsFresh
               /\ \A c \in Conns : handler[c] # "panicked"

\* A live connection is the one its daemon reads.
LineOfOwner == \A c \in Conns : up[c] => owner[c] \in Daemons /\ line[owner[c]] = c

\* All the entries of a daemon are one registration.
OneRegistrationPerDaemon ==
  \A c, e \in Registered : owner[c] = owner[e] => c = e

\* Only a connection in use, of a daemon with a sibling, is ever displaced.
DisplacedSound ==
  \A c \in displaced : handler[c] # "none" /\ Siblings(owner[c]) # {}

\* A daemon that listens is registered, about to be cut off or displaced, from its
\* registration on.
ListenerInv ==
  /\ LineOfOwner /\ OneRegistrationPerDaemon /\ DisplacedSound
  /\ \A c \in Conns :
       handler[c] \in {"registered", "serving"} /\ up[c] =>
         c \in Registered \/ CutOff(c) \/ c \in displaced

\* A registration that was not displaced holds every entry of its daemon.
WholeRegistrations ==
  \A c \in Registered \ displaced : \A k \in KeysOf(owner[c]) : nodes[k] = c

\* What is shown of the registrations that were not displaced; a connection that
\* is not in use is idle, and a job has a runner from the time it is queued.
BusyInv ==
  /\ WholeRegistrations
  /\ \A c \in Registered \ displaced :
       nodeStatus[c] = "indexing" => \E j \in Jobs : Explains(j, c)
  /\ \A c \in Conns : handler[c] = "none" => nodeStatus[c] = "idle"
  /\ \A j \in Jobs : runner[j] \in Daemons <=> job[j] # "none"
=============================================================================
