-------------------------- MODULE ReindexLifecycle --------------------------
(***************************************************************************)
(* What the reindex machinery promises, said without channels, handlers or *)
(* connections: a job (a reindex an MCP client asked for, or a batch of    *)
(* watch events) is run at most once, and the status the server shows for  *)
(* it may lag behind the job but never runs ahead of it, never goes back   *)
(* and never leaves a terminal value.  IndexerRegistry implements it.      *)
(***************************************************************************)
CONSTANTS Requests,      \* reindex requests issued by MCP clients
          WatchBatches   \* batches a daemon's file watcher starts by itself

VARIABLES job,           \* what happened to the job on the daemon
          requests       \* the status the server shows for it

vars == <<job, requests>>

Jobs == Requests \cup WatchBatches

JobStates == {"none", "queued", "running", "done", "dead"}
Statuses  == {"absent", "requested", "started", "complete", "error"}
Terminal  == {"complete", "error"}

Init == /\ job = [j \in Jobs |-> "none"]
        /\ requests = [j \in Jobs |-> "absent"]

Show(j, s) == requests' = [requests EXCEPT ![j] = s]

Accept(r) == /\ job[r] = "none" /\ requests[r] = "absent"
             /\ Show(r, "requested")
             /\ UNCHANGED job

\* A request nobody will run is answered with an error, and nobody runs it.
GiveUp(r) == /\ job[r] = "none" /\ requests[r] = "requested"
             /\ Show(r, "error")
             /\ UNCHANGED job

Queue(r) == /\ job[r] = "none" /\ requests[r] = "requested"
            /\ job' = [job EXCEPT ![r] = "queued"]
            /\ UNCHANGED requests

Begin(j) == /\ \/ j \in Requests /\ job[j] = "queued"
               \/ j \in WatchBatches /\ job[j] = "none"
            /\ job' = [job EXCEPT ![j] = "running"]
            /\ Show(j, "started") \/ UNCHANGED requests

End(j) == /\ job[j] = "running"
          /\ job' = [job EXCEPT ![j] = "done"]
          /\ UNCHANGED requests \/ \E s \in Terminal : Show(j, s)

\* The daemon dies with the jobs J it had accepted.
Die(J) == /\ \A j \in J : job[j] \in {"queued", "running"}
          /\ job' = [j \in Jobs |-> IF j \in J THEN "dead" ELSE job[j]]
          /\ UNCHANGED requests

Next == \/ \E r \in Requests : Accept(r) \/ GiveUp(r) \/ Queue(r)
        \/ \E j \in Jobs : Begin(j) \/ End(j)
        \/ \E J \in SUBSET Jobs : Die(J)

Spec == Init /\ [][Next]_vars
=============================================================================
