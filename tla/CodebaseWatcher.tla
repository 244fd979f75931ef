-------------------------- MODULE CodebaseWatcher --------------------------
(***************************************************************************)
(* A daemon's work on one codebase: the file watcher that collects events  *)
(* and uploads batches of changes (internal/indexer/daemon.go), and full   *)
(* passes over the tree (client.go), serialized by reindexMu.  The server  *)
(* is the map index, changed by one file at a time: what it stores for a   *)
(* file is the subject of FileIndex, how a pass is cut into POSTs that of  *)
(* Uploader.                                                               *)
(*                                                                         *)
(* An event mask is reduced to what processBatch tells apart: "written"    *)
(* for Write or Create and "removed" for Remove or Rename.                 *)
(***************************************************************************)
EXTENDS Naturals, Sequences, FiniteSets

CONSTANTS Files,
          Excluded,   \* files that match exclude_patterns, in watched directories
          Contents,   \* what a file can hold
          Batches,    \* goroutines of processBatch that exist at one time
          QueueCap,   \* events the kernel and fsnotify queue up
          Missing, Nobody, FullPass

Ops == {"written", "removed"}

ASSUME WatcherAssumption ==
  /\ Excluded \subseteq Files
  /\ QueueCap \in Nat \ {0}
  /\ Missing \notin Contents
  /\ Nobody \notin Batches /\ FullPass \notin Batches /\ Nobody # FullPass

VARIABLES
  disk,       \* the tree
  watching,   \* whether the watcher of the daemon process has been started
  events,     \* events the watcher has not received yet
  pending,    \* pendingFiles: the union of the ops of each file
  batch,      \* the map each processBatch took from pendingFiles
  pass,       \* where the full pass stands
  walked,     \* the files of its walk that are still to be uploaded
  reindexMu,  \* who holds it
  index,      \* what the server has for each file
  recreated,  \* history: files written while their removal was unprocessed
  faulted     \* history: files a change of which was lost to a fault

watchVars == <<watching, events, pending, batch>>
passVars  == <<pass, walked>>
vars == <<disk, watchVars, passVars, reindexMu, index, recreated, faulted>>

NoEvents == [f \in Files |-> {}]

TypeOK ==
  /\ disk \in [Files -> Contents \cup {Missing}]
  /\ watching \in BOOLEAN
  /\ events \in Seq(Files \X Ops) /\ Len(events) <= QueueCap
  /\ pending \in [Files -> SUBSET Ops]
  /\ batch \in [Batches -> [Files -> SUBSET Ops]]
  /\ pass \in {"idle", "waiting", "collecting", "uploading"}
  /\ walked \in SUBSET Files
  /\ reindexMu \in Batches \cup {Nobody, FullPass}
  /\ reindexMu = FullPass <=> pass \in {"collecting", "uploading"}
  /\ index \in [Files -> Contents \cup {Missing}]
  /\ recreated \in SUBSET Files /\ faulted \in SUBSET Files

\* The daemon starts with any tree, over whatever earlier daemons have indexed of
\* the files that are not excluded.
Init ==
  /\ disk \in [Files -> Contents \cup {Missing}]
  /\ watching = FALSE
  /\ events = <<>>
  /\ pending = NoEvents
  /\ batch = [b \in Batches |-> NoEvents]
  /\ pass = "waiting"
  /\ walked = {}
  /\ reindexMu = Nobody
  /\ index \in {i \in [Files -> Contents \cup {Missing}] :
                 \A f \in Excluded : i[f] = Missing}
  /\ recreated = {} /\ faulted = {}

-----------------------------------------------------------------------------
(* The tree and the watcher                                                *)

Unprocessed(f, op) ==
  \/ \E i \in DOMAIN events : events[i] = <<f, op>>
  \/ op \in pending[f]
  \/ \E b \in Batches : op \in batch[b][f]

\* The running pass has yet to see the file: it will bring this change.
PassWillSee(f, v) ==
  \/ pass = "waiting"
  \/ pass \in {"collecting", "uploading"} /\ f \in walked /\ v # Missing

\* Somebody writes, creates or removes a file.  Without a watcher nothing tells
\* the daemon; with a full queue the event is dropped and an error logged.
Change(f, v) ==
  /\ v # disk[f]
  /\ disk' = [disk EXCEPT ![f] = v]
  /\ IF watching /\ Len(events) < QueueCap
     THEN /\ events' = Append(events, <<f, IF v = Missing THEN "removed" ELSE "written">>)
          /\ UNCHANGED faulted
     ELSE /\ faulted' = IF ~watching /\ PassWillSee(f, v) THEN faulted
                        ELSE faulted \cup {f}
          /\ UNCHANGED events
  /\ recreated' = IF v # Missing /\ Unprocessed(f, "removed")
                  THEN recreated \cup {f} ELSE recreated
  /\ UNCHANGED <<watching, pending, batch, passVars, reindexMu, index>>

\* cw.run takes an event; debounceTimer runs whenever a file is pending.
ReceiveEvent ==
  /\ watching /\ events # <<>>
  /\ LET e == Head(events)
     IN pending' = [pending EXCEPT ![e[1]] = @ \cup {e[2]}]
  /\ events' = Tail(events)
  /\ UNCHANGED <<disk, watching, batch, passVars, reindexMu, index, recreated,
                 faulted>>

\* The timer fires: processBatch swaps the map before it asks for reindexMu.
TakeBatch(b) ==
  /\ pending # NoEvents /\ batch[b] = NoEvents /\ reindexMu # b
  /\ batch' = [batch EXCEPT ![b] = pending]
  /\ pending' = NoEvents
  /\ UNCHANGED <<disk, watching, events, passVars, reindexMu, index, recreated,
                 faulted>>

\* Mutant: the batch does not wait for the mutex.
LockBatchAnyway(b) ==
  /\ batch[b] # NoEvents /\ reindexMu # b
  /\ reindexMu' = b
  /\ UNCHANGED <<disk, watchVars, passVars, index, recreated, faulted>>

\* A mutex does not promise the order in which waiting batches get it.
LockBatch(b) ==
  /\ batch[b] # NoEvents /\ reindexMu = Nobody
  /\ reindexMu' = b
  /\ UNCHANGED <<disk, watchVars, passVars, index, recreated, faulted>>

\* Mutant: only a mask without any write counts as a removal.
ProcessFileWriteFirst(b, f) ==
  /\ reindexMu = b /\ batch[b][f] # {}
  /\ index' = [index EXCEPT ![f] = IF "written" \notin batch[b][f] \/ disk[f] # Missing
                                   THEN disk[f] ELSE @]
  /\ batch' = [batch EXCEPT ![b][f] = {}]
  /\ UNCHANGED <<disk, watching, events, pending, passVars, reindexMu, recreated,
                 faulted>>

\* One file of a batch: a mask with a removal deletes it on the server, whatever
\* else is in the mask; any other reads and uploads it, excluded or not.  The
\* error of a read or of a request is logged and the event is gone.
ProcessFile(b, f) ==
  /\ reindexMu = b /\ batch[b][f] # {}
  /\ \/ /\ "removed" \in batch[b][f]
        /\ index' = [index EXCEPT ![f] = Missing]
        /\ UNCHANGED faulted
     \/ /\ "removed" \notin batch[b][f]
        /\ index' = IF disk[f] = Missing THEN index
                    ELSE [index EXCEPT ![f] = disk[f]]
        /\ UNCHANGED faulted
     \/ /\ faulted' = faulted \cup {f}
        /\ UNCHANGED index
  /\ batch' = [batch EXCEPT ![b][f] = {}]
  /\ UNCHANGED <<disk, watching, events, pending, passVars, reindexMu, recreated>>

UnlockBatch(b) ==
  /\ reindexMu = b /\ batch[b] = NoEvents
  /\ reindexMu' = Nobody
  /\ UNCHANGED <<disk, watchVars, passVars, index, recreated, faulted>>

-----------------------------------------------------------------------------
(* Full passes                                                             *)

\* dispatchReindex starts a goroutine for a command of the server.
RequestPass ==
  /\ watching /\ pass = "idle"
  /\ pass' = "waiting"
  /\ UNCHANGED <<disk, watchVars, walked, reindexMu, index, recreated, faulted>>

\* handleReindex takes reindexMu and fullIndex walks the tree.
Walk ==
  /\ pass = "waiting" /\ reindexMu = Nobody
  /\ reindexMu' = FullPass
  /\ pass' = "collecting"
  /\ walked' = {f \in Files \ Excluded : disk[f] # Missing}
  /\ UNCHANGED <<disk, watchVars, index, recreated, faulted>>

\* A full pass brings a file up to date for good, unless the removal of an
\* earlier incarnation of it is still to be carried out.
Repaired(fs) == {f \in fs : ~Unprocessed(f, "removed")}

\* postGC with the walk as keep list; its error is logged and the pass goes on.
CollectOrphans ==
  /\ pass = "collecting"
  /\ pass' = "uploading"
  /\ \/ /\ index' = [f \in Files |-> IF f \in walked THEN index[f] ELSE Missing]
        /\ UNCHANGED faulted
     \/ /\ faulted' = faulted \cup {f \in Files \ walked : index[f] # Missing}
        /\ UNCHANGED index
  /\ UNCHANGED <<disk, watchVars, walked, reindexMu, recreated>>

\* A file of the walk is read and uploaded; one that is gone is skipped.
UploadFile(f) ==
  /\ pass = "uploading" /\ f \in walked
  /\ walked' = walked \ {f}
  /\ \/ /\ index' = IF disk[f] = Missing THEN index ELSE [index EXCEPT ![f] = disk[f]]
        /\ IF disk[f] = Missing THEN UNCHANGED <<recreated, faulted>>
           ELSE /\ recreated' = recreated \ Repaired({f})
                /\ faulted' = faulted \ Repaired({f})
     \/ /\ faulted' = faulted \cup {f}
        /\ UNCHANGED <<index, recreated>>
  /\ UNCHANGED <<disk, watchVars, pass, reindexMu>>

\* Mutant: the unlock is not deferred.
EndPassLocked ==
  /\ pass = "uploading" /\ walked = {}
  /\ pass' = "idle"
  /\ watching' = TRUE
  /\ UNCHANGED <<disk, events, pending, batch, walked, reindexMu, index, recreated,
                 faulted>>

\* The pass is over.  The daemon's first pass is followed by the watcher.
EndPass ==
  /\ pass = "uploading" /\ walked = {}
  /\ pass' = "idle"
  /\ reindexMu' = Nobody
  /\ watching' = TRUE
  /\ UNCHANGED <<disk, events, pending, batch, walked, index, recreated, faulted>>

\* A batch of the pass cannot be posted: the rest of the walk is given up.
PassFails ==
  /\ pass = "uploading" /\ walked # {}
  /\ pass' = "idle"
  /\ walked' = {}
  /\ reindexMu' = Nobody
  /\ watching' = TRUE
  /\ faulted' = faulted \cup walked
  /\ UNCHANGED <<disk, events, pending, batch, index, recreated>>

\* The daemon process stops and starts again with a full pass.
Restart ==
  /\ watching' = FALSE
  /\ events' = <<>> /\ pending' = NoEvents
  /\ batch' = [b \in Batches |-> NoEvents]
  /\ pass' = "waiting" /\ walked' = {}
  /\ reindexMu' = Nobody
  /\ UNCHANGED <<disk, index, recreated, faulted>>

-----------------------------------------------------------------------------
BatchStep(b) == \/ LockBatch(b) \/ UnlockBatch(b)
                \/ \E f \in Files : ProcessFile(b, f)
PassStep == \/ Walk \/ CollectOrphans \/ EndPass
            \/ \E f \in Files : UploadFile(f)

Disturbance ==
  \/ \E f \in Files, v \in Contents \cup {Missing} : Change(f, v)
  \/ RequestPass \/ PassFails \/ Restart

Next ==
  \/ Disturbance
  \/ ReceiveEvent
  \/ \E b \in Batches : TakeBatch(b) \/ BatchStep(b)
  \/ PassStep

Spec == Init /\ [][Next]_vars

\* The watcher's loop and every goroutine run, the debounce timer fires once no
\* event re-arms it, and a request to the server is answered or fails.
Fairness ==
  /\ WF_vars(ReceiveEvent) /\ WF_vars(PassStep)
  /\ \A b \in Batches : WF_vars(TakeBatch(b)) /\ WF_vars(BatchStep(b))

FairSpec == Spec /\ Fairness

-----------------------------------------------------------------------------
(* What must hold                                                          *)

\* Nothing is on its way from the tree to the server.
Settled ==
  /\ watching /\ events = <<>> /\ pending = NoEvents
  /\ \A b \in Batches : batch[b] = NoEvents
  /\ pass = "idle" /\ reindexMu = Nobody

\* When the daemon has settled, the server has exactly the files of the tree,
\* as they are, whatever changes, batches and passes overlapped; only a file
\* with a lost event or request, or one that was written again before its
\* removal had been processed, can differ, and the next full pass repairs it.
IndexMirrorsTree ==
  Settled => \A f \in Files \ (Excluded \cup recreated \cup faulted) :
               index[f] = disk[f]

\* Once the tree is left alone and no pass is asked for or fails, the index ends up
\* mirroring it for good: no batch waits forever for reindexMu, no event stays.
Converges ==
  <>[][~Disturbance]_vars =>
    <>[](\A f \in Files \ (Excluded \cup recreated \cup faulted) : index[f] = disk[f])
=============================================================================
