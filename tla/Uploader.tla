------------------------------ MODULE Uploader ------------------------------
(***************************************************************************)
(* One full pass of an indexer client (fullIndex in                        *)
(* internal/indexer/client.go): the files of the walk are read in order,   *)
(* gathered into batches and posted under one request ID; the batch that   *)
(* is marked final makes the server link what it has buffered under that   *)
(* ID.  A POST is retried by internal/httpretry, so the server may serve   *)
(* one batch more than once.  Files are the positions 1..N of the walk.    *)
(***************************************************************************)
EXTENDS Naturals, FiniteSets

CONSTANTS N,            \* files in the walk
          SizeOf,       \* bytes of each file
          MayBeUnreadable,
          Incremental,  \* a file the server has is answered as unchanged
          MaxFiles,     \* uploadBatchMaxFiles (64)
          MaxBytes,     \* uploadBatchMaxBytes (4 MiB)
          MaxAttempts   \* of httpretry.DefaultPolicy (4)

Files == 1..N

ASSUME UploaderAssumption ==
  /\ N \in Nat /\ SizeOf \in [Files -> Nat] /\ MayBeUnreadable \subseteq Files
  /\ Incremental \in BOOLEAN
  /\ MaxFiles \in Nat \ {0} /\ MaxBytes \in Nat \ {0} /\ MaxAttempts \in Nat \ {0}

VARIABLES
  pc,          \* "reading", "posting", "closing" (the last flush), "ok" or "error"
  next,        \* the file the loop reads next
  batch,       \* files read and not posted
  batchBytes,
  posted,      \* files of the POSTs that were answered: filesPosted counts them
  failed,      \* files counted as failed, by the client or in an answer
  attempt,     \* of the POST in hand
  read,        \* history: files that could be read
  stored,      \* server: files it has indexed as they are
  buffered,    \* server: files whose relationships wait in the RelBuffer
  linked,      \* server: files whose relationships were finalized
  dropped      \* history: files whose buffered relationships the server lost

clientVars == <<pc, next, batch, batchBytes, posted, failed, attempt, read>>
serverVars == <<stored, buffered, linked, dropped>>
vars == <<clientVars, serverVars>>

TypeOK ==
  /\ pc \in {"reading", "posting", "closing", "ok", "error"}
  /\ next \in 1..(N + 1)
  /\ batch \in SUBSET Files /\ batchBytes \in Nat
  /\ posted \in SUBSET Files /\ failed \in SUBSET Files
  /\ attempt \in 1..MaxAttempts
  /\ read \in SUBSET Files
  /\ stored \in SUBSET Files /\ buffered \in SUBSET Files
  /\ linked \in SUBSET Files /\ dropped \in SUBSET Files

\* Earlier passes have brought, and linked, some of the files as they are now.
Init ==
  /\ pc = "reading" /\ next = 1
  /\ batch = {} /\ batchBytes = 0
  /\ posted = {} /\ failed = {} /\ attempt = 1 /\ read = {}
  /\ stored \in SUBSET Files /\ linked = stored
  /\ buffered = {} /\ dropped = {}

-----------------------------------------------------------------------------
(* The client's loop                                                       *)

\* Mutant: a batch may grow past the limit by one.
MustFlushLate(files, bytes, atEnd) ==
  Cardinality(files) > MaxFiles \/ bytes >= MaxBytes \/ atEnd

\* The batch is posted when it is full, or when the last file has joined it.
MustFlush(files, bytes, atEnd) ==
  Cardinality(files) >= MaxFiles \/ bytes >= MaxBytes \/ atEnd

ReadFile ==
  /\ pc = "reading" /\ next <= N
  /\ batch' = batch \cup {next}
  /\ batchBytes' = batchBytes + SizeOf[next]
  /\ read' = read \cup {next}
  /\ pc' = IF MustFlush(batch', batchBytes', next = N) THEN "posting" ELSE pc
  /\ next' = next + 1
  /\ UNCHANGED <<posted, failed, attempt, serverVars>>

\* The file is logged and passed over, the check for a full batch with it.
ReadFails ==
  /\ pc = "reading" /\ next <= N /\ next \in MayBeUnreadable
  /\ next' = next + 1
  /\ failed' = failed \cup {next}
  /\ UNCHANGED <<pc, batch, batchBytes, posted, attempt, read, serverVars>>

\* After the loop: only a pass that has posted nothing sends a final batch.
EndOfLoop ==
  /\ pc = "reading" /\ next > N
  /\ pc' = IF posted = {} THEN "closing" ELSE "ok"
  /\ UNCHANGED <<next, batch, batchBytes, posted, failed, attempt, read, serverVars>>

-----------------------------------------------------------------------------
(* A POST                                                                  *)

Posting == pc \in {"posting", "closing"}

\* final=true: the POST in which the last file went, or the one after the loop.
Final == next > N

\* The files of done that IndexFile indexes; the rest of done are unchanged.
Fresh(done) == IF Incremental THEN done \ stored ELSE done

\* Mutant: the buffer is not kept from one batch to the next.
ServeDropping(done, finalized) ==
  /\ stored' = stored \cup done
  /\ buffered' = IF Final THEN {} ELSE Fresh(done)
  /\ linked' = IF Final /\ finalized THEN linked \cup buffered \cup Fresh(done)
               ELSE linked
  /\ dropped' = IF Final /\ ~finalized THEN dropped \cup buffered \cup Fresh(done)
                ELSE dropped

\* handleIndexerFiles: IndexFile succeeds for the files of done, and what it had to
\* index is buffered under the request ID.  A final batch drains the buffer and
\* drops it before FinalizeRelationships, which may fail.
Serve(done, finalized) ==
  /\ stored' = stored \cup done
  /\ buffered' = IF Final THEN {} ELSE buffered \cup Fresh(done)
  /\ linked' = IF Final /\ finalized THEN linked \cup buffered \cup Fresh(done)
               ELSE linked
  /\ dropped' = IF Final /\ ~finalized THEN dropped \cup buffered \cup Fresh(done)
                ELSE dropped

\* Whatever the server may have done for a POST whose answer does not arrive.
ServePartly ==
  \/ UNCHANGED serverVars
  \/ \E done \in SUBSET batch, finalized \in BOOLEAN : Serve(done, finalized)

\* The POST is answered without an error: flush resets the batch.
Answered ==
  /\ Posting
  /\ \E done \in SUBSET batch : /\ Serve(done, TRUE)
                                /\ failed' = failed \cup (batch \ done)
  /\ posted' = posted \cup batch
  /\ batch' = {} /\ batchBytes' = 0 /\ attempt' = 1
  /\ pc' = IF pc = "closing" THEN "ok" ELSE "reading"
  /\ UNCHANGED <<next, read>>

\* Mutant: the attempts are not limited.
RetryForever ==
  /\ Posting
  /\ attempt' = attempt + 1
  /\ ServePartly
  /\ UNCHANGED <<pc, next, batch, batchBytes, posted, failed, read>>

\* A connection that breaks or a 5xx: the next attempt posts the same batch.
Retry ==
  /\ Posting /\ attempt < MaxAttempts
  /\ attempt' = attempt + 1
  /\ ServePartly
  /\ UNCHANGED <<pc, next, batch, batchBytes, posted, failed, read>>

\* The last attempt, a 4xx or the client's own timeout, or an answer that says the
\* relationships could not be finalized: the pass ends there.
PostFails ==
  /\ Posting
  /\ pc' = "error"
  /\ ServePartly
  /\ UNCHANGED <<next, batch, batchBytes, posted, failed, attempt, read>>

\* The buffers are in memory only.
RestartServer ==
  /\ pc \notin {"ok", "error"}
  /\ buffered' = {}
  /\ dropped' = dropped \cup buffered
  /\ UNCHANGED <<clientVars, stored, linked>>

Next == \/ ReadFile \/ ReadFails \/ EndOfLoop
        \/ Answered \/ Retry \/ PostFails
        \/ RestartServer

Spec == Init /\ [][Next]_vars

-----------------------------------------------------------------------------
(* What must hold                                                          *)

LastFileRead == N = 0 \/ N \in read

\* A pass that ends without an error, with its last file readable, has stored and
\* linked every file it could read, whichever POSTs were retried, served twice or
\* served in part; only a file counted as failed, or one whose relationships the
\* server lost before it had linked them, can be missing.
EverythingLinked ==
  pc = "ok" /\ LastFileRead =>
    /\ read \ failed \subseteq stored
    /\ read \ (failed \cup dropped) \subseteq linked

\* A POST carries at most MaxFiles files and, without the file that filled it,
\* less than MaxBytes.
BatchBounded ==
  Posting => /\ Cardinality(batch) <= MaxFiles
             /\ batch # {} =>
                  \E f \in batch : /\ \A g \in batch : g <= f
                                   /\ batchBytes - SizeOf[f] < MaxBytes

-----------------------------------------------------------------------------
(* The strengthening of EverythingLinked                                   *)

\* What was read is posted or still in the batch; what is stored is linked, waits
\* in the buffer or was dropped; after the POST of the last file nothing waits.
PassInv ==
  /\ read \subseteq 1..(next - 1) /\ batch \subseteq read
  /\ read \subseteq posted \cup batch
  /\ posted \ failed \subseteq stored
  /\ stored \subseteq linked \cup buffered \cup dropped
  /\ pc = "reading" /\ next > N /\ LastFileRead /\ posted # {} =>
       batch = {} /\ buffered = {}
  /\ pc = "closing" => next > N
  /\ pc = "ok" /\ LastFileRead => batch = {} /\ buffered = {}
=============================================================================
