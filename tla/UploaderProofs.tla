--------------------------- MODULE UploaderProofs ---------------------------
(***************************************************************************)
(* Proofs about Uploader for a walk of any length, any sizes and limits:   *)
(* type correctness, that a pass that ends without an error has linked     *)
(* what it read, and that a POST is bounded.                               *)
(***************************************************************************)
EXTENDS Uploader, FiniteSetTheorems, TLAPS

\* The variables of the server hold files.
ServerTyped ==
  /\ stored \in SUBSET Files /\ buffered \in SUBSET Files
  /\ linked \in SUBSET Files /\ dropped \in SUBSET Files

\* Serving some of a batch keeps them so.
LEMMA ServeTyped ==
  ASSUME TypeOK, NEW done \in SUBSET batch, NEW finalized, Serve(done, finalized)
  PROVE  ServerTyped'
<1>1. Fresh(done) \in SUBSET Files
  BY DEF Fresh, TypeOK
<1> QED BY <1>1 DEF Serve, ServerTyped, TypeOK

\* So does a POST whose answer does not arrive.
LEMMA ServePartlyTyped == TypeOK /\ ServePartly => ServerTyped'
<1> SUFFICES ASSUME TypeOK, ServePartly PROVE ServerTyped'
  OBVIOUS
<1>1. CASE UNCHANGED serverVars
  BY <1>1 DEF serverVars, TypeOK, ServerTyped
<1>2. CASE \E done \in SUBSET batch, finalized \in BOOLEAN : Serve(done, finalized)
  BY <1>2, ServeTyped
<1> QED BY <1>1, <1>2 DEF ServePartly

\* No step leaves the ranges of the variables; the attempts of a POST stay within
\* the retry policy's.
LEMMA TypeStep == TypeOK /\ [Next]_vars => TypeOK'
<1> SUFFICES ASSUME TypeOK, [Next]_vars PROVE TypeOK'
  OBVIOUS
<1> USE UploaderAssumption DEF TypeOK, Files, clientVars, serverVars
<1>1. CASE ReadFile
  <2>1. next \in Files /\ SizeOf[next] \in Nat
    BY <1>1 DEF ReadFile
  <2>2. pc' \in {"posting", "reading"}
    BY <1>1, Zenon DEF ReadFile
  <2> QED BY <1>1, <2>1, <2>2 DEF ReadFile
<1>2. CASE ReadFails
  BY <1>2 DEF ReadFails
<1>3. CASE EndOfLoop
  BY <1>3 DEF EndOfLoop
<1>4. CASE Answered
  <2>1. PICK done \in SUBSET batch : /\ Serve(done, TRUE)
                                    /\ failed' = failed \cup (batch \ done)
    BY <1>4 DEF Answered
  <2>2. ServerTyped'
    BY <2>1, ServeTyped
  <2>3. failed' \in SUBSET Files /\ posted' \in SUBSET Files
    BY <1>4, <2>1 DEF Answered
  <2>4. /\ batch' = {} /\ batchBytes' = 0 /\ attempt' = 1
        /\ next' = next /\ read' = read
        /\ pc' \in {"ok", "reading"}
    BY <1>4 DEF Answered
  <2> QED BY <2>2, <2>3, <2>4 DEF ServerTyped
<1>5. CASE Retry
  <2>1. attempt' \in 1..MaxAttempts
    BY <1>5 DEF Retry
  <2>2. ServerTyped'
    BY <1>5, ServePartlyTyped DEF Retry
  <2> QED BY <1>5, <2>1, <2>2 DEF Retry, ServerTyped
<1>6. CASE PostFails
  <2>1. ServerTyped'
    BY <1>6, ServePartlyTyped DEF PostFails
  <2> QED BY <1>6, <2>1 DEF PostFails, ServerTyped
<1>7. CASE RestartServer
  BY <1>7 DEF RestartServer
<1>8. CASE UNCHANGED vars
  BY <1>8 DEF vars
<1> QED BY <1>1, <1>2, <1>3, <1>4, <1>5, <1>6, <1>7, <1>8 DEF Next

\* Every variable of a pass (fullIndex and the server's buffer) keeps its range.
THEOREM TypeCorrect == Spec => []TypeOK
<1>1. Init => TypeOK
  <2>1. 1 \in 1..(N + 1) /\ 1 \in 1..MaxAttempts
    BY UploaderAssumption
  <2> QED BY <2>1 DEF Init, TypeOK
<1> QED BY <1>1, TypeStep, PTL DEF Spec

-----------------------------------------------------------------------------
(* Everything that is read is linked                                       *)

\* What serving a batch, in part or not, does to the server's side of PassInv: it
\* loses no file between stored and linked, and after a final batch none waits.
LEMMA ServeKeeps ==
  ASSUME stored \subseteq linked \cup buffered \cup dropped,
         NEW done, NEW finalized \in BOOLEAN, Serve(done, finalized)
  PROVE  /\ (stored \subseteq linked \cup buffered \cup dropped)'
         /\ stored \subseteq stored' /\ done \subseteq stored'
         /\ Final => buffered' = {}
<1>1. done \subseteq stored \cup Fresh(done)
  BY DEF Fresh
<1> QED BY <1>1 DEF Serve

\* So does a POST whose answer does not arrive.
LEMMA ServePartlyKeeps ==
  ASSUME stored \subseteq linked \cup buffered \cup dropped, ServePartly
  PROVE  /\ (stored \subseteq linked \cup buffered \cup dropped)'
         /\ stored \subseteq stored'
         /\ Final /\ buffered = {} => buffered' = {}
<1>1. CASE UNCHANGED serverVars
  BY <1>1 DEF serverVars
<1>2. CASE \E done \in SUBSET batch, finalized \in BOOLEAN : Serve(done, finalized)
  BY <1>2, ServeKeeps
<1> QED BY <1>1, <1>2 DEF ServePartly

\* Each step of a pass keeps PassInv: the one that reads the last file posts it,
\* and the POST of the last file is the one that is final.
LEMMA PassStep == TypeOK /\ PassInv /\ [Next]_vars => PassInv'
<1> SUFFICES ASSUME TypeOK, PassInv, [Next]_vars PROVE PassInv'
  OBVIOUS
<1> USE UploaderAssumption DEF TypeOK, PassInv, LastFileRead, Files, clientVars,
                               serverVars
<1>1. CASE ReadFile
  <2>1. /\ next \in Files /\ next' = next + 1
        /\ batch' = batch \cup {next} /\ read' = read \cup {next}
        /\ UNCHANGED <<posted, failed, stored, linked, buffered, dropped>>
        /\ pc = "reading"
    BY <1>1 DEF ReadFile
  <2>2. pc' \in {"reading", "posting"} /\ (next = N => pc' = "posting")
    BY <1>1, Zenon DEF ReadFile, MustFlush
  <2> QED BY <2>1, <2>2
<1>2. CASE ReadFails
  BY <1>2 DEF ReadFails
<1>3. CASE EndOfLoop
  BY <1>3 DEF EndOfLoop
<1>4. CASE Answered
  <2>1. PICK done \in SUBSET batch : /\ Serve(done, TRUE)
                                    /\ failed' = failed \cup (batch \ done)
    BY <1>4 DEF Answered
  <2>2. /\ (stored \subseteq linked \cup buffered \cup dropped)'
        /\ stored \subseteq stored' /\ done \subseteq stored'
        /\ Final => buffered' = {}
    BY <2>1, ServeKeeps
  <2>3. /\ batch' = {} /\ posted' = posted \cup batch
        /\ next' = next /\ read' = read
        /\ pc' = IF pc = "closing" THEN "ok" ELSE "reading"
        /\ pc \in {"posting", "closing"}
    BY <1>4 DEF Answered, Posting
  <2>4. (posted \ failed)' \subseteq stored'
    BY <2>1, <2>2, <2>3
  <2> QED BY <2>2, <2>3, <2>4 DEF Final
<1>5. CASE Retry
  <2>1. /\ (stored \subseteq linked \cup buffered \cup dropped)'
        /\ stored \subseteq stored'
    BY <1>5, ServePartlyKeeps DEF Retry
  <2> QED BY <1>5, <2>1 DEF Retry, Posting
<1>6. CASE PostFails
  <2>1. /\ (stored \subseteq linked \cup buffered \cup dropped)'
        /\ stored \subseteq stored'
    BY <1>6, ServePartlyKeeps DEF PostFails
  <2> QED BY <1>6, <2>1 DEF PostFails, Posting
<1>7. CASE RestartServer
  BY <1>7 DEF RestartServer
<1>8. CASE UNCHANGED vars
  BY <1>8 DEF vars
<1> QED BY <1>1, <1>2, <1>3, <1>4, <1>5, <1>6, <1>7, <1>8 DEF Next

\* The strengthening holds throughout a pass.
THEOREM PassInvariant == Spec => []PassInv
<1>1. Init => PassInv
  BY UploaderAssumption DEF Init, PassInv
<1> QED BY <1>1, PassStep, TypeCorrect, PTL DEF Spec

\* A pass of fullIndex that returns no error, with its last file readable, has
\* stored and linked every file it could read and that was not counted as failed
\* or dropped by the server, for a walk of any length, incremental or not, and
\* however often a POST was retried.
THEOREM PassLinksEverything == Spec => []EverythingLinked
<1>1. TypeOK /\ PassInv => EverythingLinked
  BY DEF TypeOK, PassInv, EverythingLinked
<1> QED BY <1>1, TypeCorrect, PassInvariant, PTL

-----------------------------------------------------------------------------
(* A POST is bounded                                                       *)

\* Between two files the batch is below both limits; it has a last file, and while
\* it is posted only that one can have taken it over the limit on bytes.
BoundInv ==
  /\ IsFiniteSet(batch) /\ batch \subseteq 1..(next - 1)
  /\ batch # {} => \E f \in batch : /\ \A g \in batch : g <= f
                                    /\ SizeOf[f] <= batchBytes
                                    /\ Posting => batchBytes - SizeOf[f] < MaxBytes
  /\ pc = "reading" => Cardinality(batch) < MaxFiles /\ batchBytes < MaxBytes
  /\ Posting => Cardinality(batch) <= MaxFiles

\* Only ReadFile grows a batch, by one file that is not in it.
LEMMA BoundStep == TypeOK /\ BoundInv /\ [Next]_vars => BoundInv'
<1> SUFFICES ASSUME TypeOK, BoundInv, [Next]_vars PROVE BoundInv'
  OBVIOUS
<1> USE UploaderAssumption DEF TypeOK, Files, clientVars, serverVars
<1>1. CASE ReadFile
  <2>1. /\ next \in Files /\ next' = next + 1 /\ pc = "reading"
        /\ batch' = batch \cup {next}
        /\ batchBytes' = batchBytes + SizeOf[next] /\ SizeOf[next] \in Nat
        /\ next \notin batch
    BY <1>1 DEF ReadFile, BoundInv
  <2>2. /\ IsFiniteSet(batch) /\ Cardinality(batch) \in Nat
        /\ Cardinality(batch) < MaxFiles /\ batchBytes < MaxBytes
    BY <2>1, FS_CardinalityType DEF BoundInv
  <2>3. IsFiniteSet(batch') /\ Cardinality(batch') = Cardinality(batch) + 1
    BY <2>1, <2>2, FS_AddElement
  <2>4. batch' \subseteq 1..(next' - 1)
    BY <2>1 DEF BoundInv
  <2>5. \/ pc' = "posting"
        \/ /\ pc' = "reading" /\ ~(Cardinality(batch') >= MaxFiles)
           /\ ~(batchBytes' >= MaxBytes)
    BY <1>1, Zenon DEF ReadFile, MustFlush
  <2>6. /\ \A g \in batch' : g <= next
        /\ SizeOf[next] <= batchBytes' /\ batchBytes' - SizeOf[next] < MaxBytes
    BY <2>1, <2>2, <2>4
  <2>7. batchBytes' \in Nat /\ Cardinality(batch') \in Nat
    BY <2>1, <2>2, <2>3
  <2>8. \E f \in batch' : /\ \A g \in batch' : g <= f
                          /\ SizeOf[f] <= batchBytes'
                          /\ batchBytes' - SizeOf[f] < MaxBytes
    <3>1. next \in batch'
      BY <2>1
    <3> QED BY <3>1, <2>6
  <2>9. pc' = "reading" => Cardinality(batch') < MaxFiles /\ batchBytes' < MaxBytes
    BY <2>5, <2>7
  <2>10. Cardinality(batch') <= MaxFiles
    BY <2>2, <2>3
  <2> QED BY <2>3, <2>4, <2>8, <2>9, <2>10, Zenon DEF BoundInv
<1>2. CASE ReadFails
  BY <1>2 DEF ReadFails, BoundInv, Posting
<1>3. CASE EndOfLoop
  <2>1. /\ pc = "reading" /\ pc' \in {"closing", "ok"}
        /\ UNCHANGED <<next, batch, batchBytes>>
    BY <1>3 DEF EndOfLoop
  <2>2. IsFiniteSet(batch) /\ Cardinality(batch) \in Nat
    BY FS_CardinalityType DEF BoundInv
  <2>3. /\ Cardinality(batch) < MaxFiles /\ batchBytes < MaxBytes
        /\ batch \subseteq 1..(next - 1)
    BY <2>1 DEF BoundInv
  <2>4. batch # {} => \E f \in batch : /\ \A g \in batch : g <= f
                                       /\ SizeOf[f] <= batchBytes
                                       /\ batchBytes - SizeOf[f] < MaxBytes
    <3>1. ASSUME batch # {}
          PROVE \E f \in batch : /\ \A g \in batch : g <= f
                                 /\ SizeOf[f] <= batchBytes
                                 /\ batchBytes - SizeOf[f] < MaxBytes
      <4>1. PICK f \in batch : (\A g \in batch : g <= f) /\ SizeOf[f] <= batchBytes
        BY <3>1 DEF BoundInv
      <4>2. SizeOf[f] \in Nat
        OBVIOUS
      <4> QED BY <4>1, <4>2, <2>3
    <3> QED BY <3>1
  <2>5. Cardinality(batch) <= MaxFiles
    BY <2>2, <2>3
  <2> QED BY <2>1, <2>2, <2>3, <2>4, <2>5 DEF BoundInv, Posting
<1>4. CASE Answered
  <2>1. batch' = {} /\ batchBytes' = 0 /\ next' = next
    BY <1>4 DEF Answered
  <2>2. pc' \in {"ok", "reading"}
    BY <1>4 DEF Answered
  <2>3. IsFiniteSet({}) /\ Cardinality({}) = 0
    BY FS_EmptySet
  <2> QED BY <2>1, <2>2, <2>3 DEF BoundInv, Posting
<1>5. CASE Retry
  BY <1>5 DEF Retry, BoundInv, Posting
<1>6. CASE PostFails
  BY <1>6 DEF PostFails, BoundInv, Posting
<1>7. CASE RestartServer
  BY <1>7 DEF RestartServer, BoundInv, Posting
<1>8. CASE UNCHANGED vars
  BY <1>8 DEF vars, BoundInv, Posting
<1> QED BY <1>1, <1>2, <1>3, <1>4, <1>5, <1>6, <1>7, <1>8 DEF Next

\* No POST carries more than uploadBatchMaxFiles files and, without the file that
\* filled it, uploadBatchMaxBytes or more, whatever is retried or unreadable.
THEOREM PostsAreBounded == Spec => []BatchBounded
<1>1. Init => BoundInv
  <2>1. IsFiniteSet({}) /\ Cardinality({}) = 0
    BY FS_EmptySet
  <2> QED BY <2>1, UploaderAssumption DEF Init, BoundInv, Posting
<1>2. BoundInv => BatchBounded
  BY DEF BoundInv, BatchBounded
<1> QED BY <1>1, <1>2, BoundStep, TypeCorrect, PTL DEF Spec
=============================================================================
