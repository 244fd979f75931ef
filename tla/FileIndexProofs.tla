-------------------------- MODULE FileIndexProofs --------------------------
(***************************************************************************)
(* Safety of the indexing pipeline, for any codebases, paths, contents and *)
(* symbols, any batches, and any number of requests that the server works  *)
(* on at one time, whether they overlap or not.                            *)
(***************************************************************************)
EXTENDS FileIndex, TLAPS

-----------------------------------------------------------------------------
(* Type correctness                                                        *)

IndexWork == [step : IndexSteps, kind : Uploads, codebase : Codebases,
              path : Paths, content : Contents, todo : SUBSET (Paths \X Contents)]
DropWork  == [step : DropSteps, kind : Drops, codebase : Codebases, path : Paths,
              content : {NoContent}, todo : SUBSET (Paths \X {NoContent})]

\* What a handler has in hand follows from the store call it makes next.
LEMMA WorkOf ==
  ASSUME TypeOK, NEW h \in Handlers
  PROVE  /\ handler[h].step \in IndexSteps => handler[h] \in IndexWork
         /\ handler[h].step \in DropSteps => handler[h] \in DropWork
         /\ Busy(h) <=> handler[h].step \in IndexSteps \cup DropSteps
         /\ Busy(h) \/ handler[h] = Idle
         /\ Busy(h) => /\ handler[h] \in IndexWork \cup DropWork
                       /\ handler[h].codebase \in Codebases /\ handler[h].path \in Paths
                       /\ FileOf(h) \in Files
<1>1. handler[h] \in IndexWork \/ handler[h] \in DropWork \/ handler[h] = Idle
  BY DEF TypeOK, Work, IndexWork, DropWork
<1>2. CASE handler[h] \in IndexWork
  BY <1>2 DEF IndexWork, IndexSteps, DropSteps, Busy, FileOf, Files
<1>3. CASE handler[h] \in DropWork
  BY <1>3 DEF DropWork, IndexSteps, DropSteps, Busy, FileOf, Files
<1>4. CASE handler[h] = Idle
  BY <1>4 DEF Idle, IndexSteps, DropSteps, Busy
<1>5. QED
  BY <1>1, <1>2, <1>3, <1>4

\* What a handler touches are files.
LEMMA TouchesFiles ==
  ASSUME TypeOK, NEW h \in Handlers
  PROVE  Touched(h) \subseteq Files
<1>1. CASE Busy(h)
  <2>1. /\ handler[h].codebase \in Codebases /\ FileOf(h) \in Files
        /\ handler[h] \in IndexWork \cup DropWork
    BY <1>1, WorkOf
  <2>2. \A t \in handler[h].todo : t[1] \in Paths
    <3>1. CASE handler[h] \in IndexWork
      BY <3>1 DEF IndexWork
    <3>2. CASE handler[h] \in DropWork
      BY <3>2 DEF DropWork
    <3>3. QED
      BY <2>1, <3>1, <3>2
  <2>3. QED
    BY <2>1, <2>2 DEF Touched, Files
<1>2. CASE ~Busy(h)
  BY <1>2 DEF Touched
<1>3. QED
  BY <1>1, <1>2

\* A row that is written is a row of the codebase that asked for it or of the one
\* that had it, what is deleted leaves no row, and points are contents.
LEMMA UpsertTyped ==
  ASSUME NEW table \in Table, NEW cb \in Codebases, NEW v \in Contents, NEW ids
  PROVE  Upsert(table, cb, ids, v) \in Table
<1>1. \A i \in SymbolIDs : table[i] # NoRow => [table[i] EXCEPT !.content = v] \in Row
  BY DEF Table, Row
<1>2. [codebase |-> cb, content |-> v] \in Row
  BY DEF Row
<1>3. QED
  BY <1>1, <1>2 DEF Upsert, Table

\* What a delete leaves is a table.
LEMMA DeleteTyped ==
  ASSUME NEW table \in Table, NEW cb, NEW p, NEW ids
  PROVE  DeleteRows(table, cb, p, ids) \in Table
BY DEF DeleteRows, Table

\* The points of a collection stay contents, whether deleted ...
LEMMA DeletedPoints ==
  ASSUME TypeOK, NEW cb \in Codebases, NEW p
  PROVE  DeleteByFilter(cb, p) \in [Codebases -> [SymbolIDs -> Contents \cup {NoContent}]]
<1>1. vectors[cb] \in [SymbolIDs -> Contents \cup {NoContent}]
  BY DEF TypeOK
<1>2. [i \in SymbolIDs |-> IF PathOf[i] = p THEN NoContent ELSE vectors[cb][i]]
           \in [SymbolIDs -> Contents \cup {NoContent}]
  BY <1>1
<1>3. QED
  BY <1>2 DEF TypeOK, DeleteByFilter

\* ... or upserted.
LEMMA UpsertedPoints ==
  ASSUME TypeOK, NEW cb \in Codebases, NEW ids, NEW v \in Contents
  PROVE  UpsertPoints(cb, ids, v) \in [Codebases -> [SymbolIDs -> Contents \cup {NoContent}]]
<1>1. vectors[cb] \in [SymbolIDs -> Contents \cup {NoContent}]
  BY DEF TypeOK
<1>2. [i \in SymbolIDs |-> IF i \in ids THEN v ELSE vectors[cb][i]]
           \in [SymbolIDs -> Contents \cup {NoContent}]
  BY <1>1
<1>3. QED
  BY <1>2 DEF TypeOK, UpsertPoints

\* The files whose rows an upsert meets, and its own, are files.
LEMMA StruckAreFiles ==
  ASSUME TypeOK, FileIndexAssumption, NEW h \in Handlers, handler[h].step \in IndexSteps,
         NEW table \in Table
  PROVE  Struck(h, table) \subseteq Files
<1>1. handler[h] \in IndexWork /\ FileOf(h) \in Files
  BY WorkOf
<1>2. KeepIDs(h) \subseteq SymbolIDs
  BY <1>1, FileIndexAssumption DEF IndexWork, KeepIDs
<1>3. \A i \in SymbolIDs : table[i].codebase # NoCodebase =>
        <<table[i].codebase, PathOf[i]>> \in Files
  BY FileIndexAssumption DEF Table, Row, NoRow, Files
<1>4. QED
  BY <1>1, <1>2, <1>3 DEF Struck

\* The work a handler takes up next is the rest of its batch.
NextWork(w, t) == [w EXCEPT !.step = FirstCall(w.kind), !.path = t[1],
                            !.content = t[2], !.todo = @ \ {t}]

\* It is work of the same codebase, and nothing of it has been done.
LEMMA NextMoved ==
  ASSUME NEW w \in IndexWork \cup DropWork, NEW t \in w.todo
  PROVE  /\ NextWork(w, t) \in IndexWork \cup DropWork
         /\ NextWork(w, t).step \in {"getHash", "dropRows"}
         /\ NextWork(w, t).codebase = w.codebase
         /\ NextWork(w, t).path = t[1]
         /\ NextWork(w, t).todo = w.todo \ {t}
<1>1. CASE w \in IndexWork
  <2>1. /\ FirstCall(w.kind) = "getHash" /\ "getHash" \in IndexSteps
        /\ t[1] \in Paths /\ t[2] \in Contents
    BY <1>1 DEF IndexWork, FirstCall, IndexSteps
  <2>2. NextWork(w, t) \in IndexWork
    BY <1>1, <2>1 DEF IndexWork, NextWork
  <2>3. QED
    BY <1>1, <2>1, <2>2 DEF IndexWork, NextWork
<1>2. CASE w \in DropWork
  <2>1. /\ FirstCall(w.kind) = "dropRows" /\ "dropRows" \in DropSteps
        /\ t[1] \in Paths /\ t[2] = NoContent
    BY <1>2 DEF DropWork, FirstCall, DropSteps, Drops, Uploads
  <2>2. NextWork(w, t) \in DropWork
    BY <1>2, <2>1 DEF DropWork, NextWork
  <2>3. QED
    BY <1>2, <2>1, <2>2 DEF DropWork, NextWork
<1>3. QED
  BY <1>1, <1>2

\* The next file of a batch, or the end of it.
LEMMA NextTyped ==
  ASSUME TypeOK, NEW h \in Handlers, Busy(h), NextFile(h)
  PROVE  handler' \in [Handlers -> Work \cup {Idle}]
<1>1. handler[h] \in IndexWork \cup DropWork
  BY WorkOf
<1>2. CASE handler[h].todo = {}
  BY <1>2 DEF NextFile, Release, TypeOK
<1>3. CASE handler[h].todo # {}
  <2>1. PICK t \in handler[h].todo : handler' = [handler EXCEPT ![h] = NextWork(handler[h], t)]
    BY <1>3 DEF NextFile, NextWork, TypeOK
  <2>2. NextWork(handler[h], t) \in IndexWork \cup DropWork
    BY <1>1, NextMoved
  <2>3. QED
    BY <2>1, <2>2 DEF TypeOK, Work, IndexWork, DropWork
<1>4. QED
  BY <1>2, <1>3

\* A handler that takes up the next store call of a file.
LEMMA GotoTyped ==
  ASSUME TypeOK, NEW h \in Handlers, NEW s,
         \/ handler[h].step \in IndexSteps /\ s \in IndexSteps
         \/ handler[h].step \in DropSteps /\ s = "dropVectors",
         Goto(h, s)
  PROVE  handler' \in [Handlers -> Work \cup {Idle}]
<1>1. handler' = [handler EXCEPT ![h] = [handler[h] EXCEPT !.step = s]]
  BY DEF Goto, TypeOK
<1>2. [handler[h] EXCEPT !.step = s] \in IndexWork \cup DropWork
  <2>1. CASE handler[h].step \in IndexSteps /\ s \in IndexSteps
    <3>1. handler[h] \in IndexWork
      BY <2>1, WorkOf
    <3>2. [handler[h] EXCEPT !.step = s] \in IndexWork
      BY <2>1, <3>1 DEF IndexWork
    <3>3. QED
      BY <3>2
  <2>2. CASE handler[h].step \in DropSteps /\ s = "dropVectors"
    <3>1. handler[h] \in DropWork
      BY <2>2, WorkOf
    <3>2. [handler[h] EXCEPT !.step = s] \in DropWork
      BY <2>2, <3>1 DEF DropWork, DropSteps
    <3>3. QED
      BY <3>2
  <2>3. QED
    BY <2>1, <2>2
<1>3. QED
  BY <1>1, <1>2 DEF TypeOK, Work, IndexWork, DropWork

\* A request begins with one of its files, and has the others to do.
LEMMA PostTyped ==
  ASSUME TypeOK, NEW h \in Handlers, NEW kind, NEW cb \in Codebases, NEW work,
         \/ kind \in Uploads /\ work \subseteq Paths \X Contents
         \/ kind \in Drops /\ work \subseteq Paths \X {NoContent},
         Post(h, kind, cb, work)
  PROVE  TypeOK'
<1>1. PICK t \in work : handler' = [handler EXCEPT ![h] =
        [step |-> FirstCall(kind), kind |-> kind, codebase |-> cb, path |-> t[1],
         content |-> t[2], todo |-> work \ {t}]]
  BY DEF Post
<1>2. [step |-> FirstCall(kind), kind |-> kind, codebase |-> cb, path |-> t[1],
       content |-> t[2], todo |-> work \ {t}] \in Work
  <2>1. CASE kind \in Uploads /\ work \subseteq Paths \X Contents
    <3>1. FirstCall(kind) \in IndexSteps /\ t[1] \in Paths /\ t[2] \in Contents
      BY <2>1 DEF FirstCall, IndexSteps
    <3>2. QED
      BY <2>1, <3>1 DEF Work
  <2>2. CASE kind \in Drops /\ work \subseteq Paths \X {NoContent}
    <3>1. FirstCall(kind) \in DropSteps /\ t[1] \in Paths /\ t[2] = NoContent
      BY <2>2 DEF FirstCall, DropSteps, Drops, Uploads
    <3>2. QED
      BY <2>2, <3>1 DEF Work
  <2>3. QED
    BY <2>1, <2>2
<1>3. handler' \in [Handlers -> Work \cup {Idle}]
  BY <1>1, <1>2 DEF TypeOK
<1>4. UNION {Touched(x) : x \in Handlers} \subseteq Files
  BY TouchesFiles
<1>5. QED
  BY <1>3, <1>4 DEF Post, Disturb, stores, TypeOK

\* Every variable keeps its type: a handler's work has the shape of the store call
\* it makes next, and rows and points are of contents that exist.
THEOREM IndexTypeCorrect == Spec => []TypeOK
<1> USE FileIndexAssumption
<1>1. Init => TypeOK
  BY DEF Init, TypeOK, Table, NoRow, Files
<1>2. TypeOK /\ [Next]_vars => TypeOK'
  <2> SUFFICES ASSUME TypeOK, [Next]_vars PROVE TypeOK'
    OBVIOUS
  <2> USE DEF stores, history
  <2>1. ASSUME NEW h \in Handlers, Request(h)
        PROVE  TypeOK'
    <3>1. PICK cb \in Codebases, files \in SUBSET Paths :
            \/ \E kind \in Uploads, new \in [files -> Contents] :
                 IndexFiles(h, kind, cb, files, new)
            \/ GC(h, cb, files)
            \/ Delete(h, cb, files)
      BY <2>1, Zenon DEF Request
    <3>2. ASSUME NEW kind \in Uploads, NEW new \in [files -> Contents],
                 IndexFiles(h, kind, cb, files, new)
          PROVE  TypeOK'
      <4>1. {<<p, new[p]>> : p \in files} \subseteq Paths \X Contents
        OBVIOUS
      <4>2. QED
        BY <3>2, <4>1, PostTyped DEF IndexFiles
    <3>3. CASE GC(h, cb, files)
      <4>1. {p \in Paths \ files : fileState[<<cb, p>>] # NoContent} \X {NoContent}
              \subseteq Paths \X {NoContent}
        OBVIOUS
      <4>2. QED
        BY <3>3, <4>1, PostTyped DEF GC, Drops
    <3>4. CASE Delete(h, cb, files)
      <4>1. files \X {NoContent} \subseteq Paths \X {NoContent}
        OBVIOUS
      <4>2. QED
        BY <3>4, <4>1, PostTyped DEF Delete, Drops
    <3>5. QED
      BY <3>1, <3>2, <3>3, <3>4
  <2>2. ASSUME NEW h \in Handlers, SkipUnchanged(h)
        PROVE  TypeOK'
    <3>1. handler[h] \in IndexWork /\ Busy(h)
      BY <2>2, WorkOf DEF SkipUnchanged, At, IndexSteps
    <3>2. handler' \in [Handlers -> Work \cup {Idle}]
      BY <2>2, <3>1, NextTyped DEF SkipUnchanged
    <3>3. acknowledged' \in [Files -> Contents \cup {NoContent}]
      BY <2>2, <3>1 DEF SkipUnchanged, TypeOK, IndexWork
    <3>4. QED
      BY <2>2, <3>2, <3>3 DEF SkipUnchanged, TypeOK
  <2>3. ASSUME NEW h \in Handlers, StartIndexing(h)
        PROVE  TypeOK'
    <3>1. handler' \in [Handlers -> Work \cup {Idle}]
      BY <2>3, GotoTyped DEF StartIndexing, At, IndexSteps
    <3>2. QED
      BY <2>3, <3>1 DEF StartIndexing, TypeOK
  <2>4. ASSUME NEW h \in Handlers, UpsertSymbols(h)
        PROVE  TypeOK'
    <3>1. handler[h] \in IndexWork /\ handler[h].step \in IndexSteps /\ FileOf(h) \in Files
      BY <2>4, WorkOf DEF UpsertSymbols, At, IndexSteps
    <3>2. symbols' \in Table
      BY <2>4, <3>1, UpsertTyped DEF UpsertSymbols, TypeOK, IndexWork
    <3>3. handler' \in [Handlers -> Work \cup {Idle}]
      BY <2>4, <3>1, GotoTyped DEF UpsertSymbols, IndexSteps
    <3>4. Struck(h, symbols) \subseteq Files /\ BeginRewrite(h) \subseteq Files
      BY <3>1, StruckAreFiles DEF TypeOK, BeginRewrite
    <3>5. QED
      BY <2>4, <3>2, <3>3, <3>4 DEF UpsertSymbols, TypeOK
  <2>5. ASSUME NEW h \in Handlers, UpsertChunks(h)
        PROVE  TypeOK'
    <3>1. handler[h] \in IndexWork /\ handler[h].step \in IndexSteps
      BY <2>5, WorkOf DEF UpsertChunks, At, IndexSteps
    <3>2. chunks' \in Table
      BY <2>5, <3>1, UpsertTyped DEF UpsertChunks, TypeOK, IndexWork
    <3>3. handler' \in [Handlers -> Work \cup {Idle}]
      BY <2>5, <3>1, GotoTyped DEF UpsertChunks, IndexSteps
    <3>4. Struck(h, chunks) \subseteq Files
      BY <3>1, StruckAreFiles DEF TypeOK
    <3>5. QED
      BY <2>5, <3>2, <3>3, <3>4 DEF UpsertChunks, TypeOK
  <2>6. ASSUME NEW h \in Handlers, DeleteVectors(h) \/ UpsertVectors(h)
        PROVE  TypeOK'
    <3>1. handler[h] \in IndexWork /\ handler[h].step \in IndexSteps
      BY <2>6, WorkOf DEF DeleteVectors, UpsertVectors, At, IndexSteps
    <3>2. \E s \in IndexSteps : Goto(h, s)
      BY <2>6 DEF DeleteVectors, UpsertVectors, IndexSteps
    <3>3. handler' \in [Handlers -> Work \cup {Idle}]
      BY <3>1, <3>2, GotoTyped
    <3>4. handler[h].codebase \in Codebases /\ handler[h].content \in Contents
      BY <3>1 DEF IndexWork
    <3>5. vectors' \in [Codebases -> [SymbolIDs -> Contents \cup {NoContent}]]
      <4>1. CASE DeleteVectors(h)
        <5>1. vectors' = DeleteByFilter(handler[h].codebase, handler[h].path)
          BY <4>1 DEF DeleteVectors
        <5>2. QED
          BY <3>4, <5>1, DeletedPoints
      <4>2. CASE UpsertVectors(h)
        <5>1. vectors' = UpsertPoints(handler[h].codebase, KeepIDs(h), handler[h].content)
          BY <4>2 DEF UpsertVectors
        <5>2. QED
          BY <3>4, <5>1, UpsertedPoints
      <4>3. QED
        BY <2>6, <4>1, <4>2
    <3>6. QED
      BY <2>6, <3>3, <3>5 DEF DeleteVectors, UpsertVectors, TypeOK
  <2>7. ASSUME NEW h \in Handlers, CleanupStaleFileData(h)
        PROVE  TypeOK'
    <3>1. handler' \in [Handlers -> Work \cup {Idle}]
      BY <2>7, GotoTyped DEF CleanupStaleFileData, At, IndexSteps
    <3>2. symbols' \in Table /\ chunks' \in Table
      BY <2>7, DeleteTyped DEF CleanupStaleFileData, TypeOK
    <3>3. QED
      BY <2>7, <3>1, <3>2 DEF CleanupStaleFileData, TypeOK
  <2>8. ASSUME NEW h \in Handlers, SetFileState(h)
        PROVE  TypeOK'
    <3>1. handler[h] \in IndexWork /\ Busy(h)
      BY <2>8, WorkOf DEF SetFileState, At, IndexSteps
    <3>2. handler' \in [Handlers -> Work \cup {Idle}]
      BY <2>8, <3>1, NextTyped DEF SetFileState
    <3>3. handler[h].content \in Contents
      BY <3>1 DEF IndexWork
    <3>4. QED
      BY <2>8, <3>2, <3>3 DEF SetFileState, TypeOK
  <2>9. ASSUME NEW h \in Handlers, DeleteFileData(h)
        PROVE  TypeOK'
    <3>1. handler[h].step \in DropSteps
      BY <2>9 DEF DeleteFileData, At, DropSteps
    <3>2. handler' \in [Handlers -> Work \cup {Idle}]
      BY <2>9, <3>1, GotoTyped DEF DeleteFileData
    <3>3. symbols' \in Table /\ chunks' \in Table
      BY <2>9, DeleteTyped DEF DeleteFileData, TypeOK
    <3>4. QED
      BY <2>9, <3>2, <3>3 DEF DeleteFileData, TypeOK
  <2>10. ASSUME NEW h \in Handlers, DropVectors(h)
        PROVE  TypeOK'
    <3>1. Busy(h) /\ handler[h].codebase \in Codebases
      BY <2>10, WorkOf DEF DropVectors, At, DropSteps
    <3>2. vectors' \in [Codebases -> [SymbolIDs -> Contents \cup {NoContent}]]
      BY <2>10, <3>1, DeletedPoints DEF DropVectors
    <3>3. handler' \in [Handlers -> Work \cup {Idle}]
      BY <2>10, <3>1, NextTyped DEF DropVectors
    <3>4. QED
      BY <2>10, <3>2, <3>3 DEF DropVectors, TypeOK
  <2>11. ASSUME NEW h \in Handlers, DeleteVectorsFails(h)
        PROVE  TypeOK'
    <3>1. handler[h].step \in IndexSteps /\ "upsertVectors" \in IndexSteps
      BY <2>11 DEF DeleteVectorsFails, At, IndexSteps
    <3>2. handler' \in [Handlers -> Work \cup {Idle}]
      BY <2>11, <3>1, GotoTyped DEF DeleteVectorsFails
    <3>3. FileOf(h) \in Files
      BY <3>1, WorkOf
    <3>4. QED
      BY <2>11, <3>2, <3>3 DEF DeleteVectorsFails, Disturb, TypeOK
  <2>12. ASSUME NEW h \in Handlers, IndexFails(h)
         PROVE  TypeOK'
    <3>1. FileOf(h) \in Files /\ Busy(h)
      BY <2>12, WorkOf DEF IndexFails
    <3>2. handler' \in [Handlers -> Work \cup {Idle}]
      BY <2>12, <3>1, NextTyped DEF IndexFails
    <3>3. QED
      BY <2>12, <3>1, <3>2 DEF IndexFails, Disturb, TypeOK
  <2>13. ASSUME NEW h \in Handlers, DeleteFileDataFails(h)
         PROVE  TypeOK'
    <3>1. handler[h].step \in DropSteps
      BY <2>13 DEF DeleteFileDataFails, At, DropSteps
    <3>2. FileOf(h) \in Files /\ Busy(h)
      BY <3>1, WorkOf
    <3>3. handler' \in [Handlers -> Work \cup {Idle}]
      BY <2>13, <3>1, <3>2, GotoTyped, NextTyped DEF DeleteFileDataFails
    <3>4. QED
      BY <2>13, <3>2, <3>3 DEF DeleteFileDataFails, Disturb, TypeOK
  <2>14. ASSUME NEW h \in Handlers, DropVectorsFails(h)
         PROVE  TypeOK'
    <3>1. FileOf(h) \in Files /\ Busy(h)
      BY <2>14, WorkOf DEF DropVectorsFails, At, DropSteps
    <3>2. handler' \in [Handlers -> Work \cup {Idle}]
      BY <2>14, <3>1, NextTyped DEF DropVectorsFails
    <3>3. QED
      BY <2>14, <3>1, <3>2 DEF DropVectorsFails, Disturb, TypeOK
  <2>15. CASE CrashServer
    <3>1. \A h \in Handlers : Begun(h) => FileOf(h) \in Files
      BY WorkOf DEF Begun, Busy
    <3>2. QED
      BY <2>15, <3>1 DEF CrashServer, Disturb, TypeOK
  <2>16. CASE UNCHANGED vars
    BY <2>16 DEF vars, TypeOK
  <2>17. QED
    BY <2>1, <2>2, <2>3, <2>4, <2>5, <2>6, <2>7, <2>8, <2>9, <2>10, <2>11, <2>12,
       <2>13, <2>14, <2>15, <2>16
    DEF Next, StoreCall, Fault
<1>3. QED
  BY <1>1, <1>2, PTL DEF Spec

-----------------------------------------------------------------------------
(* The invariant of the pipeline                                           *)

\* The steps of an upload that has written something.
Later == IndexSteps \ {"getHash", "upsertSymbols"}

Shaken == disturbed \cup collided

\* The files that two requests touch are known to be disturbed; a file is being
\* rewritten only while one request, that has it to itself, writes it; and every
\* upload that has begun to write a file that is not shaken is rewriting it.
Exclusive ==
  /\ \A g, h \in Handlers : g # h => Touched(g) \cap Touched(h) \subseteq disturbed
  /\ \A f \in rewriting : \E h \in Handlers :
       /\ handler[h].step \in Later /\ FileOf(h) = f
       /\ \A g \in Handlers : g # h => f \notin Touched(g)
  /\ \A h \in Handlers : handler[h].step \in Later /\ FileOf(h) \notin Shaken =>
       FileOf(h) \in rewriting

\* What a request that rewrites a file has got done.
HasRows(table, f, v) ==
  \A i \in SymbolsOf[f[2]][v] : table[i] = [codebase |-> f[1], content |-> v]

Written(h) ==
  handler[h].step \in Later /\ FileOf(h) \in rewriting =>
    LET f == FileOf(h)
        v == handler[h].content
    IN /\ HasRows(symbols, f, v)
       /\ At(h, "upsertVectors") => PointsAre(f, NoContent)
       /\ handler[h].step \in {"upsertChunks", "cleanup", "setState"} => PointsAre(f, v)
       /\ At(h, "cleanup") => HasRows(chunks, f, v)
       /\ At(h, "setState") => RowsAre(symbols, f, v) /\ RowsAre(chunks, f, v)

\* A file that no request has begun to write or drop matches its recorded state;
\* one whose rows are dropped has only its vectors left; in every other file a
\* vector has a symbol row.
Matches(f) ==
  /\ acknowledged[f] = fileState[f] \/ Chunkless(f, acknowledged[f])
  /\ RowsAre(symbols, f, fileState[f])
  /\ RowsAre(chunks, f, fileState[f])
  /\ PointsAre(f, fileState[f])

Dropped(f) == /\ RowsAre(symbols, f, NoContent) /\ RowsAre(chunks, f, NoContent)
              /\ fileState[f] = NoContent /\ acknowledged[f] = NoContent

Backed(f) ==
  \A i \in SymbolIDs : PathOf[i] = f[2] /\ vectors[f[1]][i] # NoContent =>
                         symbols[i].codebase = f[1]

Dropping(f) == \E h \in Handlers : At(h, "dropVectors") /\ FileOf(h) = f

CleanFile(f) == /\ Quiet(f) => Matches(f)
                /\ IF Dropping(f) THEN Dropped(f) ELSE Backed(f)

FileInv == /\ Exclusive
           /\ \A h \in Handlers : Written(h)
           /\ \A f \in Files \ Shaken : CleanFile(f)

-----------------------------------------------------------------------------
(* What the store calls do to the rows of a file                           *)

\* A file is its codebase and its path.
LEMMA FilePair ==
  ASSUME NEW f \in Files, NEW g \in Files
  PROVE  /\ f[1] \in Codebases /\ f[2] \in Paths
         /\ f # g => f[1] # g[1] \/ f[2] # g[2]
BY DEF Files

\* An upsert that meets no row of another codebase leaves its own rows, and no
\* other row changes.
LEMMA UpsertRows ==
  ASSUME NEW table \in Table, NEW cb \in Codebases, NEW v, NEW ids,
         NEW i \in SymbolIDs
  PROVE  /\ i \notin ids => Upsert(table, cb, ids, v)[i] = table[i]
         /\ i \in ids /\ table[i].codebase \in {NoCodebase, cb} /\ cb # NoCodebase
              /\ NoCodebase \notin Codebases =>
              Upsert(table, cb, ids, v)[i] = [codebase |-> cb, content |-> v]
         /\ i \in ids /\ table[i] # NoRow =>
              Upsert(table, cb, ids, v)[i].codebase = table[i].codebase
         /\ i \in ids /\ table[i] = NoRow =>
              Upsert(table, cb, ids, v)[i].codebase = cb
<1>1. CASE i \in ids /\ table[i] # NoRow
  <2>1. table[i] \in Row
    BY <1>1 DEF Table
  <2>2. Upsert(table, cb, ids, v)[i] = [codebase |-> table[i].codebase, content |-> v]
    BY <1>1, <2>1 DEF Upsert, Row
  <2>3. table[i].codebase \in Codebases
    BY <2>1 DEF Row
  <2>4. table[i].codebase \in {NoCodebase, cb} /\ NoCodebase \notin Codebases =>
          table[i].codebase = cb
    BY <2>3
  <2>5. QED
    BY <1>1, <2>2, <2>3, <2>4
<1>2. CASE i \in ids /\ table[i] = NoRow
  BY <1>2 DEF Upsert
<1>3. CASE i \notin ids
  BY <1>3 DEF Upsert
<1>4. QED
  BY <1>1, <1>2, <1>3

\* What a step leaves of a file: its rows, and no row of another codebase becomes
\* one of its own.
SameRows(old, new, f) ==
  \A i \in SymbolIDs : PathOf[i] = f[2] =>
    \/ new[i] = old[i]
    \/ new[i].codebase # f[1] /\ old[i].codebase # f[1]

SameFile(f) ==
  /\ SameRows(symbols, symbols', f) /\ SameRows(chunks, chunks', f)
  /\ \A i \in SymbolIDs : PathOf[i] = f[2] => vectors'[f[1]][i] = vectors[f[1]][i]
  /\ fileState'[f] = fileState[f] /\ acknowledged'[f] = acknowledged[f]

\* What is said of the rows of a file is said of those of its codebase.
LEMMA SameRowsKept ==
  ASSUME NEW old, NEW new, NEW f, SameRows(old, new, f)
  PROVE  /\ \A v : RowsAre(old, f, v) => RowsAre(new, f, v)
         /\ \A v : SymbolsOf[f[2]][v] \subseteq {i \in SymbolIDs : PathOf[i] = f[2]}
                     /\ HasRows(old, f, v) => HasRows(new, f, v)
<1>1. ASSUME NEW v, RowsAre(old, f, v) PROVE RowsAre(new, f, v)
  <2>1. SUFFICES ASSUME NEW i \in SymbolIDs, PathOf[i] = f[2]
                 PROVE  IF v # NoContent /\ i \in SymbolsOf[f[2]][v]
                        THEN new[i] = [codebase |-> f[1], content |-> v]
                        ELSE new[i].codebase # f[1]
    BY DEF RowsAre
  <2>2. IF v # NoContent /\ i \in SymbolsOf[f[2]][v]
        THEN old[i] = [codebase |-> f[1], content |-> v]
        ELSE old[i].codebase # f[1]
    BY <1>1, <2>1 DEF RowsAre
  <2>3. \/ new[i] = old[i]
        \/ new[i].codebase # f[1] /\ old[i].codebase # f[1]
    BY <2>1 DEF SameRows
  <2>4. QED
    BY <2>2, <2>3
<1>2. ASSUME NEW v, SymbolsOf[f[2]][v] \subseteq {i \in SymbolIDs : PathOf[i] = f[2]},
             HasRows(old, f, v)
      PROVE  HasRows(new, f, v)
  <2>1. SUFFICES ASSUME NEW i \in SymbolsOf[f[2]][v]
                 PROVE  new[i] = [codebase |-> f[1], content |-> v]
    BY DEF HasRows
  <2>2. i \in SymbolIDs /\ PathOf[i] = f[2] /\ old[i] = [codebase |-> f[1], content |-> v]
    BY <1>2 DEF HasRows
  <2>3. new[i] = old[i] \/ old[i].codebase # f[1]
    BY <2>2 DEF SameRows
  <2>4. QED
    BY <2>2, <2>3
<1>3. QED
  BY <1>1, <1>2

\* What is said of one file follows from its rows, points and records alone.
LEMMA SameFileKept ==
  ASSUME NEW f \in Files, SameFile(f)
  PROVE  /\ Matches(f) => Matches(f)'
         /\ Dropped(f) => Dropped(f)'
         /\ Backed(f) => Backed(f)'
<1>1. \A v : /\ RowsAre(symbols, f, v) => RowsAre(symbols', f, v)
             /\ RowsAre(chunks, f, v) => RowsAre(chunks', f, v)
  BY SameRowsKept DEF SameFile
<1>2. \A v : PointsAre(f, v) => PointsAre(f, v)'
  BY DEF SameFile, PointsAre
<1>3. Matches(f) => Matches(f)'
  BY <1>1, <1>2 DEF Matches, SameFile, Chunkless
<1>4. Dropped(f) => Dropped(f)'
  BY <1>1 DEF Dropped, SameFile
<1>5. Backed(f) => Backed(f)'
  BY DEF Backed, SameFile, SameRows
<1>6. QED
  BY <1>3, <1>4, <1>5

\* A step that writes to no store leaves every file as it is.
LEMMA StoresKept ==
  ASSUME UNCHANGED <<stores, acknowledged>>
  PROVE  \A f : SameFile(f)
<1>1. /\ symbols' = symbols /\ chunks' = chunks /\ vectors' = vectors
      /\ fileState' = fileState /\ acknowledged' = acknowledged
  BY DEF stores
<1>2. ASSUME NEW f PROVE SameFile(f)
  BY <1>1 DEF SameFile, SameRows
<1>3. QED
  BY <1>2

\* The rows of a file that is recorded back its vectors.
LEMMA MatchesIsBacked ==
  ASSUME NEW f
  PROVE  /\ Matches(f) => Backed(f)
         /\ Matches(f)' => Backed(f)'
BY DEF Matches, Backed, RowsAre, PointsAre

\* A call on the points of one file leaves those of the other files.
PointsOnly(f) ==
  \A cb \in Codebases, i \in SymbolIDs :
    cb # f[1] \/ PathOf[i] # f[2] => vectors'[cb][i] = vectors[cb][i]

LEMMA PointsOfOneFile ==
  ASSUME NEW f \in Files, PointsOnly(f), UNCHANGED <<symbols, chunks, fileState, acknowledged>>
  PROVE  \A e \in Files : e # f => SameFile(e)
<1>1. ASSUME NEW e \in Files, e # f PROVE SameFile(e)
  <2>1. e[1] \in Codebases /\ (e[1] # f[1] \/ e[2] # f[2])
    BY <1>1, FilePair
  <2>2. \A i \in SymbolIDs : PathOf[i] = e[2] => vectors'[e[1]][i] = vectors[e[1]][i]
    BY <2>1 DEF PointsOnly
  <2>3. QED
    BY <2>2 DEF SameFile, SameRows
<1>2. QED
  BY <1>1

\* So does a DELETE of rows of one file.
LEMMA RowsOfOneFile ==
  ASSUME NEW f \in Files, f[1] # NoCodebase, FileIndexAssumption, NEW table, NEW keep
  PROVE  \A e \in Files : e # f => SameRows(table, DeleteRows(table, f[1], f[2], keep), e)
<1>1. ASSUME NEW e \in Files, e # f, NEW i \in SymbolIDs, PathOf[i] = e[2]
      PROVE  \/ DeleteRows(table, f[1], f[2], keep)[i] = table[i]
             \/ /\ DeleteRows(table, f[1], f[2], keep)[i].codebase # e[1]
                /\ table[i].codebase # e[1]
  <2>1. e[1] \in Codebases /\ (e[1] # f[1] \/ e[2] # f[2])
    BY <1>1, FilePair
  <2>2. e[1] # NoRow.codebase
    BY <2>1, FileIndexAssumption DEF NoRow
  <2>3. QED
    BY <1>1, <2>1, <2>2 DEF DeleteRows
<1>2. QED
  BY <1>1 DEF SameRows

\* Points of the content whose rows are there have their symbols.
LEMMA RowsBack ==
  ASSUME NEW f, NEW v, HasRows(symbols, f, v)', PointsAre(f, v)'
  PROVE  Backed(f)'
<1>1. SUFFICES ASSUME NEW i \in SymbolIDs, PathOf[i] = f[2], vectors'[f[1]][i] # NoContent
               PROVE  symbols'[i].codebase = f[1]
  BY DEF Backed
<1>2. i \in SymbolsOf[f[2]][v]
  BY <1>1 DEF PointsAre
<1>3. symbols'[i] = [codebase |-> f[1], content |-> v]
  BY <1>2 DEF HasRows
<1>4. QED
  BY <1>3

-----------------------------------------------------------------------------
(* What the handlers do                                                    *)

\* A request that touches a file that is not disturbed has it to itself.
LEMMA HasToItself ==
  ASSUME Exclusive, NEW h \in Handlers, NEW f \in Touched(h), f \notin disturbed
  PROVE  \A g \in Handlers : g # h => f \notin Touched(g)
BY DEF Exclusive

\* A handler touches the file it is at.
LEMMA TouchesOwn ==
  ASSUME NEW h, Busy(h)
  PROVE  FileOf(h) \in Touched(h)
BY DEF Touched

\* What a request touches follows from its work.
LEMMA SameWork ==
  ASSUME NEW g, handler'[g] = handler[g]
  PROVE  /\ Busy(g)' <=> Busy(g)
         /\ Touched(g)' = Touched(g) /\ FileOf(g)' = FileOf(g)
         /\ Begun(g)' <=> Begun(g)
         /\ \A s : At(g, s)' <=> At(g, s)
BY DEF Busy, Touched, FileOf, Begun, At

\* The handler that writes a file that is being rewritten is alone with it.
LEMMA RewritesAlone ==
  ASSUME TypeOK, Exclusive, NEW h \in Handlers, Busy(h), FileOf(h) \in rewriting
  PROVE  /\ handler[h].step \in Later
         /\ \A g \in Handlers : g # h => FileOf(h) \notin Touched(g)
<1>1. PICK k \in Handlers :
        /\ handler[k].step \in Later /\ FileOf(k) = FileOf(h)
        /\ \A g \in Handlers : g # k => FileOf(h) \notin Touched(g)
  BY DEF Exclusive
<1>2. k = h
  BY <1>1, TouchesOwn
<1>3. QED
  BY <1>1, <1>2

\* Going to the next store call changes nothing else about the request.
LEMMA GotoEffect ==
  ASSUME TypeOK, NEW h \in Handlers, Busy(h), NEW s, s # "idle", Goto(h, s)
  PROVE  /\ \A g \in Handlers : g # h => handler'[g] = handler[g]
         /\ handler'[h].step = s /\ Busy(h)'
         /\ FileOf(h)' = FileOf(h) /\ handler'[h].content = handler[h].content
         /\ Touched(h)' = Touched(h)
<1>1. handler[h] \in IndexWork \/ handler[h] \in DropWork
  BY WorkOf
<1>2. /\ handler' = [handler EXCEPT ![h] = [handler[h] EXCEPT !.step = s]]
      /\ handler'[h] = [handler[h] EXCEPT !.step = s]
  BY DEF Goto, TypeOK
<1>3. /\ handler'[h].step = s /\ handler'[h].content = handler[h].content
      /\ handler'[h].todo = handler[h].todo
      /\ handler'[h].codebase = handler[h].codebase
      /\ handler'[h].path = handler[h].path
  <2>1. CASE handler[h] \in IndexWork
    BY <1>2, <2>1 DEF IndexWork
  <2>2. CASE handler[h] \in DropWork
    BY <1>2, <2>2 DEF DropWork
  <2>3. QED
    BY <1>1, <2>1, <2>2
<1>4. \A g \in Handlers : g # h => handler'[g] = handler[g]
  BY <1>2 DEF TypeOK
<1>5. QED
  BY <1>3, <1>4 DEF FileOf, Touched, Busy

\* A request goes on to a file it was going to take up anyway, or ends.
LEMMA NextEffect ==
  ASSUME TypeOK, NEW h \in Handlers, Busy(h), NextFile(h)
  PROVE  /\ \A g \in Handlers : g # h => handler'[g] = handler[g]
         /\ handler'[h].step \in {"idle", "getHash", "dropRows"}
         /\ ~Begun(h)' /\ handler'[h].step \notin Later /\ ~At(h, "dropVectors")'
         /\ Touched(h)' \subseteq Touched(h)
<1>1. handler[h] \in IndexWork \cup DropWork
  BY WorkOf
<1>2. CASE handler[h].todo = {}
  <2>1. Release(h)
    BY <1>2 DEF NextFile
  <2>2. /\ \A g \in Handlers : g # h => handler'[g] = handler[g]
        /\ handler'[h].step = "idle"
    BY <2>1 DEF Release, Idle, TypeOK
  <2>3. QED
    BY <2>2 DEF Begun, Later, IndexSteps, At, Touched, Busy
<1>3. CASE handler[h].todo # {}
  <2>1. PICK t \in handler[h].todo : handler' = [handler EXCEPT ![h] = NextWork(handler[h], t)]
    BY <1>3 DEF NextFile, NextWork, TypeOK
  <2>2. /\ handler'[h] = NextWork(handler[h], t)
        /\ \A g \in Handlers : g # h => handler'[g] = handler[g]
    BY <2>1 DEF TypeOK
  <2>3. /\ handler'[h].step \in {"getHash", "dropRows"} /\ handler'[h].path = t[1]
        /\ handler'[h].todo = handler[h].todo \ {t}
        /\ handler'[h].codebase = handler[h].codebase
    BY <1>1, <2>2, NextMoved
  <2>4. Touched(h)' \subseteq Touched(h)
    <3>1. FileOf(h)' = <<handler[h].codebase, t[1]>>
      BY <2>3 DEF FileOf
    <3>2. Touched(h)' = {<<handler[h].codebase, t[1]>>} \cup
                          {<<handler[h].codebase, u[1]>> : u \in handler[h].todo \ {t}}
      BY <2>3, <3>1 DEF Touched, Busy
    <3>3. Touched(h) = {FileOf(h)} \cup
                          {<<handler[h].codebase, u[1]>> : u \in handler[h].todo}
      BY DEF Touched
    <3>4. QED
      BY <2>1, <3>2, <3>3
  <2>5. QED
    BY <2>2, <2>3, <2>4 DEF Begun, Later, IndexSteps, At
<1>4. QED
  BY <1>2, <1>3

-----------------------------------------------------------------------------
(* Frames: what a step of one request leaves to the others                 *)

\* A step of one request that takes up no file it did not have, and that marks as
\* rewritten only what it has to itself, keeps requests apart.
LEMMA ExclusiveKept ==
  ASSUME TypeOK, Exclusive, NEW h \in Handlers, Busy(h),
         \A g \in Handlers : g # h => handler'[g] = handler[g],
         disturbed \subseteq disturbed', collided \subseteq collided',
         Touched(h)' \subseteq Touched(h),
         rewriting' \subseteq rewriting \cup {FileOf(h)},
         \A f \in rewriting : f \in rewriting' \/ f \in Shaken',
         FileOf(h) \in rewriting' =>
           /\ handler'[h].step \in Later /\ FileOf(h)' = FileOf(h)
           /\ \A g \in Handlers : g # h => FileOf(h) \notin Touched(g),
         handler'[h].step \in Later /\ FileOf(h)' \notin Shaken' => FileOf(h)' \in rewriting'
  PROVE  Exclusive'
<1>1. \A g \in Handlers : g # h => /\ Busy(g)' <=> Busy(g)
                                  /\ Touched(g)' = Touched(g) /\ FileOf(g)' = FileOf(g)
  BY DEF Busy, Touched, FileOf
<1>2. ASSUME NEW g \in Handlers, NEW k \in Handlers, g # k
      PROVE  Touched(g)' \cap Touched(k)' \subseteq disturbed'
  <2>1. Touched(g)' \subseteq Touched(g) /\ Touched(k)' \subseteq Touched(k)
    BY <1>1
  <2>2. QED
    BY <1>2, <2>1 DEF Exclusive
<1>3. ASSUME NEW f \in rewriting'
      PROVE  \E k \in Handlers : /\ handler'[k].step \in Later /\ FileOf(k)' = f
                                 /\ \A g \in Handlers : g # k => f \notin Touched(g)'
  <2>1. CASE f = FileOf(h)
    BY <1>1, <1>3, <2>1
  <2>2. CASE f # FileOf(h)
    <3>1. PICK k \in Handlers : /\ handler[k].step \in Later /\ FileOf(k) = f
                                /\ \A g \in Handlers : g # k => f \notin Touched(g)
      BY <1>3, <2>2 DEF Exclusive
    <3>2. k # h
      BY <2>2, <3>1
    <3>3. QED
      BY <1>1, <3>1, <3>2
  <2>3. QED
    BY <2>1, <2>2
<1>4. ASSUME NEW g \in Handlers, handler'[g].step \in Later, FileOf(g)' \notin Shaken'
      PROVE  FileOf(g)' \in rewriting'
  <2>1. CASE g # h
    <3>1. FileOf(g)' = FileOf(g) /\ handler[g].step \in Later /\ FileOf(g) \notin Shaken
      BY <1>1, <1>4, <2>1 DEF Shaken
    <3>2. QED
      BY <1>4, <3>1 DEF Exclusive
  <2>2. QED
    BY <1>4, <2>1
<1>5. QED
  BY <1>2, <1>3, <1>4, Zenon DEF Exclusive

\* A file that another request has in hand, and whose rows a step does not change,
\* is as far as it was.
LEMMA OthersWritten ==
  ASSUME TypeOK, Exclusive, FileIndexAssumption, NEW h \in Handlers, Busy(h),
         NEW g \in Handlers, g # h, handler'[g] = handler[g], Written(g),
         FileOf(g) \in rewriting' => FileOf(g) \in rewriting,
         FileOf(g) \in rewriting' /\ FileOf(g) # FileOf(h) => SameFile(FileOf(g))
  PROVE  Written(g)'
<1>1. FileOf(g)' = FileOf(g)
  BY DEF FileOf
<1> SUFFICES ASSUME handler[g].step \in Later, FileOf(g) \in rewriting'
             PROVE  Written(g)'
  BY <1>1 DEF Written
<1> PICK f, v : f = FileOf(g) /\ v = handler[g].content
  OBVIOUS
<1>2. Busy(g) /\ f \in Files /\ handler[g] \in IndexWork
  BY WorkOf DEF Later, Busy, IndexSteps
<1>3. f # FileOf(h)
  BY <1>2, TouchesOwn, RewritesAlone
<1>4. SameFile(f)
  BY <1>2, <1>3
<1>5. f[2] \in Paths /\ v \in Contents
      /\ SymbolsOf[f[2]][v] \subseteq {i \in SymbolIDs : PathOf[i] = f[2]}
  BY <1>2, FileIndexAssumption DEF Files, IndexWork
<1>6. FileOf(g)' = f /\ handler'[g].content = v
  BY <1>1
<1>7. /\ HasRows(symbols, f, v) => HasRows(symbols', f, v)
      /\ HasRows(chunks, f, v) => HasRows(chunks', f, v)
      /\ RowsAre(symbols, f, v) => RowsAre(symbols', f, v)
      /\ RowsAre(chunks, f, v) => RowsAre(chunks', f, v)
  BY <1>4, <1>5, SameRowsKept DEF SameFile
<1>8. \A u : PointsAre(f, u) => PointsAre(f, u)'
  BY <1>4 DEF SameFile, PointsAre
<1>9. QED
  BY <1>6, <1>7, <1>8 DEF Written, At

\* Every file but the one a request has in hand stays clean.
LEMMA OthersKept ==
  ASSUME NEW h \in Handlers, Busy(h),
         \A g \in Handlers : g # h => handler'[g] = handler[g],
         Begun(h)' => UNCHANGED FileOf(h),
         NEW f \in Files, f # FileOf(h), SameFile(f), CleanFile(f)
  PROVE  CleanFile(f)'
<1>1. Quiet(f)' => Quiet(f)
  BY DEF Quiet, Begun, FileOf
<1>2. At(h, "dropVectors")' => UNCHANGED FileOf(h)
  BY DEF At, Begun
<1>3. Dropping(f)' <=> Dropping(f)
  <2>1. ASSUME NEW g \in Handlers, At(g, "dropVectors")', FileOf(g)' = f
        PROVE  At(g, "dropVectors") /\ FileOf(g) = f
    <3>1. g # h
      BY <1>2, <2>1
    <3>2. QED
      BY <2>1, <3>1 DEF At, FileOf
  <2>2. ASSUME NEW g \in Handlers, At(g, "dropVectors"), FileOf(g) = f
        PROVE  At(g, "dropVectors")' /\ FileOf(g)' = f
    <3>1. g # h
      BY <2>2
    <3>2. QED
      BY <2>2, <3>1 DEF At, FileOf
  <2>3. QED
    BY <2>1, <2>2 DEF Dropping
<1>4. QED
  BY <1>1, <1>3, SameFileKept DEF CleanFile

\* For an undisturbed file, what its only request has in hand says how it stands.
LEMMA OwnFile ==
  ASSUME TypeOK, FileInv, NEW h \in Handlers, Busy(h), FileOf(h) \notin Shaken
  PROVE  /\ FileOf(h) \in Files /\ CleanFile(FileOf(h))
         /\ \A g \in Handlers : g # h => ~(Busy(g) /\ FileOf(g) = FileOf(h))
         /\ Dropping(FileOf(h)) <=> At(h, "dropVectors")
         /\ ~Begun(h) => Quiet(FileOf(h))
<1>1. FileOf(h) \in Files /\ CleanFile(FileOf(h))
  BY WorkOf DEF FileInv
<1>2. \A g \in Handlers : g # h => ~(Busy(g) /\ FileOf(g) = FileOf(h))
  BY HasToItself, TouchesOwn DEF FileInv, Shaken
<1>3. \A g \in Handlers : /\ At(g, "dropVectors") => Busy(g)
                          /\ Begun(g) => Busy(g)
  BY DEF At, Busy, Begun
<1>4. QED
  BY <1>1, <1>2, <1>3 DEF Dropping, Quiet

\* ... and after a step of that request.
LEMMA OwnFileAfter ==
  ASSUME NEW h \in Handlers, NEW f,
         \A g \in Handlers : g # h => ~(Busy(g) /\ FileOf(g) = f),
         \A g \in Handlers : g # h => handler'[g] = handler[g]
  PROVE  /\ Dropping(f)' <=> At(h, "dropVectors")' /\ FileOf(h)' = f
         /\ FileOf(h)' = f /\ Begun(h)' => ~Quiet(f)'
<1>1. \A g \in Handlers : g # h => ~(Busy(g)' /\ FileOf(g)' = f)
  BY DEF Busy, FileOf
<1>2. \A g \in Handlers : At(g, "dropVectors")' => Busy(g)'
  BY DEF At, Busy
<1>3. QED
  BY <1>1, <1>2 DEF Dropping, Quiet

\* A step of one request keeps the invariant if it keeps the requests apart, changes
\* no other file that is not shaken or that is rewritten, and leaves its own file as
\* it should.
LEMMA OwnStep ==
  ASSUME TypeOK, FileIndexAssumption, FileInv, NEW h \in Handlers, Busy(h),
         \A g \in Handlers : g # h => handler'[g] = handler[g],
         NEW f, f = FileOf(h),
         \A e \in Files : e # f /\ (e \notin Shaken' \/ e \in rewriting') => SameFile(e),
         Begun(h)' => UNCHANGED FileOf(h),
         Shaken \ {f} \subseteq Shaken', rewriting' \subseteq rewriting \cup {f},
         f \in rewriting' => \A g \in Handlers : g # h => f \notin Touched(g),
         Exclusive', Written(h)',
         f \notin Shaken' => CleanFile(f)'
  PROVE  FileInv'
<1>1. ASSUME NEW g \in Handlers, g # h PROVE Written(g)'
  <2>1. ASSUME FileOf(g) \in rewriting', handler[g].step \in Later
        PROVE  /\ FileOf(g) \in rewriting
               /\ FileOf(g) # FileOf(h) => SameFile(FileOf(g))
    <3>1. Busy(g) /\ FileOf(g) \in Files
      BY <2>1, WorkOf DEF Later, IndexSteps, Busy
    <3>2. FileOf(g) # f
      BY <1>1, <2>1, <3>1, TouchesOwn
    <3>3. QED
      BY <2>1, <3>1, <3>2
  <2>2. CASE handler[g].step \in Later
    BY <1>1, <2>1, <2>2, OthersWritten DEF FileInv
  <2>3. CASE handler[g].step \notin Later
    BY <1>1, <2>3 DEF Written
  <2>4. QED
    BY <2>2, <2>3
<1>2. ASSUME NEW e \in Files \ Shaken', e # f PROVE CleanFile(e)'
  BY <1>2, OthersKept DEF FileInv
<1>3. QED
  BY <1>1, <1>2 DEF FileInv

-----------------------------------------------------------------------------
(* The store calls of an upload                                            *)

\* What an upload has in hand, and the IDs of its file.
LEMMA UploadOf ==
  ASSUME TypeOK, FileIndexAssumption, NEW h \in Handlers, handler[h].step \in IndexSteps
  PROVE  /\ Busy(h) /\ FileOf(h) \in Files
         /\ FileOf(h)[1] = handler[h].codebase /\ FileOf(h)[2] = handler[h].path
         /\ FileOf(h)[1] \in Codebases /\ FileOf(h)[1] # NoCodebase
         /\ FileOf(h)[2] \in Paths
         /\ handler[h].content \in Contents /\ handler[h].content # NoContent
         /\ KeepIDs(h) = SymbolsOf[FileOf(h)[2]][handler[h].content]
         /\ SymbolsOf[FileOf(h)[2]][handler[h].content]
              \subseteq {i \in SymbolIDs : PathOf[i] = FileOf(h)[2]}
<1>1. handler[h] \in IndexWork /\ Busy(h) /\ FileOf(h) \in Files
  BY WorkOf
<1>2. /\ handler[h].codebase \in Codebases /\ handler[h].path \in Paths
      /\ handler[h].content \in Contents
  BY <1>1 DEF IndexWork
<1>3. FileOf(h)[1] = handler[h].codebase /\ FileOf(h)[2] = handler[h].path
  BY DEF FileOf
<1>4. SymbolsOf[handler[h].path][handler[h].content]
        \subseteq {i \in SymbolIDs : PathOf[i] = handler[h].path}
  BY <1>2, FileIndexAssumption
<1>5. QED
  BY <1>1, <1>2, <1>3, <1>4, FileIndexAssumption DEF KeepIDs

\* An upsert of a file that no row of another codebase meets writes its rows; every
\* file that it changes otherwise is struck.
LEMMA UpsertStrikes ==
  ASSUME TypeOK, FileIndexAssumption, NEW h \in Handlers, handler[h].step \in IndexSteps,
         NEW table \in Table, NEW new, NEW f, NEW v,
         f = FileOf(h), v = handler[h].content,
         new = Upsert(table, handler[h].codebase, KeepIDs(h), v)
  PROVE  /\ f \notin Struck(h, table) =>
              /\ \A i \in SymbolIDs : new[i] = IF i \in SymbolsOf[f[2]][v]
                                               THEN [codebase |-> f[1], content |-> v]
                                               ELSE table[i]
              /\ HasRows(new, f, v)
         /\ \A e \in Files : e # f /\ e \notin Struck(h, table) => SameRows(table, new, e)
<1>1. /\ f \in Files /\ f[1] = handler[h].codebase /\ f[2] = handler[h].path
      /\ f[1] \in Codebases /\ f[1] # NoCodebase
      /\ KeepIDs(h) = SymbolsOf[f[2]][v]
      /\ KeepIDs(h) \subseteq {i \in SymbolIDs : PathOf[i] = f[2]}
  BY UploadOf
<1>2. \A i \in SymbolIDs : /\ table[i] = NoRow => table[i].codebase = NoCodebase
                           /\ table[i] # NoRow => table[i].codebase \in Codebases
  BY DEF Table, Row, NoRow
<1>3. NoCodebase \notin Codebases
  BY FileIndexAssumption
<1> DEFINE ids == KeepIDs(h)
<1>4. \A i \in SymbolIDs :
        /\ i \notin ids => new[i] = table[i]
        /\ i \in ids /\ table[i].codebase \in {NoCodebase, f[1]} =>
             new[i] = [codebase |-> f[1], content |-> v]
        /\ i \in ids => new[i].codebase \in {table[i].codebase, f[1]}
  <2>1. f[1] \in Codebases /\ new = Upsert(table, f[1], ids, v)
    BY <1>1
  <2> HIDE DEF ids
  <2>2. ASSUME NEW i \in SymbolIDs
        PROVE  /\ i \notin ids => new[i] = table[i]
               /\ i \in ids /\ table[i].codebase \in {NoCodebase, f[1]} =>
                    new[i] = [codebase |-> f[1], content |-> v]
               /\ i \in ids => new[i].codebase \in {table[i].codebase, f[1]}
    BY <1>1, <1>3, <2>1, UpsertRows
  <2>3. QED
    BY <2>2
<1>5. ASSUME f \notin Struck(h, table), NEW i \in SymbolIDs
      PROVE  new[i] = IF i \in SymbolsOf[f[2]][v]
                      THEN [codebase |-> f[1], content |-> v] ELSE table[i]
  <2>1. CASE i \in SymbolsOf[f[2]][v]
    <3>1. table[i].codebase \in {NoCodebase, f[1]}
      BY <1>1, <1>5, <2>1 DEF Struck
    <3>2. QED
      BY <1>1, <1>4, <2>1, <3>1
  <2>2. CASE i \notin SymbolsOf[f[2]][v]
    BY <1>1, <1>4, <2>2
  <2>3. QED
    BY <2>1, <2>2
<1>6. f \notin Struck(h, table) => HasRows(new, f, v)
  BY <1>1, <1>5 DEF HasRows
<1>7. ASSUME NEW e \in Files, e # f, e \notin Struck(h, table) PROVE SameRows(table, new, e)
  <2>1. SUFFICES ASSUME NEW i \in SymbolIDs, PathOf[i] = e[2]
                 PROVE  \/ new[i] = table[i]
                        \/ new[i].codebase # e[1] /\ table[i].codebase # e[1]
    BY DEF SameRows
  <2>2. CASE i \notin KeepIDs(h)
    BY <1>1, <1>4, <2>2
  <2>3. CASE i \in KeepIDs(h)
    <3>1. e[2] = f[2] /\ e[1] # f[1] /\ e = <<e[1], e[2]>> /\ e[1] \in Codebases
      BY <1>1, <1>7, <2>1, <2>3 DEF Files
    <3>2. table[i].codebase # e[1]
      <4>1. SUFFICES ASSUME table[i].codebase = e[1] PROVE FALSE
        OBVIOUS
      <4>2. i \in {j \in KeepIDs(h) : table[j].codebase \notin {NoCodebase, handler[h].codebase}}
        BY <1>1, <1>3, <2>3, <3>1, <4>1
      <4>3. <<table[i].codebase, PathOf[i]>> \in Struck(h, table)
        BY <4>2 DEF Struck
      <4>4. QED
        BY <1>7, <2>1, <3>1, <4>1, <4>3
    <3>3. new[i].codebase \in {table[i].codebase, f[1]}
      BY <1>4, <2>3
    <3>4. QED
      BY <3>1, <3>2, <3>3
  <2>4. QED
    BY <2>2, <2>3
<1>8. QED
  BY <1>5, <1>6, <1>7

\* The file of an upload that has it to itself begins to be rewritten: the symbols
\* come first, and no vector loses its own.
LEMMA UpsertSymbolsKeeps ==
  ASSUME TypeOK, FileIndexAssumption, FileInv, NEW h \in Handlers, UpsertSymbols(h)
  PROVE  FileInv'
<1> PICK f, v : f = FileOf(h) /\ v = handler[h].content
  OBVIOUS
<1>1. /\ handler[h].step = "upsertSymbols"
      /\ handler[h].step \in IndexSteps /\ handler[h].step \notin Later
      /\ "deleteVectors" \in Later /\ "deleteVectors" # "idle" /\ ~Begun(h)
  BY DEF UpsertSymbols, At, Later, IndexSteps, Begun
<1>2. /\ Busy(h) /\ f \in Files /\ f \in Touched(h)
      /\ f[1] = handler[h].codebase /\ f[2] = handler[h].path /\ v # NoContent
  BY <1>1, UploadOf, TouchesOwn
<1>3. /\ symbols' = Upsert(symbols, f[1], KeepIDs(h), v) /\ Goto(h, "deleteVectors")
      /\ collided' = collided \cup Struck(h, symbols)
      /\ rewriting' = BeginRewrite(h) \ Struck(h, symbols)
      /\ UNCHANGED <<chunks, vectors, fileState, acknowledged, disturbed>>
  BY <1>2 DEF UpsertSymbols
<1>4. /\ \A g \in Handlers : g # h => handler'[g] = handler[g]
      /\ handler'[h].step = "deleteVectors" /\ handler'[h].content = v
      /\ FileOf(h)' = f /\ Touched(h)' = Touched(h) /\ Busy(h)'
  BY <1>1, <1>2, <1>3, GotoEffect
<1>5. /\ f \notin Struck(h, symbols) =>
           /\ \A i \in SymbolIDs : symbols'[i] = IF i \in SymbolsOf[f[2]][v]
                                                 THEN [codebase |-> f[1], content |-> v]
                                                 ELSE symbols[i]
           /\ HasRows(symbols', f, v)
      /\ \A e \in Files : e # f /\ e \notin Struck(h, symbols) => SameRows(symbols, symbols', e)
  BY <1>1, <1>2, <1>3, UpsertStrikes DEF TypeOK
<1>6. /\ disturbed \subseteq disturbed' /\ collided \subseteq collided'
      /\ Shaken \subseteq Shaken' /\ Struck(h, symbols) \subseteq Shaken'
      /\ rewriting' \subseteq rewriting \cup {f}
      /\ rewriting' \cap Struck(h, symbols) = {}
  BY <1>3 DEF Shaken, BeginRewrite
<1>7. f \in rewriting' => \A g \in Handlers : g # h => f \notin Touched(g)
  <2>1. f \notin rewriting
    BY <1>1, <1>2, RewritesAlone DEF FileInv
  <2>2. QED
    BY <1>3, <2>1 DEF BeginRewrite
<1>8. f \notin Shaken' => f \in rewriting'
  <2>1. SUFFICES ASSUME f \notin Shaken' PROVE f \in rewriting'
    OBVIOUS
  <2>2. f \notin disturbed /\ f \notin Struck(h, symbols)
    BY <1>6, <2>1 DEF Shaken
  <2>3. \A g \in Handlers : g # h => f \notin Touched(g)
    BY <1>2, <2>2, HasToItself DEF FileInv
  <2>4. QED
    BY <1>3, <2>2, <2>3 DEF BeginRewrite
<1>9. Exclusive'
  <2>1. \A e \in rewriting : e \in rewriting' \/ e \in Shaken'
    BY <1>3, <1>6 DEF BeginRewrite
  <2>2. QED
    BY <1>1, <1>2, <1>4, <1>6, <1>7, <1>8, <2>1, ExclusiveKept DEF FileInv
<1>10. \A e \in Files : e # f /\ (e \notin Shaken' \/ e \in rewriting') => SameFile(e)
  BY <1>3, <1>5, <1>6 DEF SameFile, SameRows
<1>11. Written(h)'
  <2>1. f \in rewriting' => HasRows(symbols', f, v)
    BY <1>5, <1>6
  <2>2. QED
    BY <1>4, <2>1 DEF Written, At
<1>12. f \notin Shaken' => CleanFile(f)'
  <2>1. SUFFICES ASSUME f \notin Shaken' PROVE CleanFile(f)'
    OBVIOUS
  <2>2. f \notin Shaken /\ f \notin Struck(h, symbols)
    BY <1>6, <2>1
  <2>3. /\ CleanFile(f) /\ (Dropping(f) <=> At(h, "dropVectors"))
        /\ \A g \in Handlers : g # h => ~(Busy(g) /\ FileOf(g) = f)
    BY <1>2, <2>2, OwnFile
  <2>4. Backed(f)
    BY <1>1, <2>3 DEF CleanFile, At
  <2>5. Backed(f)'
    BY <1>3, <1>5, <2>2, <2>4 DEF Backed
  <2>6. ~Quiet(f)' /\ ~Dropping(f)'
    <3>1. Begun(h)' /\ ~At(h, "dropVectors")'
      BY <1>4 DEF Begun, At
    <3>2. QED
      BY <1>4, <2>3, <3>1, OwnFileAfter
  <2>7. QED
    BY <2>5, <2>6 DEF CleanFile
<1>13. Shaken \ {f} \subseteq Shaken' /\ UNCHANGED FileOf(h)
  BY <1>4, <1>6
<1>14. QED
  BY <1>2, <1>4, <1>6, <1>7, <1>9, <1>10, <1>11, <1>12, <1>13, OwnStep

\* A later step of an upload keeps the invariant if it leaves other files alone and
\* what it has done is as it should be.
LEMMA UploadStep ==
  ASSUME TypeOK, FileIndexAssumption, FileInv,
         NEW h \in Handlers, handler[h].step \in Later, NEW s \in Later, Goto(h, s),
         disturbed' = disturbed, collided \subseteq collided', rewriting' \subseteq rewriting,
         \A e \in rewriting : e \in rewriting' \/ e \in Shaken',
         NEW f, f = FileOf(h),
         \A e \in Files : e # f /\ (e \notin Shaken' \/ e \in rewriting') => SameFile(e),
         Written(h)',
         f \in rewriting' /\ Backed(f) => Backed(f)'
  PROVE  FileInv'
<1>1. handler[h].step \in IndexSteps /\ s # "idle" /\ s # "dropVectors"
      /\ handler[h].step # "dropVectors"
      /\ s \notin {"idle", "getHash", "upsertSymbols", "dropRows"}
  BY DEF Later, IndexSteps
<1>2. Busy(h) /\ f \in Files /\ f \in Touched(h)
  BY <1>1, UploadOf, TouchesOwn
<1>3. /\ \A g \in Handlers : g # h => handler'[g] = handler[g]
      /\ handler'[h].step = s /\ FileOf(h)' = f /\ Touched(h)' = Touched(h)
  BY <1>1, <1>2, GotoEffect
<1>4. Shaken \subseteq Shaken'
  BY DEF Shaken
<1>5. f \in rewriting' => \A g \in Handlers : g # h => f \notin Touched(g)
  BY <1>2, RewritesAlone DEF FileInv
<1>6. f \notin Shaken' => f \in rewriting'
  <2>1. f \notin Shaken => f \in rewriting
    BY DEF FileInv, Exclusive
  <2>2. QED
    BY <1>4, <2>1
<1>7. Exclusive'
  BY <1>2, <1>3, <1>4, <1>5, <1>6, ExclusiveKept DEF FileInv
<1>8. f \notin Shaken' => CleanFile(f)'
  <2>1. SUFFICES ASSUME f \notin Shaken' PROVE CleanFile(f)'
    OBVIOUS
  <2>2. /\ CleanFile(f) /\ (Dropping(f) <=> At(h, "dropVectors"))
        /\ \A g \in Handlers : g # h => ~(Busy(g) /\ FileOf(g) = f)
    BY <1>2, <1>4, <2>1, OwnFile
  <2>3. Backed(f)
    BY <1>1, <2>2 DEF CleanFile, At
  <2>4. Backed(f)'
    BY <1>6, <2>1, <2>3
  <2>5. ~Quiet(f)' /\ ~Dropping(f)'
    <3>1. Begun(h)' /\ ~At(h, "dropVectors")'
      BY <1>1, <1>3 DEF Begun, At
    <3>2. QED
      BY <1>3, <2>2, <3>1, OwnFileAfter
  <2>6. QED
    BY <2>4, <2>5 DEF CleanFile
<1>9. Shaken \ {f} \subseteq Shaken' /\ rewriting' \subseteq rewriting \cup {f}
      /\ UNCHANGED FileOf(h)
  BY <1>3, <1>4
<1>10. QED
  BY <1>2, <1>3, <1>5, <1>7, <1>8, <1>9, OwnStep

\* The old points go: there is nothing to back.
LEMMA DeleteVectorsKeeps ==
  ASSUME TypeOK, FileIndexAssumption, FileInv, NEW h \in Handlers, DeleteVectors(h)
  PROVE  FileInv'
<1> PICK f, v : f = FileOf(h) /\ v = handler[h].content
  OBVIOUS
<1>1. /\ handler[h].step = "deleteVectors"
      /\ handler[h].step \in Later /\ handler[h].step \in IndexSteps
      /\ "upsertVectors" \in Later /\ "upsertVectors" # "idle"
  BY DEF DeleteVectors, At, Later, IndexSteps
<1>2. /\ vectors' = DeleteByFilter(f[1], f[2]) /\ Goto(h, "upsertVectors")
      /\ UNCHANGED <<symbols, chunks, fileState, acknowledged, disturbed, collided, rewriting>>
  BY <1>1, UploadOf DEF DeleteVectors, history
<1>3. f \in Files /\ f[1] \in Codebases
  BY <1>1, UploadOf
<1>4. PointsOnly(f)
  <2>1. \A cb \in Codebases, i \in SymbolIDs :
          vectors'[cb][i] = IF cb = f[1] /\ PathOf[i] = f[2] THEN NoContent
                            ELSE vectors[cb][i]
    BY <1>2, <1>3 DEF TypeOK, DeleteByFilter
  <2>2. QED
    BY <2>1 DEF PointsOnly
<1>5. \A i \in SymbolIDs : PathOf[i] = f[2] => vectors'[f[1]][i] = NoContent
  BY <1>2, <1>3 DEF TypeOK, DeleteByFilter
<1>6. \A e \in Files : e # f => SameFile(e)
  BY <1>2, <1>3, <1>4, PointsOfOneFile
<1>7. Written(h)'
  <2>1. FileOf(h)' = f /\ handler'[h].content = v /\ handler'[h].step = "upsertVectors"
    BY <1>1, <1>2, GotoEffect, UploadOf
  <2>2. f \in rewriting' => HasRows(symbols', f, v)
    BY <1>1, <1>2 DEF FileInv, Written
  <2>3. PointsAre(f, NoContent)'
    BY <1>5 DEF PointsAre
  <2>4. QED
    BY <2>1, <2>2, <2>3 DEF Written, At
<1>8. Backed(f)'
  BY <1>5 DEF Backed
<1>9. QED
  BY <1>1, <1>2, <1>6, <1>7, <1>8, UploadStep

\* The new points are those of the symbols that are there already.
LEMMA UpsertVectorsKeeps ==
  ASSUME TypeOK, FileIndexAssumption, FileInv, NEW h \in Handlers, UpsertVectors(h)
  PROVE  FileInv'
<1> PICK f, v : f = FileOf(h) /\ v = handler[h].content
  OBVIOUS
<1>1. /\ handler[h].step = "upsertVectors"
      /\ handler[h].step \in Later /\ handler[h].step \in IndexSteps
      /\ "upsertChunks" \in Later /\ "upsertChunks" # "idle"
  BY DEF UpsertVectors, At, Later, IndexSteps
<1>2. /\ vectors' = UpsertPoints(f[1], SymbolsOf[f[2]][v], v) /\ Goto(h, "upsertChunks")
      /\ UNCHANGED <<symbols, chunks, fileState, acknowledged, disturbed, collided, rewriting>>
  BY <1>1, UploadOf DEF UpsertVectors, history
<1>3. /\ f \in Files /\ f[1] \in Codebases /\ v # NoContent
      /\ SymbolsOf[f[2]][v] \subseteq {i \in SymbolIDs : PathOf[i] = f[2]}
  BY <1>1, UploadOf
<1>4. \A cb \in Codebases, i \in SymbolIDs :
        vectors'[cb][i] = IF cb = f[1] /\ i \in SymbolsOf[f[2]][v] THEN v
                          ELSE vectors[cb][i]
  BY <1>2, <1>3 DEF TypeOK, UpsertPoints
<1>5. \A e \in Files : e # f => SameFile(e)
  <2>1. PointsOnly(f)
    BY <1>3, <1>4 DEF PointsOnly
  <2>2. QED
    BY <1>2, <1>3, <2>1, PointsOfOneFile
<1>6. f \in rewriting => HasRows(symbols, f, v) /\ PointsAre(f, NoContent)
  BY <1>1 DEF FileInv, Written, At
<1>7. f \in rewriting => PointsAre(f, v)'
  BY <1>3, <1>4, <1>6 DEF PointsAre
<1>8. Written(h)'
  <2>1. FileOf(h)' = f /\ handler'[h].content = v /\ handler'[h].step = "upsertChunks"
    BY <1>1, <1>2, GotoEffect, UploadOf
  <2>2. f \in rewriting' => HasRows(symbols', f, v) /\ PointsAre(f, v)'
    BY <1>2, <1>6, <1>7
  <2>3. QED
    BY <2>1, <2>2 DEF Written, At
<1>9. f \in rewriting' => Backed(f)'
  BY <1>2, <1>6, <1>7, RowsBack
<1>10. QED
  BY <1>1, <1>2, <1>5, <1>8, <1>9, UploadStep

\* The chunk records follow.
LEMMA UpsertChunksKeeps ==
  ASSUME TypeOK, FileIndexAssumption, FileInv, NEW h \in Handlers, UpsertChunks(h)
  PROVE  FileInv'
<1> PICK f, v : f = FileOf(h) /\ v = handler[h].content
  OBVIOUS
<1>1. /\ handler[h].step = "upsertChunks"
      /\ handler[h].step \in Later /\ handler[h].step \in IndexSteps
      /\ "cleanup" \in Later /\ "cleanup" # "idle"
  BY DEF UpsertChunks, At, Later, IndexSteps
<1>2. /\ chunks' = Upsert(chunks, handler[h].codebase, KeepIDs(h), v) /\ Goto(h, "cleanup")
      /\ collided' = collided \cup Struck(h, chunks)
      /\ rewriting' = rewriting \ Struck(h, chunks)
      /\ UNCHANGED <<symbols, vectors, fileState, acknowledged, disturbed>>
  BY DEF UpsertChunks
<1>3. /\ f \notin Struck(h, chunks) => HasRows(chunks', f, v)
      /\ \A e \in Files : e # f /\ e \notin Struck(h, chunks) => SameRows(chunks, chunks', e)
  <2>1. /\ chunks \in Table /\ handler[h].step \in IndexSteps
        /\ chunks' = Upsert(chunks, handler[h].codebase, KeepIDs(h), handler[h].content)
    BY <1>1, <1>2 DEF TypeOK
  <2>2. f = FileOf(h) /\ v = handler[h].content
    OBVIOUS
  <2>3. QED
    BY <2>1, <2>2, UpsertStrikes, Zenon
<1>4. Struck(h, chunks) \subseteq Shaken' /\ rewriting' \cap Struck(h, chunks) = {}
  BY <1>2 DEF Shaken
<1>5. \A e \in Files : e # f /\ (e \notin Shaken' \/ e \in rewriting') => SameFile(e)
  BY <1>2, <1>3, <1>4 DEF SameFile, SameRows
<1>6. Written(h)'
  <2>1. FileOf(h)' = f /\ handler'[h].content = v /\ handler'[h].step = "cleanup"
    BY <1>1, <1>2, GotoEffect, UploadOf
  <2>2. f \in rewriting => HasRows(symbols, f, v) /\ PointsAre(f, v)
    BY <1>1 DEF FileInv, Written, At
  <2>3. f \in rewriting' => HasRows(symbols', f, v) /\ PointsAre(f, v)' /\ HasRows(chunks', f, v)
    BY <1>2, <1>3, <1>4, <2>2 DEF PointsAre
  <2>4. QED
    BY <2>1, <2>3 DEF Written, At
<1>7. Backed(f) => Backed(f)'
  BY <1>2 DEF Backed
<1>8. \A e \in rewriting : e \in rewriting' \/ e \in Shaken'
  BY <1>2, <1>4
<1>9. QED
  BY <1>1, <1>2, <1>5, <1>6, <1>7, <1>8, UploadStep

\* What is left over from an earlier content goes last.
LEMMA CleanupKeeps ==
  ASSUME TypeOK, FileIndexAssumption, FileInv,
         NEW h \in Handlers, CleanupStaleFileData(h)
  PROVE  FileInv'
<1> PICK f, v : f = FileOf(h) /\ v = handler[h].content
  OBVIOUS
<1>1. /\ handler[h].step = "cleanup"
      /\ handler[h].step \in Later /\ handler[h].step \in IndexSteps
      /\ "setState" \in Later /\ "setState" # "idle"
  BY DEF CleanupStaleFileData, At, Later, IndexSteps
<1>2. /\ chunks' = DeleteRows(chunks, f[1], f[2], SymbolsOf[f[2]][v])
      /\ symbols' = DeleteRows(symbols, f[1], f[2], SymbolsOf[f[2]][v])
      /\ Goto(h, "setState")
      /\ UNCHANGED <<vectors, fileState, acknowledged, disturbed, collided, rewriting>>
  BY <1>1, UploadOf DEF CleanupStaleFileData, history
<1>3. f \in Files /\ f[1] # NoCodebase
  BY <1>1, UploadOf
<1>4. \A e \in Files : e # f => SameFile(e)
  BY <1>2, <1>3, RowsOfOneFile DEF SameFile
<1>5. f \in rewriting =>
        HasRows(symbols, f, v) /\ HasRows(chunks, f, v) /\ PointsAre(f, v)
  BY <1>1 DEF FileInv, Written, At
<1>6. ASSUME NEW table, HasRows(table, f, v)
      PROVE  /\ HasRows(DeleteRows(table, f[1], f[2], SymbolsOf[f[2]][v]), f, v)
             /\ RowsAre(DeleteRows(table, f[1], f[2], SymbolsOf[f[2]][v]), f, v)
  <2>1. f[1] # NoCodebase /\ NoRow.codebase = NoCodebase
    BY <1>3 DEF NoRow
  <2>2. v # NoContent /\ SymbolsOf[f[2]][v] \subseteq SymbolIDs
    BY <1>1, UploadOf
  <2>3. QED
    BY <1>6, <2>1, <2>2 DEF HasRows, RowsAre, DeleteRows
<1>7. f \in rewriting' =>
        /\ HasRows(symbols', f, v) /\ RowsAre(symbols', f, v) /\ RowsAre(chunks', f, v)
        /\ PointsAre(f, v)'
  BY <1>2, <1>5, <1>6 DEF PointsAre
<1>8. Written(h)'
  <2>1. FileOf(h)' = f /\ handler'[h].content = v /\ handler'[h].step = "setState"
    BY <1>1, <1>2, GotoEffect, UploadOf
  <2>2. QED
    BY <1>7, <2>1 DEF Written, At
<1>9. f \in rewriting' => Backed(f)'
  BY <1>7, RowsBack
<1>10. QED
  BY <1>1, <1>2, <1>4, <1>8, <1>9, UploadStep

\* The file that was rewritten matches what is recorded now.
LEMMA SetFileStateKeeps ==
  ASSUME TypeOK, FileIndexAssumption, FileInv, NEW h \in Handlers, SetFileState(h)
  PROVE  FileInv'
<1> PICK f, v : f = FileOf(h) /\ v = handler[h].content
  OBVIOUS
<1>1. /\ handler[h].step = "setState"
      /\ handler[h].step \in Later /\ handler[h].step \in IndexSteps
  BY DEF SetFileState, At, Later, IndexSteps
<1>2. Busy(h) /\ f \in Files /\ f \in Touched(h)
  BY <1>1, UploadOf, TouchesOwn
<1>3. /\ fileState' = [fileState EXCEPT ![f] = v] /\ NextFile(h)
      /\ acknowledged' = [acknowledged EXCEPT ![f] = v]
      /\ disturbed' = disturbed \ (rewriting \cap {f})
      /\ collided' = collided \ (rewriting \cap {f})
      /\ rewriting' = rewriting \ {f}
      /\ UNCHANGED <<symbols, chunks, vectors>>
  BY DEF SetFileState
<1>4. /\ \A g \in Handlers : g # h => handler'[g] = handler[g]
      /\ ~Begun(h)' /\ handler'[h].step \notin Later /\ ~At(h, "dropVectors")'
      /\ Touched(h)' \subseteq Touched(h)
  BY <1>2, <1>3, NextEffect
<1>5. f \in rewriting => \A g \in Handlers : g # h => f \notin Touched(g)
  BY <1>2, RewritesAlone DEF FileInv
<1>6. \A e \in Files : e # f => SameFile(e)
  BY <1>3 DEF SameFile, SameRows, TypeOK
<1>7. f \notin Shaken' => f \in rewriting
  BY <1>1, <1>3 DEF FileInv, Exclusive, Shaken
<1>8. Exclusive'
  <2>1. \A g \in Handlers : g # h => Touched(g)' = Touched(g) /\ FileOf(g)' = FileOf(g)
    BY <1>4, SameWork
  <2>2. ASSUME NEW g \in Handlers, NEW k \in Handlers, g # k
        PROVE  Touched(g)' \cap Touched(k)' \subseteq disturbed'
    <3>1. Touched(g)' \subseteq Touched(g) /\ Touched(k)' \subseteq Touched(k)
      BY <1>4, <2>1
    <3>2. Touched(g) \cap Touched(k) \subseteq disturbed
      BY <2>2 DEF FileInv, Exclusive
    <3>3. QED
      BY <1>3, <1>5, <2>2, <3>1, <3>2
  <2>3. ASSUME NEW e \in rewriting'
        PROVE  \E k \in Handlers : /\ handler'[k].step \in Later /\ FileOf(k)' = e
                                   /\ \A g \in Handlers : g # k => e \notin Touched(g)'
    <3>1. e \in rewriting /\ e # f
      BY <1>3, <2>3
    <3>2. PICK k \in Handlers : /\ handler[k].step \in Later /\ FileOf(k) = e
                                /\ \A g \in Handlers : g # k => e \notin Touched(g)
      BY <3>1 DEF FileInv, Exclusive
    <3>3. k # h
      BY <3>1, <3>2
    <3>4. QED
      BY <1>4, <2>1, <3>2, <3>3
  <2>4. ASSUME NEW g \in Handlers, handler'[g].step \in Later, FileOf(g)' \notin Shaken'
        PROVE  FileOf(g)' \in rewriting'
    <3>1. /\ g # h /\ FileOf(g)' = FileOf(g) /\ handler[g].step \in Later
          /\ FileOf(g) \in Touched(g)
      BY <1>4, <2>1, <2>4, TouchesOwn DEF Later, IndexSteps, Busy
    <3>2. FileOf(g) # f
      BY <1>5, <1>7, <2>4, <3>1
    <3>3. FileOf(g) \notin Shaken
      BY <1>3, <2>4, <3>1, <3>2 DEF Shaken
    <3>4. QED
      BY <1>3, <3>1, <3>2, <3>3 DEF FileInv, Exclusive
  <2>5. QED
    BY <2>2, <2>3, <2>4, Zenon DEF Exclusive
<1>9. Written(h)'
  BY <1>4 DEF Written
<1>10. ASSUME f \notin Shaken' PROVE CleanFile(f)'
  <2>1. RowsAre(symbols, f, v) /\ RowsAre(chunks, f, v) /\ PointsAre(f, v)
    BY <1>1, <1>7, <1>10 DEF FileInv, Written, At
  <2>2. acknowledged'[f] = v /\ fileState'[f] = v
    BY <1>2, <1>3 DEF TypeOK
  <2>3. RowsAre(symbols', f, v) /\ RowsAre(chunks', f, v) /\ PointsAre(f, v)'
    BY <1>3, <2>1 DEF PointsAre
  <2>4. Matches(f)'
    BY <2>2, <2>3 DEF Matches
  <2>5. \A g \in Handlers : g # h => ~(Busy(g) /\ FileOf(g) = f)
    BY <1>5, <1>7, <1>10, TouchesOwn
  <2>6. ~Dropping(f)'
    BY <1>4, <2>5, OwnFileAfter
  <2>7. QED
    BY <2>4, <2>6, MatchesIsBacked DEF CleanFile
<1>11. Shaken \ {f} \subseteq Shaken'
  BY <1>3 DEF Shaken
<1>12. QED
  BY <1>2, <1>3, <1>4, <1>6, <1>8, <1>9, <1>10, <1>11, OwnStep

-----------------------------------------------------------------------------
(* Steps that write nothing                                                *)

\* A step that has failed with part of the file written or dropped disturbs it.
LEMMA FailedStep ==
  ASSUME TypeOK, FileIndexAssumption, FileInv, NEW h \in Handlers, Busy(h),
         \A g \in Handlers : g # h => handler'[g] = handler[g],
         Touched(h)' \subseteq Touched(h), Begun(h)' => UNCHANGED FileOf(h),
         UNCHANGED <<stores, acknowledged, collided>>, Disturb({FileOf(h)})
  PROVE  FileInv'
<1> PICK f : f = FileOf(h)
  OBVIOUS
<1>1. disturbed' = disturbed \cup {f} /\ rewriting' = rewriting \ {f} /\ collided' = collided
  BY DEF Disturb
<1>2. Shaken \subseteq Shaken' /\ f \in Shaken' /\ f \notin rewriting'
  BY <1>1 DEF Shaken
<1>3. handler'[h].step \in Later => FileOf(h)' = f
  BY DEF Later, Begun, IndexSteps
<1>4. Exclusive'
  <2>1. handler'[h].step \in Later /\ FileOf(h)' \notin Shaken' => FileOf(h)' \in rewriting'
    BY <1>2, <1>3
  <2>2. \A e \in rewriting : e \in rewriting' \/ e \in Shaken'
    BY <1>1, <1>2
  <2>3. /\ disturbed \subseteq disturbed' /\ collided \subseteq collided'
        /\ rewriting' \subseteq rewriting \cup {FileOf(h)} /\ FileOf(h) \notin rewriting'
    BY <1>1
  <2>4. QED
    BY <2>1, <2>2, <2>3, ExclusiveKept DEF FileInv
<1>5. Written(h)'
  BY <1>2, <1>3 DEF Written
<1>6. \A e : SameFile(e)
  BY StoresKept
<1>7. Shaken \ {f} \subseteq Shaken' /\ rewriting' \subseteq rewriting \cup {f}
  BY <1>1, <1>2
<1>8. QED
  BY <1>2, <1>4, <1>5, <1>6, <1>7, OwnStep

\* A file that nothing has been done to stays as it is when its request goes on, ...
LEMMA UntouchedStep ==
  ASSUME TypeOK, FileIndexAssumption, FileInv, NEW h \in Handlers, Busy(h),
         \A g \in Handlers : g # h => handler'[g] = handler[g],
         Touched(h)' \subseteq Touched(h), ~Begun(h), ~Begun(h)',
         UNCHANGED <<stores, disturbed, collided, rewriting>>,
         NEW f, f = FileOf(h),
         \A e \in Files : e # f => acknowledged'[e] = acknowledged[e],
         \/ acknowledged'[f] = acknowledged[f]
         \/ acknowledged'[f] = fileState[f]
         \/ Chunkless(f, acknowledged'[f])
  PROVE  FileInv'
<1>1. /\ symbols' = symbols /\ chunks' = chunks /\ vectors' = vectors
      /\ fileState' = fileState
      /\ disturbed' = disturbed /\ collided' = collided /\ rewriting' = rewriting
      /\ Shaken' = Shaken
  BY DEF stores, Shaken
<1>2. /\ handler[h].step \notin Later /\ handler'[h].step \notin Later
      /\ ~At(h, "dropVectors")'
  BY DEF Begun, Later, IndexSteps, At
<1>3. f \notin rewriting
  BY <1>2, RewritesAlone DEF FileInv
<1>4. Exclusive'
  BY <1>1, <1>2, <1>3, ExclusiveKept DEF FileInv
<1>5. Written(h)'
  BY <1>2 DEF Written
<1>6. \A e \in Files : e # f => SameFile(e)
  BY <1>1 DEF SameFile, SameRows
<1>7. ASSUME f \notin Shaken' PROVE CleanFile(f)'
  <2>1. /\ CleanFile(f) /\ Quiet(f)
        /\ \A g \in Handlers : g # h => ~(Busy(g) /\ FileOf(g) = f)
    BY <1>1, <1>7, OwnFile
  <2>2. Matches(f)
    BY <2>1 DEF CleanFile
  <2>3. Matches(f)'
    <3>1. acknowledged'[f] = fileState[f] \/ Chunkless(f, acknowledged'[f])
      BY <2>2 DEF Matches
    <3>2. /\ RowsAre(symbols', f, fileState'[f]) /\ RowsAre(chunks', f, fileState'[f])
          /\ PointsAre(f, fileState[f])'
      BY <1>1, <2>2 DEF Matches, PointsAre
    <3>3. QED
      BY <1>1, <3>1, <3>2 DEF Matches, Chunkless
  <2>4. ~Dropping(f)'
    BY <1>2, <2>1, OwnFileAfter
  <2>5. QED
    BY <2>3, <2>4, MatchesIsBacked DEF CleanFile
<1>8. QED
  BY <1>1, <1>3, <1>4, <1>5, <1>6, <1>7, OwnStep

\* ... be it counted as unchanged, with the content recorded already or one that has
\* no chunks, ...
LEMMA SkipUnchangedKeeps ==
  ASSUME TypeOK, FileIndexAssumption, FileInv, NEW h \in Handlers, SkipUnchanged(h)
  PROVE  FileInv'
<1> PICK f, v : f = FileOf(h) /\ v = handler[h].content
  OBVIOUS
<1>1. handler[h].step = "getHash" /\ handler[h].step \in IndexSteps /\ ~Begun(h)
  BY DEF SkipUnchanged, At, IndexSteps, Begun
<1>2. /\ Busy(h) /\ f \in Files /\ v # NoContent
      /\ KeepIDs(h) = SymbolsOf[f[2]][v]
  BY <1>1, UploadOf
<1>3. /\ NextFile(h) /\ Unchanged(h)
      /\ acknowledged' = [acknowledged EXCEPT ![f] = v]
      /\ UNCHANGED <<stores, disturbed, collided, rewriting>>
  BY DEF SkipUnchanged
<1>4. /\ \A g \in Handlers : g # h => handler'[g] = handler[g]
      /\ ~Begun(h)' /\ Touched(h)' \subseteq Touched(h)
  BY <1>2, <1>3, NextEffect
<1>5. /\ acknowledged'[f] = v
      /\ \A e \in Files : e # f => acknowledged'[e] = acknowledged[e]
  BY <1>2, <1>3 DEF TypeOK
<1>6. v = fileState[f] \/ Chunkless(f, v)
  BY <1>2, <1>3 DEF Unchanged, Chunkless
<1>7. QED
  BY <1>1, <1>2, <1>3, <1>4, <1>5, <1>6, UntouchedStep

\* ... or taken up for indexing.
LEMMA StartIndexingKeeps ==
  ASSUME TypeOK, FileIndexAssumption, FileInv, NEW h \in Handlers, StartIndexing(h)
  PROVE  FileInv'
<1>1. /\ handler[h].step \in IndexSteps /\ ~Begun(h)
      /\ Goto(h, "upsertSymbols") /\ "upsertSymbols" # "idle"
      /\ UNCHANGED <<stores, acknowledged, disturbed, collided, rewriting>>
  BY DEF StartIndexing, At, IndexSteps, Begun, history
<1>2. Busy(h)
  BY <1>1, UploadOf
<1>3. /\ \A g \in Handlers : g # h => handler'[g] = handler[g]
      /\ ~Begun(h)' /\ Touched(h)' = Touched(h)
  BY <1>1, <1>2, GotoEffect DEF Begun
<1>4. QED
  BY <1>1, <1>2, <1>3, UntouchedStep

\* The file with the old points still in it is known to be disturbed.
LEMMA DeleteVectorsFailsKeeps ==
  ASSUME TypeOK, FileIndexAssumption, FileInv, NEW h \in Handlers, DeleteVectorsFails(h)
  PROVE  FileInv'
<1>1. /\ handler[h].step \in IndexSteps
      /\ Goto(h, "upsertVectors") /\ "upsertVectors" # "idle" /\ Disturb({FileOf(h)})
      /\ UNCHANGED <<stores, acknowledged, collided>>
  BY DEF DeleteVectorsFails, At, IndexSteps
<1>2. Busy(h)
  BY <1>1, UploadOf
<1>3. /\ \A g \in Handlers : g # h => handler'[g] = handler[g]
      /\ UNCHANGED FileOf(h) /\ Touched(h)' = Touched(h)
  BY <1>1, <1>2, GotoEffect
<1>4. QED
  BY <1>1, <1>2, <1>3, FailedStep

\* An upload that fails before its first write has changed nothing, and one that
\* fails later has disturbed its file.
LEMMA IndexFailsKeeps ==
  ASSUME TypeOK, FileIndexAssumption, FileInv, NEW h \in Handlers, IndexFails(h)
  PROVE  FileInv'
<1>1. /\ handler[h].step \in IndexSteps /\ NextFile(h)
      /\ Disturb(IF handler[h].step \in {"getHash", "upsertSymbols"} THEN {} ELSE {FileOf(h)})
      /\ UNCHANGED <<stores, acknowledged, collided>>
  BY DEF IndexFails
<1>2. Busy(h)
  BY <1>1, UploadOf
<1>3. /\ \A g \in Handlers : g # h => handler'[g] = handler[g]
      /\ ~Begun(h)' /\ Touched(h)' \subseteq Touched(h)
  BY <1>1, <1>2, NextEffect
<1>4. CASE handler[h].step \in {"getHash", "upsertSymbols"}
  <2>1. ~Begun(h)
    BY <1>4 DEF Begun
  <2>2. UNCHANGED <<disturbed, rewriting>>
    BY <1>1, <1>4 DEF Disturb
  <2>3. QED
    BY <1>1, <1>2, <1>3, <2>1, <2>2, UntouchedStep
<1>5. CASE handler[h].step \notin {"getHash", "upsertSymbols"}
  BY <1>1, <1>2, <1>3, <1>5, FailedStep
<1>6. QED
  BY <1>4, <1>5

-----------------------------------------------------------------------------
(* Collections and deletions                                               *)

\* The file that a deletion has in hand.
LEMMA DropOf ==
  ASSUME TypeOK, FileIndexAssumption, NEW h \in Handlers, handler[h].step \in DropSteps,
         NEW f, f = FileOf(h)
  PROVE  /\ Busy(h) /\ f \in Files /\ f[1] \in Codebases /\ f[1] # NoCodebase
         /\ handler[h].codebase = f[1] /\ handler[h].path = f[2]
<1>1. Busy(h) /\ handler[h] \in DropWork /\ f \in Files
  BY WorkOf DEF Busy, DropSteps
<1>2. QED
  BY <1>1, FileIndexAssumption DEF FileOf, DropWork

\* A step of a deletion keeps requests apart.
LEMMA DropStep ==
  ASSUME TypeOK, FileIndexAssumption, FileInv,
         NEW h \in Handlers, handler[h].step \in DropSteps,
         \A g \in Handlers : g # h => handler'[g] = handler[g],
         handler'[h].step \notin Later, Touched(h)' \subseteq Touched(h),
         Begun(h)' => UNCHANGED FileOf(h),
         UNCHANGED <<disturbed, collided, rewriting>>,
         NEW f, f = FileOf(h),
         \A e \in Files : e # f => SameFile(e),
         f \notin Shaken => CleanFile(f)'
  PROVE  FileInv'
<1>1. Busy(h)
  BY DropOf
<1>2. handler[h].step \notin Later
  BY DEF DropSteps, Later, IndexSteps
<1>3. f \notin rewriting
  BY <1>1, <1>2, RewritesAlone DEF FileInv
<1>4. Shaken' = Shaken
  BY DEF Shaken
<1>5. Exclusive'
  BY <1>1, <1>3, ExclusiveKept DEF FileInv
<1>6. Written(h)'
  BY DEF Written
<1>7. QED
  BY <1>1, <1>3, <1>4, <1>5, <1>6, OwnStep

\* The rows go first, in one transaction with the recorded state.
LEMMA DeleteFileDataKeeps ==
  ASSUME TypeOK, FileIndexAssumption, FileInv, NEW h \in Handlers, DeleteFileData(h)
  PROVE  FileInv'
<1> PICK f : f = FileOf(h)
  OBVIOUS
<1>1. handler[h].step \in DropSteps /\ "dropVectors" # "idle"
  BY DEF DeleteFileData, At, DropSteps
<1>2. /\ symbols' = DeleteRows(symbols, f[1], f[2], {})
      /\ chunks' = DeleteRows(chunks, f[1], f[2], {})
      /\ fileState' = [fileState EXCEPT ![f] = NoContent]
      /\ acknowledged' = [acknowledged EXCEPT ![f] = NoContent]
      /\ Goto(h, "dropVectors")
      /\ UNCHANGED <<vectors, disturbed, collided, rewriting>>
  BY <1>1, DropOf DEF DeleteFileData
<1>3. Busy(h) /\ f \in Files /\ f[1] # NoCodebase
  BY <1>1, DropOf
<1>4. /\ \A g \in Handlers : g # h => handler'[g] = handler[g]
      /\ handler'[h].step = "dropVectors"
      /\ FileOf(h)' = f /\ Touched(h)' = Touched(h)
  BY <1>1, <1>2, <1>3, GotoEffect
<1>5. \A e \in Files : e # f => SameFile(e)
  <2>1. \A e \in Files : e # f => /\ SameRows(symbols, symbols', e)
                                  /\ SameRows(chunks, chunks', e)
    BY <1>2, <1>3, RowsOfOneFile
  <2>2. \A e \in Files : e # f => /\ fileState'[e] = fileState[e]
                                  /\ acknowledged'[e] = acknowledged[e]
    BY <1>2 DEF TypeOK
  <2>3. QED
    BY <1>2, <2>1, <2>2 DEF SameFile
<1>6. ASSUME f \notin Shaken PROVE CleanFile(f)'
  <2>1. RowsAre(symbols', f, NoContent) /\ RowsAre(chunks', f, NoContent)
    BY <1>2, <1>3 DEF RowsAre, DeleteRows, NoRow
  <2>2. fileState'[f] = NoContent /\ acknowledged'[f] = NoContent
    BY <1>2, <1>3 DEF TypeOK
  <2>3. Dropped(f)'
    BY <2>1, <2>2 DEF Dropped
  <2>4. \A g \in Handlers : g # h => ~(Busy(g) /\ FileOf(g) = f)
    BY <1>3, <1>6, OwnFile
  <2>5. Dropping(f)' /\ ~Quiet(f)'
    <3>1. At(h, "dropVectors")' /\ Begun(h)'
      BY <1>4 DEF At, Begun
    <3>2. QED
      BY <1>4, <2>4, <3>1, OwnFileAfter
  <2>6. QED
    BY <2>3, <2>5 DEF CleanFile
<1>7. handler'[h].step \notin Later
  BY <1>4 DEF Later, IndexSteps
<1>8. QED
  BY <1>1, <1>2, <1>4, <1>5, <1>6, <1>7, DropStep

\* The vectors follow, and the deletion goes on to its next file.
LEMMA DropVectorsKeeps ==
  ASSUME TypeOK, FileIndexAssumption, FileInv, NEW h \in Handlers, DropVectors(h)
  PROVE  FileInv'
<1> PICK f : f = FileOf(h)
  OBVIOUS
<1>1. handler[h].step \in DropSteps /\ At(h, "dropVectors")
  BY DEF DropVectors, At, DropSteps
<1>2. /\ vectors' = DeleteByFilter(f[1], f[2]) /\ NextFile(h)
      /\ UNCHANGED <<symbols, chunks, fileState, acknowledged, disturbed, collided, rewriting>>
  BY <1>1, DropOf DEF DropVectors, history
<1>3. Busy(h) /\ f \in Files /\ f[1] \in Codebases
  BY <1>1, DropOf
<1>4. /\ \A g \in Handlers : g # h => handler'[g] = handler[g]
      /\ ~Begun(h)' /\ handler'[h].step \notin Later /\ ~At(h, "dropVectors")'
      /\ Touched(h)' \subseteq Touched(h)
  BY <1>2, <1>3, NextEffect
<1>5. \A cb \in Codebases, i \in SymbolIDs :
        vectors'[cb][i] = IF cb = f[1] /\ PathOf[i] = f[2] THEN NoContent ELSE vectors[cb][i]
  BY <1>2, <1>3 DEF TypeOK, DeleteByFilter
<1>6. \A e \in Files : e # f => SameFile(e)
  <2>1. PointsOnly(f)
    BY <1>5 DEF PointsOnly
  <2>2. QED
    BY <1>2, <1>3, <2>1, PointsOfOneFile
<1>7. ASSUME f \notin Shaken PROVE CleanFile(f)'
  <2>1. /\ Dropped(f)
        /\ \A g \in Handlers : g # h => ~(Busy(g) /\ FileOf(g) = f)
    BY <1>1, <1>3, <1>7, OwnFile DEF CleanFile
  <2>2. PointsAre(f, NoContent)'
    BY <1>3, <1>5 DEF PointsAre
  <2>3. Matches(f)'
    BY <1>2, <2>1, <2>2 DEF Dropped, Matches
  <2>4. ~Dropping(f)'
    BY <1>4, <2>1, OwnFileAfter
  <2>5. QED
    BY <2>3, <2>4, MatchesIsBacked DEF CleanFile
<1>8. QED
  BY <1>1, <1>2, <1>4, <1>6, <1>7, DropStep

\* Vectors that could not be dropped are those of a disturbed file.
LEMMA DropVectorsFailsKeeps ==
  ASSUME TypeOK, FileIndexAssumption, FileInv, NEW h \in Handlers, DropVectorsFails(h)
  PROVE  FileInv'
<1>1. /\ handler[h].step \in DropSteps /\ NextFile(h)
      /\ Disturb({FileOf(h)}) /\ UNCHANGED <<stores, acknowledged, collided>>
  BY DEF DropVectorsFails, At, DropSteps
<1>2. Busy(h)
  BY <1>1, DropOf
<1>3. /\ \A g \in Handlers : g # h => handler'[g] = handler[g]
      /\ ~Begun(h)' /\ Touched(h)' \subseteq Touched(h)
  BY <1>1, <1>2, NextEffect
<1>4. QED
  BY <1>1, <1>2, <1>3, FailedStep

\* Rows that could not be deleted are left as they were, and the vectors too unless
\* a collection, that goes on to drop them, disturbs the file.
LEMMA DeleteFileDataFailsKeeps ==
  ASSUME TypeOK, FileIndexAssumption, FileInv, NEW h \in Handlers, DeleteFileDataFails(h)
  PROVE  FileInv'
<1>1. /\ handler[h].step \in DropSteps /\ ~Begun(h) /\ "dropVectors" # "idle"
      /\ UNCHANGED <<stores, acknowledged, collided>>
      /\ \/ Goto(h, "dropVectors") /\ Disturb({FileOf(h)})
         \/ NextFile(h) /\ Disturb({})
  BY DEF DeleteFileDataFails, At, DropSteps, Begun
<1>2. Busy(h)
  BY <1>1, DropOf
<1>3. CASE Goto(h, "dropVectors") /\ Disturb({FileOf(h)})
  <2>1. /\ \A g \in Handlers : g # h => handler'[g] = handler[g]
        /\ UNCHANGED FileOf(h) /\ Touched(h)' = Touched(h)
    BY <1>1, <1>2, <1>3, GotoEffect
  <2>2. QED
    BY <1>1, <1>2, <1>3, <2>1, FailedStep
<1>4. CASE NextFile(h) /\ Disturb({})
  <2>1. /\ \A g \in Handlers : g # h => handler'[g] = handler[g]
        /\ ~Begun(h)' /\ Touched(h)' \subseteq Touched(h)
    BY <1>2, <1>4, NextEffect
  <2>2. UNCHANGED <<disturbed, rewriting>>
    BY <1>4 DEF Disturb
  <2>3. QED
    BY <1>1, <1>2, <2>1, <2>2, UntouchedStep
<1>5. QED
  BY <1>1, <1>3, <1>4

-----------------------------------------------------------------------------
(* Crashes and requests                                                    *)

\* A crash disturbs the files that are partly written or dropped, and those only.
LEMMA CrashServerKeeps ==
  ASSUME TypeOK, FileInv, CrashServer
  PROVE  FileInv'
<1> DEFINE partial == {FileOf(h) : h \in {x \in Handlers : Begun(x)}}
<1>1. /\ handler' = [h \in Handlers |-> Idle]
      /\ disturbed' = disturbed \cup partial /\ rewriting' = rewriting \ partial
      /\ UNCHANGED <<stores, acknowledged, collided>>
  BY DEF CrashServer, Disturb
<1>2. \A h \in Handlers : handler'[h].step = "idle" /\ ~Busy(h)'
  BY <1>1 DEF Idle, Busy
<1>3. \A h \in Handlers : /\ handler'[h].step \notin Later /\ Touched(h)' = {}
                          /\ ~At(h, "dropVectors")'
  BY <1>2 DEF Later, IndexSteps, Touched, At
<1>4. rewriting' = {}
  <2>1. ASSUME NEW f \in rewriting PROVE f \in partial
    <3>1. PICK h \in Handlers : handler[h].step \in Later /\ FileOf(h) = f
      BY <2>1 DEF FileInv, Exclusive
    <3>2. Begun(h)
      BY <3>1 DEF Begun, Later, IndexSteps
    <3>3. QED
      BY <3>1, <3>2
  <2>2. QED
    BY <1>1, <2>1
<1>5. Exclusive' /\ \A h \in Handlers : Written(h)'
  BY <1>3, <1>4 DEF Exclusive, Written
<1>6. ASSUME NEW f \in Files \ Shaken' PROVE CleanFile(f)'
  <2>1. f \notin Shaken /\ f \notin partial
    BY <1>1, <1>6 DEF Shaken
  <2>2. Quiet(f)
    BY <2>1 DEF Quiet
  <2>3. Matches(f)'
    BY <1>1, <2>1, <2>2, StoresKept, SameFileKept DEF FileInv, CleanFile
  <2>4. ~Dropping(f)'
    BY <1>3 DEF Dropping
  <2>5. QED
    BY <2>3, <2>4, MatchesIsBacked DEF CleanFile
<1>7. QED
  BY <1>5, <1>6 DEF FileInv

\* A request that begins touches the files it was posted for.
LEMMA PostEffect ==
  ASSUME TypeOK, NEW h \in Handlers, NEW kind, NEW cb, NEW work, Post(h, kind, cb, work)
  PROVE  /\ \A g \in Handlers : g # h => handler'[g] = handler[g]
         /\ handler'[h].step \in {"getHash", "dropRows"}
         /\ Touched(h)' = {<<cb, t[1]>> : t \in work}
<1>1. PICK t \in work : handler' = [handler EXCEPT ![h] =
        [step |-> FirstCall(kind), kind |-> kind, codebase |-> cb, path |-> t[1],
         content |-> t[2], todo |-> work \ {t}]]
  BY DEF Post
<1>2. /\ \A g \in Handlers : g # h => handler'[g] = handler[g]
      /\ handler'[h].step = FirstCall(kind) /\ handler'[h].codebase = cb
      /\ handler'[h].path = t[1] /\ handler'[h].todo = work \ {t}
  BY <1>1 DEF TypeOK
<1>3. handler'[h].step \in {"getHash", "dropRows"}
  BY <1>2 DEF FirstCall
<1>4. Touched(h)' = {<<cb, t[1]>>} \cup {<<cb, u[1]>> : u \in work \ {t}}
  BY <1>2, <1>3 DEF Touched, Busy, FileOf
<1>5. QED
  BY <1>2, <1>3, <1>4

\* It writes nothing yet, and what others work on is known to be disturbed.
LEMMA PostKeeps ==
  ASSUME TypeOK, FileInv, NEW h \in Handlers, ~Busy(h), NEW kind, NEW cb, NEW work,
         Post(h, kind, cb, work)
  PROVE  FileInv'
<1> DEFINE posted == {<<cb, t[1]>> : t \in work}
           shared == posted \cap UNION {Touched(x) : x \in Handlers}
<1>1. /\ ~Busy(h) /\ disturbed' = disturbed \cup shared /\ rewriting' = rewriting \ shared
      /\ UNCHANGED <<stores, acknowledged, collided>>
  BY DEF Post, Disturb
<1>2. /\ \A g \in Handlers : g # h => handler'[g] = handler[g]
      /\ handler'[h].step \in {"getHash", "dropRows"} /\ Touched(h)' = posted
  BY PostEffect
<1>3. \A g \in Handlers : g # h =>
        /\ Busy(g)' <=> Busy(g)
        /\ Touched(g)' = Touched(g) /\ FileOf(g)' = FileOf(g)
        /\ Begun(g)' <=> Begun(g)
        /\ \A s : At(g, s)' <=> At(g, s)
  BY <1>2, SameWork
<1>4. /\ handler'[h].step \notin Later /\ ~Begun(h)' /\ ~At(h, "dropVectors")'
      /\ handler[h].step \notin Later /\ ~Begun(h) /\ ~At(h, "dropVectors")
  BY <1>1, <1>2 DEF Later, IndexSteps, Begun, At, Busy
<1>5. Exclusive'
  <2>1. ASSUME NEW g \in Handlers, NEW k \in Handlers, g # k
        PROVE  Touched(g)' \cap Touched(k)' \subseteq disturbed'
    <3>1. CASE g # h /\ k # h
      BY <1>1, <1>3, <2>1, <3>1 DEF FileInv, Exclusive
    <3>2. CASE g = h \/ k = h
      BY <1>1, <1>2, <1>3, <2>1, <3>2
    <3>3. QED
      BY <3>1, <3>2
  <2>2. ASSUME NEW f \in rewriting'
        PROVE  \E k \in Handlers : /\ handler'[k].step \in Later /\ FileOf(k)' = f
                                   /\ \A g \in Handlers : g # k => f \notin Touched(g)'
    <3>1. PICK k \in Handlers : /\ handler[k].step \in Later /\ FileOf(k) = f
                                /\ \A g \in Handlers : g # k => f \notin Touched(g)
      BY <1>1, <2>2 DEF FileInv, Exclusive
    <3>2. k # h /\ f \in Touched(k)
      BY <1>4, <3>1, TouchesOwn DEF Later, IndexSteps, Busy
    <3>3. f \notin posted
      BY <1>1, <2>2, <3>2
    <3>4. QED
      BY <1>2, <1>3, <3>1, <3>2, <3>3
  <2>3. ASSUME NEW g \in Handlers, handler'[g].step \in Later, FileOf(g)' \notin Shaken'
        PROVE  FileOf(g)' \in rewriting'
    <3>1. g # h /\ handler[g].step \in Later /\ FileOf(g)' = FileOf(g)
      BY <1>2, <1>3, <1>4, <2>3
    <3>2. FileOf(g) \notin Shaken /\ FileOf(g) \notin shared
      BY <1>1, <2>3, <3>1 DEF Shaken
    <3>3. QED
      BY <1>1, <3>1, <3>2 DEF FileInv, Exclusive
  <2>4. QED
    BY <2>1, <2>2, <2>3, Zenon DEF Exclusive
<1>6. /\ symbols' = symbols /\ chunks' = chunks /\ vectors' = vectors
  BY <1>1 DEF stores
<1>7. ASSUME NEW g \in Handlers PROVE Written(g)'
  <2>1. CASE g = h
    BY <1>4, <2>1 DEF Written
  <2>2. CASE g # h
    <3>1. handler'[g] = handler[g] /\ FileOf(g)' = FileOf(g)
      BY <1>2, <1>3, <2>2
    <3>2. \A f, v : PointsAre(f, v)' <=> PointsAre(f, v)
      BY <1>6 DEF PointsAre
    <3>3. QED
      BY <1>1, <1>6, <3>1, <3>2 DEF FileInv, Written, At
  <2>3. QED
    BY <2>1, <2>2
<1>8. ASSUME NEW f \in Files \ Shaken' PROVE CleanFile(f)'
  <2>1. CleanFile(f)
    BY <1>1, <1>8 DEF FileInv, Shaken
  <2>2. (Quiet(f)' <=> Quiet(f)) /\ (Dropping(f)' <=> Dropping(f))
    BY <1>3, <1>4 DEF Quiet, Dropping
  <2>3. QED
    BY <1>1, <2>1, <2>2, StoresKept, SameFileKept DEF CleanFile
<1>9. QED
  BY <1>5, <1>7, <1>8 DEF FileInv

-----------------------------------------------------------------------------
(* The theorems                                                            *)

\* The invariant holds of empty stores, and every step keeps it.
LEMMA FileInvariant == Spec => []FileInv
<1>1. Init => FileInv
  <2> SUFFICES ASSUME Init PROVE FileInv
    OBVIOUS
  <2>1. \A h \in Handlers : /\ ~Busy(h) /\ handler[h].step = "idle"
                            /\ handler[h].step \notin Later /\ Touched(h) = {}
    BY DEF Init, Idle, Busy, Later, IndexSteps, Touched
  <2>2. Exclusive /\ \A h \in Handlers : Written(h)
    BY <2>1 DEF Init, Exclusive, Written
  <2>3. ASSUME NEW f \in Files PROVE CleanFile(f)
    <3>1. f[1] \in Codebases /\ f[1] # NoCodebase
      BY FileIndexAssumption DEF Files
    <3>2. Matches(f) /\ ~Dropping(f)
      BY <2>1, <3>1 DEF Init, Matches, RowsAre, PointsAre, NoRow, Dropping, At
    <3>3. QED
      BY <3>2, MatchesIsBacked DEF CleanFile
  <2>4. QED
    BY <2>2, <2>3 DEF FileInv
<1>2. TypeOK /\ FileInv /\ [Next]_vars => FileInv'
  <2> SUFFICES ASSUME TypeOK, FileInv, [Next]_vars PROVE FileInv'
    OBVIOUS
  <2> USE FileIndexAssumption
  <2>1. ASSUME NEW h \in Handlers, Request(h) PROVE FileInv'
    <3>1. ~Busy(h) /\ \E kind, cb, work : Post(h, kind, cb, work)
      BY <2>1, Zenon DEF Request, IndexFiles, GC, Delete
    <3>2. QED
      BY <3>1, PostKeeps
  <2>2. ASSUME NEW h \in Handlers, StoreCall(h) PROVE FileInv'
    BY <2>2, SkipUnchangedKeeps, StartIndexingKeeps, UpsertSymbolsKeeps,
       DeleteVectorsKeeps, UpsertVectorsKeeps, UpsertChunksKeeps, CleanupKeeps,
       SetFileStateKeeps, DeleteFileDataKeeps, DropVectorsKeeps DEF StoreCall
  <2>3. ASSUME NEW h \in Handlers, Fault(h) PROVE FileInv'
    BY <2>3, DeleteVectorsFailsKeeps, IndexFailsKeeps, DeleteFileDataFailsKeeps,
       DropVectorsFailsKeeps DEF Fault
  <2>4. CASE CrashServer
    BY <2>4, CrashServerKeeps
  <2>5. CASE UNCHANGED vars
    <3>1. UNCHANGED <<symbols, chunks, vectors, fileState, acknowledged, disturbed,
                      collided, rewriting, handler>>
      BY <2>5 DEF vars, stores, history
    <3>2. \A h \in Handlers : /\ Busy(h)' <=> Busy(h)
                              /\ Touched(h)' = Touched(h) /\ FileOf(h)' = FileOf(h)
                              /\ Begun(h)' <=> Begun(h)
                              /\ \A s : At(h, s)' <=> At(h, s)
      BY <3>1, SameWork
    <3>3. Exclusive'
      BY <3>1, <3>2 DEF FileInv, Exclusive, Shaken
    <3>4. \A h \in Handlers : Written(h)'
      <4>1. \A f, v : PointsAre(f, v)' <=> PointsAre(f, v)
        BY <3>1 DEF PointsAre
      <4>2. QED
        BY <3>1, <3>2, <4>1 DEF FileInv, Written, At
    <3>5. \A f \in Files \ Shaken' : CleanFile(f)'
      <4>1. \A f : (Quiet(f)' <=> Quiet(f)) /\ (Dropping(f)' <=> Dropping(f))
        BY <3>2 DEF Quiet, Dropping
      <4>2. \A f \in Files : SameFile(f)
        BY <2>5, StoresKept DEF vars, history
      <4>3. QED
        BY <3>1, <4>1, <4>2, SameFileKept DEF FileInv, CleanFile, Shaken
    <3>6. QED
      BY <3>3, <3>4, <3>5 DEF FileInv
  <2>6. QED
    BY <2>1, <2>2, <2>3, <2>4, <2>5 DEF Next
<1>3. QED
  BY <1>1, <1>2, IndexTypeCorrect, PTL DEF Spec

\* The three stores agree with the recorded state of every file that no request
\* has begun to write or drop, and that no failure, no second request for it and no
\* row of another codebase has met since one request alone rewrote it: in any
\* interleaving of batches, collections, deletions, failed calls and restarts, of
\* any codebases.
THEOREM StateIsTrue == Spec => []IndexMatchesState
<1>1. FileInv => IndexMatchesState
  BY DEF FileInv, CleanFile, Matches, IndexMatchesState, Shaken
<1>2. QED
  BY <1>1, FileInvariant, PTL

\* A vector has a symbol row throughout, unless its file is being dropped.
THEOREM HitsHaveSymbols == Spec => []VectorsBackedBySymbols
<1>1. FileInv => VectorsBackedBySymbols
  BY DEF FileInv, CleanFile, Dropping, Backed, VectorsBackedBySymbols, Shaken
<1>2. QED
  BY <1>1, FileInvariant, PTL

=============================================================================
