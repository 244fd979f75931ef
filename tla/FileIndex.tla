----------------------------- MODULE FileIndex -----------------------------
(***************************************************************************)
(* The per-file indexing pipeline of the server (internal/pipeline and     *)
(* internal/storage): what the uploads, the garbage collection and the     *)
(* deletions of POST /mcp/indexer/{files,gc,delete} do to the rows of a    *)
(* file in Postgres (symbols, chunks, file_state) and in Qdrant (vectors). *)
(*                                                                         *)
(* Every call to a store is a step of its own: it may fail, the server may *)
(* stop before it, and other requests run beside it.  Nothing on the       *)
(* server keeps two requests apart: a daemon posts one at a time, but one  *)
(* whose client gave up (timeout, lost connection, retry) is carried out   *)
(* to the end of its batch, and several daemons may serve one codebase.  A *)
(* file's content is an abstract value and a row carries the content it    *)
(* was written from.                                                       *)
(***************************************************************************)
EXTENDS FiniteSets

CONSTANTS Codebases, Paths,
          Contents,      \* versions of a file (what ContentHash tells apart)
          Versions,      \* those that a path is uploaded with
          SymbolIDs,     \* chunk IDs: a hash of path, qualified name and line
          PathOf,        \* the path hashed into an ID
          SymbolsOf,     \* the IDs ChunkFile makes of a path's content
          Handlers,      \* requests the server works on at one time
          NoCodebase, NoContent

Files == Codebases \X Paths

ASSUME FileIndexAssumption ==
  /\ Versions \in [Paths -> SUBSET Contents]
  /\ PathOf \in [SymbolIDs -> Paths]
  /\ SymbolsOf \in [Paths -> [Contents -> SUBSET SymbolIDs]]
  /\ \A p \in Paths, v \in Contents : \A i \in SymbolsOf[p][v] : PathOf[i] = p
  /\ NoCodebase \notin Codebases /\ NoContent \notin Contents

VARIABLES
  symbols,       \* Postgres symbols, by primary key
  chunks,        \* Postgres chunks, by primary key
  vectors,       \* one Qdrant collection per codebase
  fileState,     \* Postgres file_state: the content hash of each file
  handler,       \* what each handler works on and the store call it makes next
  acknowledged,  \* history: content last counted as indexed or unchanged
  disturbed,     \* history: files that a failure or two requests at one time
                 \* have touched since they were last rewritten
  collided,      \* history: files whose upload met rows of another codebase, and
                 \* the files of those rows, since they were last rewritten
  rewriting      \* history: files one request alone is writing, from the first
                 \* call on and without a failure

stores == <<symbols, chunks, vectors, fileState>>
history == <<acknowledged, disturbed, collided, rewriting>>
vars == <<stores, handler, history>>

NoRow == [codebase |-> NoCodebase, content |-> NoContent]
Row   == [codebase : Codebases, content : Contents]
Table == [SymbolIDs -> Row \cup {NoRow}]

IndexSteps == {"getHash", "upsertSymbols", "deleteVectors", "upsertVectors",
               "upsertChunks", "cleanup", "setState"}
DropSteps  == {"dropRows", "dropVectors"}
Uploads    == {"full", "incremental"}
Drops      == {"gc", "delete"}

\* What is left to do is a set of paths with their new contents.
Idle == [step |-> "idle"]
Work == [step : IndexSteps, kind : Uploads, codebase : Codebases, path : Paths,
         content : Contents, todo : SUBSET (Paths \X Contents)]
        \cup
        [step : DropSteps, kind : Drops, codebase : Codebases, path : Paths,
         content : {NoContent}, todo : SUBSET (Paths \X {NoContent})]

TypeOK ==
  /\ symbols \in Table /\ chunks \in Table
  /\ vectors \in [Codebases -> [SymbolIDs -> Contents \cup {NoContent}]]
  /\ fileState \in [Files -> Contents \cup {NoContent}]
  /\ handler \in [Handlers -> Work \cup {Idle}]
  /\ acknowledged \in [Files -> Contents \cup {NoContent}]
  /\ disturbed \in SUBSET Files /\ collided \in SUBSET Files
  /\ rewriting \in SUBSET Files

Init ==
  /\ symbols = [i \in SymbolIDs |-> NoRow]
  /\ chunks = [i \in SymbolIDs |-> NoRow]
  /\ vectors = [cb \in Codebases |-> [i \in SymbolIDs |-> NoContent]]
  /\ fileState = [f \in Files |-> NoContent]
  /\ handler = [h \in Handlers |-> Idle]
  /\ acknowledged = [f \in Files |-> NoContent]
  /\ disturbed = {} /\ collided = {} /\ rewriting = {}

-----------------------------------------------------------------------------
(* The stores                                                              *)

\* Mutant: the codebase is left out of the inserted columns.
UpsertWithoutCodebase(table, cb, ids, v) ==
  [i \in SymbolIDs |-> IF i \notin ids THEN table[i]
                      ELSE [table[i] EXCEPT !.content = v]]

\* INSERT ... ON CONFLICT (id) DO UPDATE: every column but codebase_id.
Upsert(table, cb, ids, v) ==
  [i \in SymbolIDs |->
     IF i \notin ids THEN table[i]
     ELSE IF table[i] = NoRow THEN [codebase |-> cb, content |-> v]
     ELSE [table[i] EXCEPT !.content = v]]

\* Mutant: the filter on filepath is missing.
DeleteRowsOfCodebase(table, cb, p, keep) ==
  [i \in SymbolIDs |-> IF table[i].codebase = cb /\ i \notin keep THEN NoRow
                      ELSE table[i]]

\* DELETE ... WHERE codebase_id = cb AND filepath = p AND NOT id = ANY(keep).
DeleteRows(table, cb, p, keep) ==
  [i \in SymbolIDs |->
     IF table[i].codebase = cb /\ PathOf[i] = p /\ i \notin keep
     THEN NoRow ELSE table[i]]

\* Mutant: the filter on filepath is missing.
DeleteCollection(cb, p) ==
  [vectors EXCEPT ![cb] = [i \in SymbolIDs |-> NoContent]]

\* The points whose payload has the path go, or all of ids are written.
DeleteByFilter(cb, p) ==
  [vectors EXCEPT ![cb] = [i \in SymbolIDs |->
                             IF PathOf[i] = p THEN NoContent ELSE @[i]]]
UpsertPoints(cb, ids, v) ==
  [vectors EXCEPT ![cb] = [i \in SymbolIDs |-> IF i \in ids THEN v ELSE @[i]]]

-----------------------------------------------------------------------------
(* Requests                                                                *)

Busy(h) == handler[h].step # "idle"
At(h, s) == handler[h].step = s
FileOf(h) == <<handler[h].codebase, handler[h].path>>

\* The file a handler has in hand, and those it is going to take up.
Touched(h) == IF Busy(h)
              THEN {FileOf(h)} \cup {<<handler[h].codebase, t[1]>> : t \in handler[h].todo}
              ELSE {}

\* The IDs of the file in hand.
KeepIDs(h) == SymbolsOf[handler[h].path][handler[h].content]

Goto(h, s) == handler' = [handler EXCEPT ![h].step = s]
Release(h) == handler' = [handler EXCEPT ![h] = Idle]

FirstCall(kind) == IF kind \in Uploads THEN "getHash" ELSE "dropRows"

\* On to the next file of the batch, or the end of the request.
NextFile(h) ==
  IF handler[h].todo = {} THEN Release(h)
  ELSE \E t \in handler[h].todo :
         handler' = [handler EXCEPT ![h].step = FirstCall(handler[h].kind),
                                    ![h].path = t[1], ![h].content = t[2],
                                    ![h].todo = @ \ {t}]

Disturb(files) == /\ disturbed' = disturbed \cup files
                  /\ rewriting' = rewriting \ files

\* A request for some paths begins.  Those that others work on are disturbed.
Post(h, kind, cb, work) ==
  /\ \E t \in work : handler' = [handler EXCEPT ![h] =
       [step |-> FirstCall(kind), kind |-> kind, codebase |-> cb, path |-> t[1],
        content |-> t[2], todo |-> work \ {t}]]
  /\ Disturb({<<cb, t[1]>> : t \in work} \cap UNION {Touched(x) : x \in Handlers})
  /\ UNCHANGED <<stores, acknowledged, collided>>

\* handleIndexerFiles: IndexFile for each file of the batch.
IndexFiles(h, kind, cb, files, new) ==
  Post(h, kind, cb, {<<p, new[p]>> : p \in files})

\* GC lists the file_state rows once and then drops what is not in keep.
GC(h, cb, keep) ==
  Post(h, "gc", cb, {p \in Paths \ keep : fileState[<<cb, p>>] # NoContent} \X {NoContent})

\* handleIndexerDelete drops the named files, tracked or not.
Delete(h, cb, files) == Post(h, "delete", cb, files \X {NoContent})

-----------------------------------------------------------------------------
(* IndexFile                                                               *)

\* A matching hash (looked up by incremental requests only) or a file with no
\* chunks is counted as unchanged.
Unchanged(h) == \/ handler[h].kind = "incremental" /\ fileState[FileOf(h)] = handler[h].content
                \/ KeepIDs(h) = {}

SkipUnchanged(h) ==
  /\ At(h, "getHash") /\ Unchanged(h)
  /\ acknowledged' = [acknowledged EXCEPT ![FileOf(h)] = handler[h].content]
  /\ NextFile(h)
  /\ UNCHANGED <<stores, disturbed, collided, rewriting>>

StartIndexing(h) ==
  /\ At(h, "getHash") /\ ~Unchanged(h)
  /\ Goto(h, "upsertSymbols")
  /\ UNCHANGED <<stores, history>>

\* The files that collide when the file in hand is upserted: some of its IDs are
\* those of rows of another codebase.
Struck(h, table) ==
  LET taken == {i \in KeepIDs(h) : table[i].codebase \notin {NoCodebase, handler[h].codebase}}
  IN {<<table[i].codebase, PathOf[i]>> : i \in taken}
       \cup (IF taken = {} THEN {} ELSE {FileOf(h)})

\* The files rewritten by one request, once this one has begun to write.
BeginRewrite(h) ==
  rewriting \cup (IF \A x \in Handlers \ {h} : FileOf(h) \notin Touched(x)
                  THEN {FileOf(h)} ELSE {})

\* Mutant: the stale symbols go first, before the vectors are replaced.
ReplaceSymbols(h) ==
  /\ At(h, "upsertSymbols")
  /\ symbols' = Upsert(DeleteRows(symbols, handler[h].codebase, handler[h].path, {}),
                       handler[h].codebase, KeepIDs(h), handler[h].content)
  /\ collided' = collided \cup Struck(h, symbols)
  /\ rewriting' = BeginRewrite(h) \ Struck(h, symbols)
  /\ Goto(h, "deleteVectors")
  /\ UNCHANGED <<chunks, vectors, fileState, acknowledged, disturbed>>

UpsertSymbols(h) ==
  /\ At(h, "upsertSymbols")
  /\ symbols' = Upsert(symbols, handler[h].codebase, KeepIDs(h), handler[h].content)
  /\ collided' = collided \cup Struck(h, symbols)
  /\ rewriting' = BeginRewrite(h) \ Struck(h, symbols)
  /\ Goto(h, "deleteVectors")
  /\ UNCHANGED <<chunks, vectors, fileState, acknowledged, disturbed>>

DeleteVectors(h) ==
  /\ At(h, "deleteVectors")
  /\ vectors' = DeleteByFilter(handler[h].codebase, handler[h].path)
  /\ Goto(h, "upsertVectors")
  /\ UNCHANGED <<symbols, chunks, fileState, history>>

\* The error of DeleteByFilter is only logged.
DeleteVectorsFails(h) ==
  /\ At(h, "deleteVectors")
  /\ Goto(h, "upsertVectors")
  /\ Disturb({FileOf(h)})
  /\ UNCHANGED <<stores, acknowledged, collided>>

UpsertVectors(h) ==
  /\ At(h, "upsertVectors")
  /\ vectors' = UpsertPoints(handler[h].codebase, KeepIDs(h), handler[h].content)
  /\ Goto(h, "upsertChunks")
  /\ UNCHANGED <<symbols, chunks, fileState, history>>

UpsertChunks(h) ==
  /\ At(h, "upsertChunks")
  /\ chunks' = Upsert(chunks, handler[h].codebase, KeepIDs(h), handler[h].content)
  /\ collided' = collided \cup Struck(h, chunks)
  /\ rewriting' = rewriting \ Struck(h, chunks)
  /\ Goto(h, "cleanup")
  /\ UNCHANGED <<symbols, vectors, fileState, acknowledged, disturbed>>

\* Mutant: the symbols are cleaned up, the chunk records are not.
CleanupSymbolsOnly(h) ==
  /\ At(h, "cleanup")
  /\ symbols' = DeleteRows(symbols, handler[h].codebase, handler[h].path, KeepIDs(h))
  /\ Goto(h, "setState")
  /\ UNCHANGED <<chunks, vectors, fileState, history>>

CleanupStaleFileData(h) ==
  /\ At(h, "cleanup")
  /\ LET w == handler[h]
     IN /\ chunks' = DeleteRows(chunks, w.codebase, w.path, KeepIDs(h))
        /\ symbols' = DeleteRows(symbols, w.codebase, w.path, KeepIDs(h))
  /\ Goto(h, "setState")
  /\ UNCHANGED <<vectors, fileState, history>>

SetFileState(h) ==
  /\ At(h, "setState")
  /\ fileState' = [fileState EXCEPT ![FileOf(h)] = handler[h].content]
  /\ acknowledged' = [acknowledged EXCEPT ![FileOf(h)] = handler[h].content]
  /\ disturbed' = disturbed \ (rewriting \cap {FileOf(h)})
  /\ collided' = collided \ (rewriting \cap {FileOf(h)})
  /\ rewriting' = rewriting \ {FileOf(h)}
  /\ NextFile(h)
  /\ UNCHANGED <<symbols, chunks, vectors>>

\* Any other call of IndexFile fails (embedding comes right before the vectors
\* are deleted): the file counts as failed and the loop goes on to the next.
IndexFails(h) ==
  /\ handler[h].step \in IndexSteps
  /\ NextFile(h)
  /\ Disturb(IF handler[h].step \in {"getHash", "upsertSymbols"} THEN {} ELSE {FileOf(h)})
  /\ UNCHANGED <<stores, acknowledged, collided>>

-----------------------------------------------------------------------------
(* Garbage collection and deletion                                         *)

\* DeleteFileData: one transaction over chunks, symbols and file_state.
DeleteFileData(h) ==
  /\ At(h, "dropRows")
  /\ LET w == handler[h]
     IN /\ symbols' = DeleteRows(symbols, w.codebase, w.path, {})
        /\ chunks' = DeleteRows(chunks, w.codebase, w.path, {})
  /\ fileState' = [fileState EXCEPT ![FileOf(h)] = NoContent]
  /\ acknowledged' = [acknowledged EXCEPT ![FileOf(h)] = NoContent]
  /\ Goto(h, "dropVectors")
  /\ UNCHANGED <<vectors, disturbed, collided, rewriting>>

\* GC logs the error and still drops the vectors; DeleteFile gives the file up.
DeleteFileDataFails(h) ==
  /\ At(h, "dropRows")
  /\ \/ /\ handler[h].kind = "gc"
        /\ Goto(h, "dropVectors")
        /\ Disturb({FileOf(h)})
     \/ /\ handler[h].kind = "delete"
        /\ NextFile(h)
        /\ Disturb({})
  /\ UNCHANGED <<stores, acknowledged, collided>>

DropVectors(h) ==
  /\ At(h, "dropVectors")
  /\ vectors' = DeleteByFilter(handler[h].codebase, handler[h].path)
  /\ NextFile(h)
  /\ UNCHANGED <<symbols, chunks, fileState, history>>

\* The error of DeleteByFilter is only logged.
DropVectorsFails(h) ==
  /\ At(h, "dropVectors")
  /\ NextFile(h)
  /\ Disturb({FileOf(h)})
  /\ UNCHANGED <<stores, acknowledged, collided>>

-----------------------------------------------------------------------------
\* A request that has written or dropped part of the file in hand.
Begun(h) == handler[h].step \notin {"idle", "getHash", "upsertSymbols", "dropRows"}

\* The server process stops and is started again.
CrashServer ==
  /\ \E h \in Handlers : Busy(h)
  /\ handler' = [h \in Handlers |-> Idle]
  /\ Disturb({FileOf(h) : h \in {x \in Handlers : Begun(x)}})
  /\ UNCHANGED <<stores, acknowledged, collided>>

Request(h) ==
  ~Busy(h) /\ \E cb \in Codebases, files \in SUBSET Paths :
    \/ \E kind \in Uploads, new \in [files -> Contents] :
         /\ \A p \in files : new[p] \in Versions[p]
         /\ IndexFiles(h, kind, cb, files, new)
    \/ GC(h, cb, files)
    \/ Delete(h, cb, files)

StoreCall(h) ==
  \/ SkipUnchanged(h) \/ StartIndexing(h)
  \/ UpsertSymbols(h) \/ DeleteVectors(h) \/ UpsertVectors(h)
  \/ UpsertChunks(h) \/ CleanupStaleFileData(h) \/ SetFileState(h)
  \/ DeleteFileData(h) \/ DropVectors(h)

Fault(h) ==
  \/ DeleteVectorsFails(h) \/ IndexFails(h)
  \/ DeleteFileDataFails(h) \/ DropVectorsFails(h)

Next == \/ \E h \in Handlers : Request(h) \/ StoreCall(h) \/ Fault(h)
        \/ CrashServer

Spec == Init /\ [][Next]_vars
-----------------------------------------------------------------------------
(* What must hold                                                          *)

Quiet(f) == \A h \in Handlers : Begun(h) => FileOf(h) # f

RowsAre(table, f, v) ==
  \A i \in SymbolIDs : PathOf[i] = f[2] =>
    IF v # NoContent /\ i \in SymbolsOf[f[2]][v]
    THEN table[i] = [codebase |-> f[1], content |-> v]
    ELSE table[i].codebase # f[1]

PointsAre(f, v) ==
  \A i \in SymbolIDs : PathOf[i] = f[2] =>
    vectors[f[1]][i] = IF v # NoContent /\ i \in SymbolsOf[f[2]][v]
                       THEN v ELSE NoContent

Chunkless(f, v) == v # NoContent /\ SymbolsOf[f[2]][v] = {}

\* The three stores hold exactly the rows of the content that file_state records,
\* the last one counted as indexed that has any chunk, and nothing of a file it does
\* not record, whatever uploads, collections and deletions ran.  While a request
\* writes a file it differs; a failed call, a crash, two requests that touch the
\* file at one time or another codebase with rows of its IDs can break it until the
\* file is next rewritten by one request alone, and for no other file of the batch.
IndexMatchesState ==
  \A f \in Files \ (disturbed \cup collided) : Quiet(f) =>
    /\ acknowledged[f] = fileState[f] \/ Chunkless(f, acknowledged[f])
    /\ RowsAre(symbols, f, fileState[f])
    /\ RowsAre(chunks, f, fileState[f])
    /\ PointsAre(f, fileState[f])

\* A search hit has a symbol row even while its file is being indexed: symbols
\* are written before the vectors, and stale ones go after them.
VectorsBackedBySymbols ==
  \A f \in Files \ (disturbed \cup collided) :
    (\A h \in Handlers : At(h, "dropVectors") => FileOf(h) # f) =>
      \A i \in SymbolIDs :
        PathOf[i] = f[2] /\ vectors[f[1]][i] # NoContent =>
          symbols[i].codebase = f[1]

\* "hash(codebase + qualified_name)" (ARCHITECTURE.md:238): the symbols of a file
\* that was indexed without a failure are found under its own codebase.
SymbolsOfOwnCodebase ==
  \A f \in Files \ disturbed : Quiet(f) /\ fileState[f] # NoContent =>
    \A i \in SymbolsOf[f[2]][fileState[f]] : symbols[i].codebase = f[1]
=============================================================================
