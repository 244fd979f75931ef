----------------------------- MODULE McpServer -----------------------------
(***************************************************************************)
(* The server towards its MCP clients: a process that starts, migrates,    *)
(* serves and stops (ServerLife), its sessions and streams (McpSessions),  *)
(* the tools (McpTools, ClassHierarchy) and the collection they search,    *)
(* which uploads create (QdrantCollection).  A POST to /mcp needs a        *)
(* session; what a process keeps in memory ends with it.                   *)
(***************************************************************************)
EXTENDS ServerLife, McpSessions, McpTools, QdrantCollection, ClassHierarchy

vars == <<lifeVars, sessionVars, toolVars, collectionVars, inherits>>

Init ==
  /\ LifeInit /\ SessionsInit /\ ToolsInit /\ CollectionInit /\ HierarchyInit

Serving == phase = "serving" /\ UNCHANGED lifeVars

Start ==
  LifeStep /\ UNCHANGED <<sessionVars, toolVars, collectionVars, inherits>>

ClientConnects ==
  Serving /\ SessionStep /\ UNCHANGED <<toolVars, collectionVars, inherits>>

\* handlePost: the session is looked up once, before the tool runs.
Post(c) ==
  /\ Serving /\ sessions # {} /\ StartTool(c)
  /\ UNCHANGED <<sessionVars, collectionVars, inherits>>

Serve(c) ==
  /\ Serving /\ ToolStep(c, collection)
  /\ UNCHANGED <<sessionVars, collectionVars, inherits>>

\* handleIndexerFiles: the collection first, then the files and the edges.
Upload ==
  \/ Serving /\ CollectionStep /\ UNCHANGED <<sessionVars, toolVars, inherits>>
  \/ /\ Serving /\ \E u \in Uploads : upload[u].at = "ready"
     /\ \/ (\E f \in Files : IndexFile(f)) /\ UNCHANGED inherits
        \/ DropEdges /\ UNCHANGED toolVars
     /\ UNCHANGED <<sessionVars, collectionVars>>
  \/ /\ Serving /\ \E u \in Uploads : upload[u].at = "finalizing"
     /\ StoreEdge
     /\ UNCHANGED <<sessionVars, toolVars, collectionVars>>

StopServer ==
  Stop /\ LoseSessions /\ LoseCalls /\ LoseUploads /\ UNCHANGED inherits

Next ==
  \/ Start \/ ClientConnects \/ Upload \/ StopServer
  \/ \E c \in Calls : Post(c) \/ Serve(c)

\* A handler runs on: its queries and requests end, those to Voyage, Anthropic and
\* Cohere by a timeout.
Spec == Init /\ [][Next]_vars /\ \A c \in Calls : WF_vars(Serve(c))

-----------------------------------------------------------------------------
\* Whoever works for a client or for the indexer does so on the schema of all
\* migrations, however often earlier processes failed between two of them: there is no
\* serving without the store (initBackends: "Fail-fast is intentional").
ServingHasSchema ==
  phase = "serving" \/ (\E c \in Calls : Working(c)) => schema = 1..MigrationFiles

\* The channels a session has are those of its open streams, each once, whatever
\* streams were closed and whether the session was deleted.
StreamsRegistered ==
  \A id \in SessionIDs :
    /\ Range(sseClients[id]) = {s \in Streams : stream[s] = [at |-> "open", session |-> id]}
    /\ IsInjective(sseClients[id])

\* A stored summary was written about the sources its hash names, and these are what the
\* module looked like at one moment, unless a file was indexed between the two reads.
SummaryOfItsSources ==
  summary # NoSummary =>
    /\ summary.hash = SourceHash(summary.files, summary.key)
    /\ ~summary.torn =>
         \E rows \in SUBSET Rows : summary.files = FilesOf(rows) /\ summary.key = KeyOf(rows)

\* A collection nobody is setting up has all payload indexes, unless the upload or the
\* process that created it did not get to the end: EnsureCollection takes a collection
\* that exists for a finished one and never makes up for it.
CollectionIndexed ==
  collection /\ ~interrupted /\ (\A u \in Uploads : upload[u].at # "indexing")
    => indexed = 1..PayloadFields

\* Every call of a tool is answered, with a result or an error, whichever backend fails
\* in it; exceptions are the end of the process and a range of lines that ends before it
\* starts.
Backwards(range) == range[2] > 0 /\ range[1] > range[2] + 1

RequestsAnswered ==
  \A c \in Calls :
    Working(c) /\ ~Backwards(call[c].range)
      ~> call[c].at = "idle" \/ phase = "down"
=============================================================================
