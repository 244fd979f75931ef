------------------------------ MODULE McpTools ------------------------------
(***************************************************************************)
(* tools/call: the tools that take several steps, of                       *)
(* internal/mcp/tools_metadata.go and tools_search.go, with the generator  *)
(* of internal/summary that get_module_summary falls back to.  The models  *)
(* have one module of one codebase, whose symbols change under the calls.  *)
(***************************************************************************)
EXTENDS Integers, FiniteSets, FiniteSetsExt

CONSTANTS Calls,      \* requests of MCP clients in progress at one time
          NamesOf,    \* the symbols a file may declare, numbered in the order of
                      \* ORDER BY kind, qualified; no two files have one in common
          KeyNames,   \* those of kind class, struct or function
          KeyCount,   \* LIMIT of GetModuleSymbolSummary (50)
          LineCount,  \* lines of the file get_file_context reads
          Ranges,     \* pairs of lines asked for, 0 where the client leaves one out
          NoSummary   \* no row

Files == DOMAIN NamesOf
RowsOf(f) == [file : {f}, name : NamesOf[f]]
Rows == UNION {RowsOf(f) : f \in Files}

ASSUME ToolsAssumption ==
  /\ \A f \in Files : NamesOf[f] \subseteq Nat
  /\ \A f, g \in Files : f # g => NamesOf[f] \cap NamesOf[g] = {}
  /\ KeyCount \in Nat \ {0} /\ LineCount \in Nat \ {0} /\ Ranges \subseteq Nat \X Nat

VARIABLES
  symbols,    \* rows of the module
  summary,    \* the row of summaries for the module, or NoSummary
  call        \* per request: where its handler stands and what it has read

toolVars == <<symbols, summary, call>>

\* A call that was answered is idle, one whose connection was dropped is cut.
Idle == [at |-> "idle", tool |-> "none", range |-> <<0, 0>>, files |-> {}, key |-> {},
         torn |-> FALSE]

ToolsInit == symbols = {} /\ summary = NoSummary /\ call = [c \in Calls |-> Idle]

Working(c) == call[c].at \notin {"idle", "cut"}

Go(c, at) == call' = [call EXCEPT ![c].at = at]
Leave(c, at) == call' = [call EXCEPT ![c] = [Idle EXCEPT !.at = at]]
Answer(c) == Leave(c, "idle")
Fixed == UNCHANGED <<symbols, summary>>

\* A file of the module is indexed again, in one step.  torn is history: a call was
\* between its two reads.
IndexFile(f) ==
  \E rows \in SUBSET RowsOf(f) :
    /\ symbols' = {r \in symbols : r.file # f} \cup rows
    /\ symbols' # symbols
    /\ call' = [c \in Calls |-> [call[c] EXCEPT !.torn = @ \/ call[c].at = "symbols"]]
    /\ UNCHANGED summary

\* handleToolsCall picks the tool.  A call that is refused for its arguments, or by the
\* query that comes first, changes nothing and has no step; nor have the tools that only
\* query, get_class_hierarchy among them.
StartTool(c) ==
  /\ ~Working(c)
  /\ \/ call' = [call EXCEPT ![c] = [Idle EXCEPT !.at = "cached", !.tool = "summary"]]
     \/ \E t \in {"search", "explain"} :
          call' = [call EXCEPT ![c] = [Idle EXCEPT !.at = "embed", !.tool = t]]
     \/ \E r \in Ranges :
          call' = [call EXCEPT ![c] = [Idle EXCEPT !.at = "context", !.tool = "context",
                                                   !.range = r]]
  /\ Fixed

-----------------------------------------------------------------------------
(* get_module_summary                                                      *)

FilesOf(rows) == {r.file : r \in rows}
KeyOf(rows) ==
  LET key == {r \in rows : r.name \in KeyNames}
  IN {r \in key : Cardinality({q \in key : q.name < r.name}) < KeyCount}

\* The signatures of the symbols are in the prompt but not in the hash.
SourceHash(files, key) == <<files, {r.name : r \in key}>>

\* A cached summary is served whatever its hash.  Without one the generator runs, unless
\* summaries are disabled.
GetSummary(c) ==
  /\ call[c].at = "cached"
  /\ \/ summary = NoSummary /\ Go(c, "files")
     \/ Leave(c, "stats")
  /\ Fixed

GetModuleFiles(c) ==
  /\ call[c].at = "files"
  /\ call' = [call EXCEPT ![c].at = "symbols", ![c].files = FilesOf(symbols)]
  /\ Fixed

GetModuleSymbols(c) ==
  /\ call[c].at = "symbols"
  /\ call' = [call EXCEPT ![c].at = "existing", ![c].key = KeyOf(symbols)]
  /\ Fixed

\* Another call may have stored a summary since.
CheckExisting(c) ==
  /\ call[c].at = "existing"
  /\ IF summary # NoSummary /\ summary.hash = SourceHash(call[c].files, call[c].key)
     THEN Leave(c, "stats") ELSE Go(c, "llm")
  /\ Fixed

CallLLM(c) == call[c].at = "llm" /\ Go(c, "upsert") /\ Fixed

\* Mutant: the hash is computed when the summary is stored.
RowHashedLate(c) ==
  [hash |-> SourceHash(FilesOf(symbols), KeyOf(symbols)),
   files |-> call[c].files, key |-> call[c].key, torn |-> call[c].torn]

RowFor(c) ==
  [hash |-> SourceHash(call[c].files, call[c].key),
   files |-> call[c].files, key |-> call[c].key, torn |-> call[c].torn]

\* ON CONFLICT DO UPDATE: the last one wins.
UpsertSummary(c) ==
  /\ call[c].at = "upsert"
  /\ summary' = RowFor(c)
  /\ Leave(c, "stats")
  /\ UNCHANGED symbols

Generating(c) == call[c].at \in {"files", "symbols", "existing", "llm", "upsert"}

\* Mutant: a failed generation is tried again.
GenerateAgain(c) == Generating(c) /\ Leave(c, "cached") /\ Fixed

\* A query or the request to Anthropic fails, which is logged.
GenerationFails(c) == Generating(c) /\ Leave(c, "stats") /\ Fixed

\* With an error if one of the two queries fails.
ListModules(c) == call[c].at \in {"cached", "stats"} /\ Answer(c) /\ Fixed

SummaryStep(c) ==
  \/ GetSummary(c) \/ GetModuleFiles(c) \/ GetModuleSymbols(c) \/ CheckExisting(c)
  \/ CallLLM(c) \/ UpsertSummary(c) \/ GenerationFails(c) \/ ListModules(c)

-----------------------------------------------------------------------------
(* search_code, explain_subsystem and get_file_context                     *)

Embed(c) == call[c].at = "embed" /\ Go(c, "search") /\ Fixed

\* Without chunks explain_subsystem asks the LLM all the same.
EmbedFails(c) ==
  /\ call[c].at = "embed"
  /\ IF call[c].tool = "explain" THEN Leave(c, "narrate") ELSE Answer(c)
  /\ Fixed

\* found: the collection exists, and the search returned something.  Results are
\* reranked if there are two or more.
HybridSearch(c, found) ==
  /\ call[c].at = "search"
  /\ CASE call[c].tool = "explain" -> Leave(c, "narrate")
       [] found -> Go(c, "rerank") \/ Answer(c)
       [] OTHER -> Answer(c)
  /\ Fixed

\* If that fails the order of the search stays. The indexes of its answer are taken to be
\* those of the documents sent: the code does not check them.
Rerank(c) == call[c].at = "rerank" /\ Answer(c) /\ Fixed

Narrate(c) == call[c].at = "narrate" /\ Answer(c) /\ Fixed

\* The slice of lines start..end - 1, counted from 0; a start behind the end is a panic.
\* If the start is behind the file, all of it is returned.
SlicePanics(range) ==
  LET start == IF range[1] < 1 THEN 0 ELSE range[1] - 1
      end == IF range[2] <= 0 \/ range[2] > LineCount THEN LineCount ELSE range[2]
  IN range # <<0, 0>> /\ start < LineCount /\ start > end

\* The handler of net/http recovers and drops the connection.
GetFileContext(c) ==
  /\ call[c].at = "context"
  /\ IF SlicePanics(call[c].range)
     THEN Leave(c, "cut") ELSE Answer(c)
  /\ Fixed

ToolStep(c, found) ==
  \/ SummaryStep(c)
  \/ Embed(c) \/ EmbedFails(c) \/ HybridSearch(c, found) \/ Rerank(c) \/ Narrate(c)
  \/ GetFileContext(c)

\* What was stored stays.
LoseCalls ==
  /\ call' = [c \in Calls |-> Idle]
  /\ UNCHANGED <<symbols, summary>>

=============================================================================
