---------------------------- MODULE MCMcpServer ----------------------------
(* A small instance of McpServer. *)
EXTENDS McpServer

OneFile == [f \in {"a"} |-> 1..2]

\* All of four lines, two of them, from one on, a range that ends before it starts, and
\* one that starts behind the file.
FewRanges == {<<0, 0>>, <<2, 3>>, <<3, 0>>, <<4, 2>>, <<6, 2>>}

\* Who comes first; the others are no different.
FirstSession == CHOOSE id \in SessionIDs : TRUE
FirstUpload == CHOOSE u \in Uploads : TRUE

\* Parts that share only the process, and tools that read nothing another call writes,
\* do not disturb each other: a behaviour moves one of them, and the process.
StreamsMoved == Cardinality(created) > 1 + stops
                \/ Cardinality(created \ sessions) > stops
                \/ (created # {} /\ FirstSession \notin created)
                \/ \E s \in Streams : stream[s] # Unopened
UploadsMoved == interrupted \/ (\E u \in Uploads \ {FirstUpload} : upload[u] # NoUpload)
                \/ \E u \in Uploads : upload[u].at \in {"creating", "indexing"}
ToolsMoved == call # [c \in Calls |-> Idle] \/ symbols # {} \/ summary # NoSummary
EdgesMoved == inherits # {} \/ \E u \in Uploads : upload[u].at = "finalizing"

Alone == \A c \in Calls : call[c].tool \notin {"none", "summary"} =>
           /\ \A d \in Calls \ {c} : call[d] = Idle
           /\ symbols = {} /\ summary = NoSummary

PartsApart ==
  /\ Cardinality({p \in {<<"streams", StreamsMoved>>, <<"uploads", UploadsMoved>>,
                         <<"tools", ToolsMoved>>, <<"edges", EdgesMoved>>} : p[2]}) <= 1
  /\ Alone
=============================================================================
