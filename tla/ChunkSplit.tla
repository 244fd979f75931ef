----------------------------- MODULE ChunkSplit -----------------------------
(***************************************************************************)
(* How internal/chunker cuts a symbol into chunks.                         *)
(***************************************************************************)
EXTENDS Naturals

CONSTANTS MaxLines, OverlapLines

ASSUME ChunkAssumption == MaxLines \in Nat \ {0} /\ OverlapLines \in Nat \ {0}

\* Mutant: the overlap is taken off the chunk, not off the stride.
FullStride == MaxLines

Stride == IF MaxLines > OverlapLines THEN MaxLines - OverlapLines ELSE MaxLines

Smaller(m, n) == IF m <= n THEN m ELSE n

\* splitContent ends with the first part that reaches the end of the content.
Starts(content) ==
  {i * Stride : i \in {j \in 0..content : j = 0 \/ (j - 1) * Stride + MaxLines < content}}

\* The chunks of a symbol that starts on a line and ends on another: where they
\* start and end and how many lines of content they have.
Chunks(first, last, content) ==
  IF content <= MaxLines THEN {[first |-> first, last |-> last, content |-> content]}
  ELSE {[first |-> first + s, last |-> first + Smaller(s + MaxLines, content) - 1,
         content |-> Smaller(MaxLines, content - s)] : s \in Starts(content)}
=============================================================================
