----------------------------- MODULE FileParse ------------------------------
(***************************************************************************)
(* What the pipeline makes of one file before it stores anything: the      *)
(* symbols and relationships of internal/parser and the chunks and IDs of  *)
(* internal/chunker.                                                       *)
(***************************************************************************)
EXTENDS RelationshipWalk, ChunkSplit

Init == TreeInit

Next == \E p \in Open, line \in Current..(Current + 1) :
          \E k \in Grammar(lang)[KindOf(p)] : Grow(p, k, line)

Spec == Init /\ [][Next]_treeVars

-----------------------------------------------------------------------------
(* The IDs                                                                 *)

\* Mutant: the line is left out of the ID.
ChunkIDByName(s, line) == s.qualified

\* chunkID, for the chunks of one file.
ChunkID(s, line) == <<s.qualified, line>>

IDs(s) == {ChunkID(s, c.first) : c \in Chunks(s.first, s.last, s.content)}

-----------------------------------------------------------------------------
(* What must hold                                                          *)

\* Of some symbols, those whose node a node lies in, and the innermost of them.
Around(symbols, n) == LET path == Path[n] IN {s \in symbols : s.node \in path}
Innermost(symbols, n) ==
  LET around == Around(symbols, n) IN {s \in around : \A t \in around : t.node <= s.node}

\* The statement a symbol is declared in, the other symbols it declares, and the first.
Statement(n) == IF KindOf(tree[n].up) \in GroupKinds THEN tree[n].up ELSE n
Together(symbols, s) == {t \in symbols : Statement(t.node) = Statement(s.node)}
FirstTogether(symbols, s) ==
  LET together == Together(symbols, s) IN {t \in together : \A u \in together : t.node <= u.node}

\* The statement of every symbol on the line of a node is one the node is part of.
AloneOnItsLine(symbols, n) ==
  \A s \in symbols : First(n) \in s.first..s.last =>
    \E a \in Around(symbols, n) : s \in Together(symbols, a)

\* The second walk looks for the caller by lines and the first one left gaps.  All
\* the same, a call or a reference on a line that no other statement shares
\* comes from the innermost symbol it is written in; or, where that is a type of a
\* group in Go or one of several arrow functions in one declaration, which all have
\* the lines of the whole, from the first of them.
UsesAttributed ==
  LET symbols == Symbols
  IN \A r \in {u \in Relationships : u.kind \in {"calls", "references"} /\ u.source # FilePath} :
       AloneOnItsLine(symbols, r.node) =>
         \E s \in Innermost(symbols, r.node) :
           \E t \in FirstTogether(symbols, s) : r.source = t.qualified

\* An inheritance has the qualified name of the symbol that was extracted for the
\* type, so that FinalizeRelationships finds it, although the two walks name types
\* independently; those of nested types in Kotlin and Swift have the short name.
BasesJoinTypes ==
  \A r \in Relationships, s \in Symbols :
    (/\ r.kind = "inherits"
     /\ \/ s.node = tree[r.node].up /\ (lang \in {"kotlin", "swift"} => tree[s.node].up = 0)
        \/ /\ lang = "rust" /\ tree[s.node].kind = "struct"
           /\ NameOf(tree[r.node].up)
                \in {NameOf(s.node)} \cup {g \in Generic : Bare[g] = NameOf(s.node)})
    => r.source = s.qualified

\* UpsertSymbols inserts all chunks of a file in one statement, which fails as a
\* whole if two have one ID: no two declarations that start on lines of their own
\* share one, however they are named, nested and split; except for one inside
\* another of the same qualified name, such as a constructor in Dart.
ChunkIDsDistinct ==
  \A s, t \in Symbols :
    (s.node < t.node /\ ~(s.qualified = t.qualified /\ s.node \in Path[t.node]))
    => IDs(s) \cap IDs(t) = {}

\* Every line of a symbol is in one of its chunks, none is longer than the limit,
\* neighbours overlap as configured and a chunk has the text of its lines; but for
\* functions in Dart, of which it has the signature only.
ChunksCover ==
  \A s \in Symbols :
    LET cs == Chunks(s.first, s.last, s.content)
    IN /\ UNION {c.first..c.last : c \in cs} = s.first..s.last
       /\ \A c \in cs :
            /\ c.content <= MaxLines
            /\ lang # "dart" => c.content = c.last - c.first + 1
            /\ c.first = s.first
                 \/ \E d \in cs : /\ d.first < c.first
                                  /\ d.last - c.first + 1 =
                                       (IF MaxLines > OverlapLines THEN OverlapLines ELSE 0)
=============================================================================
