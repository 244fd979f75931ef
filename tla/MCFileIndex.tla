---------------------------- MODULE MCFileIndex ----------------------------
(* Small instances of FileIndex.  In p, v1 has the symbols x and y, v2 has y   *)
(* and z, as far as the instance has them; empty is a content without any      *)
(* chunk.  q has one symbol, other, and one content, only.                     *)
EXTENDS FileIndex, TLC

CONSTANTS p, q, v1, v2, only, empty, x, y, z, other, h1, h2

Sources == [i \in SymbolIDs |-> IF i = other THEN q ELSE p]

Parsed == [path \in Paths |-> [v \in Contents |->
             CASE v = empty -> {}
               [] path = q  -> {other}
               [] v = v1    -> {x, y} \cap SymbolIDs
               [] OTHER     -> {y, z} \cap SymbolIDs]]

Uploaded == [path \in Paths |-> Contents \cap (IF path = q THEN {only, empty}
                                               ELSE {v1, v2, empty})]

HandlerSymmetry == Permutations(Handlers)

\* With y the only symbol of p, its two contents have the same symbols.
BatchSymmetry == Permutations(Handlers) \cup Permutations({v1, v2})
=============================================================================
