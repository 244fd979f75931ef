--------------------------- MODULE ClassHierarchy ---------------------------
(***************************************************************************)
(* GetClassHierarchy of internal/storage/postgres/relationships.go: the    *)
(* recursive query over the edges of kind inherits.                        *)
(***************************************************************************)
EXTENDS Integers, FiniteSets

CONSTANTS Classes,
          MaxDepth,   \* bound of the model: the deepest query (the default is 5)
          MaxEdges    \* bound of the model: edges at one time

ASSUME HierarchyAssumption == MaxDepth \in Nat \ {0} /\ MaxEdges \in Nat

VARIABLE inherits   \* pairs <<source_id, target_id>>: the source inherits the target

Directions == {"parents", "children", "both"}

HierarchyInit == inherits = {}

\* FinalizeRelationships stores an edge.
StoreEdge ==
  \E edge \in (Classes \X Classes) \ inherits :
    inherits' = inherits \cup {edge} /\ Cardinality(inherits') <= MaxEdges

\* A file is indexed again without a symbol, whose edges go with it.
DropEdges ==
  \E c \in Classes :
    inherits' = {e \in inherits : c \notin {e[1], e[2]}} /\ inherits' # inherits

\* The join of one row with the relationships: dirFilter, and the CASE that takes the
\* other end of an edge and names the direction.
Adjacent(h, direction) ==
  {row \in
     (IF direction = "children" THEN {}
      ELSE {<<e[2], "parent">> : e \in {f \in inherits : f[1] = h}})
     \cup
     (IF direction = "parents" THEN {}
      ELSE {<<e[1], "child">> : e \in {f \in inherits : f[2] = h}}) : row[1] # h}

\* Mutant: DISTINCT without the order by depth keeps any row of a symbol.
AnyRow(rows) == rows

\* DISTINCT ON (id) ORDER BY id, depth; of rows that tie PostgreSQL returns one.
Distinct(rows) == {r \in rows : \A q \in rows : q.id = r.id => r.depth <= q.depth}

\* UNION ALL: a symbol that is reached twice is followed twice, and only the depth ends
\* the recursion where the edges have a cycle.
Hierarchy(c, direction, depth) ==
  LET level[d \in 0..depth] ==
        IF d = 0 THEN {<<c, "self">>}
        ELSE UNION {Adjacent(h[1], direction) : h \in level[d - 1]}
  IN Distinct(UNION {{[id |-> h[1], depth |-> d, direction |-> h[2]] : h \in level[d]} :
                       d \in 0..depth})

-----------------------------------------------------------------------------
Step(a, b, direction) ==
  \/ direction \in {"parents", "both"} /\ <<a, b>> \in inherits
  \/ direction \in {"children", "both"} /\ <<b, a>> \in inherits

Within(c, direction, depth) ==
  LET w[d \in 0..depth] ==
        IF d = 0 THEN {c}
        ELSE w[d - 1] \cup {b \in Classes : \E a \in w[d - 1] : Step(a, b, direction)}
  IN w[depth]

Nearest ==
  \A c \in Classes, direction \in Directions, depth \in 1..MaxDepth :
    LET rows == Hierarchy(c, direction, depth)
    IN /\ {r.id : r \in rows} = Within(c, direction, depth)
       /\ \A r \in rows : r.depth = 0 \/ r.id \notin Within(c, direction, r.depth - 1)
       /\ direction # "both" => \A q, r \in rows : q.id = r.id => q = r

\* After every change of the edges get_class_hierarchy lists exactly the classes a chain
\* of at most so many of them leads to, each with the length of the shortest chain,
\* through diamonds and cycles, and a class only once if it is asked for the parents or
\* the children alone.
HierarchyNearest == [][inherits' # inherits => Nearest']_inherits
=============================================================================
