----------------------------- MODULE SourceTree -----------------------------
(***************************************************************************)
(* The syntax trees internal/parser walks, reduced to the nodes its walks  *)
(* tell apart.  tree-sitter builds them; here they grow in pre-order, one  *)
(* node at a time, so that every reachable state is a tree of the chosen   *)
(* language.                                                               *)
(*                                                                         *)
(*   class   a declaration whose members the language's walk may visit     *)
(*   struct  a type declaration whose members it never visits              *)
(*   func    a function, method, constructor or property; "of" is its      *)
(*           receiver (Go), extended type (Kotlin) or qualifier (C++)      *)
(*   impl    an impl block (Rust) or extension (Swift) of the named type   *)
(*   wrap    a node around declarations: a grouped type declaration (Go),  *)
(*           a decorator (Python), an export (TypeScript, JavaScript), a   *)
(*           module (Rust), a preprocessor conditional (C), a namespace or *)
(*           template (C++), a companion object (Kotlin)                   *)
(*   let     a lexical declaration (TypeScript, JavaScript), whose         *)
(*           functions are the arrow functions it declares                 *)
(*   import, call, ref, base: an import, a call ("of" is the variable it   *)
(*           is made through), a reference to a type, an inherited type    *)
(***************************************************************************)
EXTENDS Naturals, Sequences

CONSTANTS Names,      \* what declarations and their uses are called
          Generic,    \* a name with type parameters, as it is written
          Bare,       \* what such a name is without them
          Variable,   \* a variable that calls are made through
          MaxNodes    \* bound on the size of a tree

NoName == "none"
Languages == {"go", "python", "typescript", "javascript", "rust", "c", "cpp",
              "kotlin", "swift", "dart"}
Declarations == {"class", "struct", "func", "impl", "wrap", "let"}

ASSUME TreeAssumption ==
  /\ NoName \notin Names \cup Generic \cup {Variable}
  /\ Variable \notin Names
  /\ Generic \cap Names = {} /\ Bare \in [Generic -> Names]
  /\ MaxNodes \in Nat

VARIABLES lang, tree
treeVars == <<lang, tree>>

Uses(l) == CASE l = "javascript" -> {"call"} [] OTHER -> {"call", "ref"}

\* What a node of each kind can hold; "file" is the root.
Grammar(l) ==
  LET U == Uses(l)
      None == [k \in Declarations \cup {"file", "import", "call", "ref", "base"} |-> {}]
  IN CASE l = "go" ->
          [None EXCEPT !["file"] = {"import", "class", "func", "wrap"},
                       !["wrap"] = {"class"},
                       !["class"] = {"ref", "base"},
                       !["func"] = U \cup {"class"}]
     [] l = "python" ->
          [None EXCEPT !["file"] = {"import", "class", "func", "wrap"},
                       !["wrap"] = {"class", "func"},
                       !["class"] = U \cup {"class", "func", "wrap", "base"},
                       !["func"] = U \cup {"class", "func"}]
     [] l \in {"typescript", "javascript"} ->
          [None EXCEPT !["file"] = {"import", "class", "func", "wrap", "let"}
                                   \cup (IF l = "typescript" THEN {"struct"} ELSE {}),
                       !["wrap"] = {"class", "func", "let"},
                       !["let"] = U \cup {"func"},
                       !["class"] = U \cup {"func", "base"},
                       !["struct"] = {"ref"},
                       !["func"] = U \cup {"class", "func"}]
     [] l = "rust" ->
          [None EXCEPT !["file"] = {"import", "class", "struct", "func", "impl", "wrap"},
                       !["wrap"] = {"struct", "func", "impl"},
                       !["class"] = {"func"},
                       !["struct"] = {"ref"},
                       !["impl"] = {"func", "base"},
                       !["func"] = U \cup {"func"}]
     [] l = "c" ->
          [None EXCEPT !["file"] = {"import", "struct", "func", "wrap"},
                       !["wrap"] = {"struct", "func"},
                       !["struct"] = {"ref"},
                       !["func"] = U]
     [] l = "cpp" ->
          [None EXCEPT !["file"] = {"import", "class", "struct", "func", "wrap"},
                       !["wrap"] = {"class", "struct", "func", "wrap"},
                       !["class"] = {"class", "func", "ref", "base"},
                       !["struct"] = {"func", "ref", "base"},
                       !["func"] = U]
     [] l = "kotlin" ->
          [None EXCEPT !["file"] = {"import", "class", "func"},
                       !["wrap"] = {"class", "func"},
                       !["class"] = U \cup {"class", "func", "wrap", "base"},
                       !["func"] = U \cup {"class", "func"}]
     [] l = "swift" ->
          [None EXCEPT !["file"] = {"import", "class", "func", "impl"},
                       !["class"] = U \cup {"class", "func", "base"},
                       !["impl"] = {"class", "func", "base"},
                       !["func"] = U \cup {"class", "func"}]
     [] l = "dart" ->
          [None EXCEPT !["file"] = {"import", "class", "struct", "func"},
                       !["class"] = U \cup {"func", "base"},
                       !["struct"] = {"func"},
                       !["func"] = U]

-----------------------------------------------------------------------------
Nodes == DOMAIN tree
KindOf(n) == IF n = 0 THEN "file" ELSE tree[n].kind
NameOf(n) == tree[n].name
OfKind(k) == {n \in Nodes : tree[n].kind = k}
In(p, k) == {n \in OfKind(k) : tree[n].up = p}

\* A node with all its ancestors; 0 is the root.
Path == [n \in 0..Len(tree) |-> IF n = 0 THEN {} ELSE tree[n].path]
First(n) == tree[n].line
Last(n) == LET inside == {m \in Nodes : n \in Path[m]}
           IN CHOOSE l \in {tree[m].line : m \in inside} :
                \A m \in inside : tree[m].line <= l

\* What qualifies a name in the tree itself.
Qualifiers(l, k, p) ==
  CASE k = "func" /\ p = "file" /\ l = "go" -> {NoName} \cup Names \cup Generic
  [] k = "func" /\ p = "file" /\ l \in {"kotlin", "cpp"} -> {NoName} \cup Names
  [] k = "call" -> {NoName, Variable}
  [] OTHER -> {NoName}
Named(l, k) ==
  CASE k \in {"wrap", "let"} -> {NoName}
  [] k = "impl" /\ l = "rust" -> Names \cup Generic
  [] OTHER -> Names

\* What declares several things in one statement.
GroupKinds ==
  CASE lang = "go" -> {"wrap"}
    [] lang \in {"typescript", "javascript"} -> {"let"}
    [] OTHER -> {}

\* Where the next node in pre-order can be: below the last node or one of its ancestors.
Open == IF Len(tree) < MaxNodes THEN {0} \cup Path[Len(tree)] ELSE {}
Current == IF tree = <<>> THEN 0 ELSE tree[Len(tree)].line

TreeInit == lang \in Languages /\ tree = <<>>

\* The next node.  A declaration starts on a line of its own, anything else and what is
\* declared in a group there or on the current line.  An import comes first, and one is
\* enough; inherited types come before members, other than the embedded ones of Go, and
\* an impl block has one; a group declares no name twice.
Grow(p, k, line) ==
  /\ p \in Open
  /\ k \in Grammar(lang)[KindOf(p)]
  /\ k = "import" => tree = <<>>
  /\ k = "base" /\ lang # "go" =>
       \A n \in Nodes : tree[n].up = p => tree[n].kind = "base" /\ lang # "rust"
  /\ \/ line = Current + 1
     \/ /\ k \notin Declarations \/ KindOf(p) \in GroupKinds
        /\ p # 0 /\ line = Current
  /\ \E name \in Named(lang, k), of \in Qualifiers(lang, k, KindOf(p)) :
       /\ KindOf(p) \in GroupKinds /\ k \in Declarations =>
            \A n \in Nodes : tree[n].up = p /\ tree[n].kind \in Declarations => NameOf(n) # name
       /\ tree' = Append(tree, [kind |-> k, name |-> name, of |-> of, up |-> p,
                                path |-> Path[p] \cup {Len(tree) + 1}, line |-> line])
  /\ UNCHANGED lang
=============================================================================
