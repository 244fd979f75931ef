-------------------------- MODULE RelationshipWalk --------------------------
(***************************************************************************)
(* The relationships internal/parser extracts in a second walk.  It visits *)
(* every node of the tree, whatever the symbol walk passed over, and finds *)
(* the source of a call or a reference by lines, that of an inheritance by *)
(* the name of the declaration.                                            *)
(*                                                                         *)
(* Builtin functions and types are left out of Names.                      *)
(***************************************************************************)
EXTENDS SymbolWalk

FilePath == <<"path of the file">>
Relationship(n, source, target, kind) ==
  [node |-> n, source |-> source, target |-> target, kind |-> kind]

\* Mutant: any symbol around the line will do.
FirstEnclosing(symbols, line) ==
  LET around == {s \in symbols : s.first <= line /\ line <= s.last}
  IN {s \in around : \A t \in around : s.node <= t.node}

\* findEnclosingSymbol: the first of the narrowest symbols around a line, if any.
Enclosing(symbols, line) ==
  LET around == {s \in symbols : s.first <= line /\ line <= s.last}
      narrowest == {s \in around : \A t \in around : s.last - s.first <= t.last - t.first}
  IN {s \in narrowest : \A t \in narrowest : s.node <= t.node}

\* emitCallRelationship; an empty callee is a call the language's walk cannot name.
Calls(callee) ==
  LET symbols == Symbols
      named == {n \in DOMAIN callee : callee[n] # <<>>}
  IN UNION {{Relationship(n, s.qualified, callee[n], "calls") :
               s \in Enclosing(symbols, First(n))} : n \in named}

\* emitTypeRefRelationship; a type does not refer to itself.
ReferencesFrom(ns) ==
  LET symbols == Symbols
  IN UNION {{Relationship(n, s.qualified, <<NameOf(n)>>, "references") :
               s \in {e \in Enclosing(symbols, First(n)) : e.qualified # <<NameOf(n)>>}} :
            n \in ns}
References == ReferencesFrom(OfKind("ref"))

\* emitImportRelationship
Imports == {Relationship(n, FilePath, <<NameOf(n)>>, "references") : n \in OfKind("import")}

\* emitInheritsRelationship, for the bases of declarations with a name as a source.
Inherits(source) ==
  {Relationship(b, <<source[tree[b].up]>>, <<NameOf(b)>>, "inherits") :
     b \in {n \in OfKind("base") : tree[n].up \in DOMAIN source}}
NamesOf(ks) == [n \in UNION {OfKind(k) : k \in ks} |-> NameOf(n)]

\* Mutant: the type parameters of an impl block stay.
AsWritten(n) == NameOf(n)
\* The walk for Rust drops what follows "<".
WithoutParameters(n) == IF NameOf(n) \in Generic THEN Bare[NameOf(n)] ELSE NameOf(n)
ImplNames == [n \in OfKind("impl") |-> WithoutParameters(n)]

\* extractCalleeFromFieldName and extractNavigationCallee: a variable stays in the
\* callee's name.
DottedCallee ==
  [n \in OfKind("call") |->
     IF tree[n].of = NoName THEN <<NameOf(n)>> ELSE <<tree[n].of, NameOf(n)>>]
\* The field of a field expression, without the object.
FieldCallee == [n \in OfKind("call") |-> <<NameOf(n)>>]
\* extractDartCallFromExprStmt: only an identifier followed by its arguments.
DartCallee ==
  [n \in OfKind("call") |-> IF tree[n].of = NoName THEN <<NameOf(n)>> ELSE <<>>]

\* The name of an embedded type is a reference too.
GoRelationships ==
  Calls(DottedCallee) \cup ReferencesFrom(OfKind("ref") \cup OfKind("base"))
    \cup Inherits(NamesOf({"class"}))
PythonRelationships ==
  Imports \cup Calls(DottedCallee) \cup References \cup Inherits(NamesOf({"class"}))
JavaScriptRelationships == Imports \cup Calls(DottedCallee) \cup Inherits(NamesOf({"class"}))
TypeScriptRelationships == JavaScriptRelationships \cup References
RustRelationships ==
  Imports \cup Calls(FieldCallee) \cup References \cup Inherits(ImplNames)
CRelationships == Imports \cup Calls(FieldCallee) \cup References
CppRelationships ==
  Imports \cup Calls(FieldCallee) \cup References \cup Inherits(NamesOf({"class", "struct"}))
KotlinRelationships ==
  Imports \cup Calls(DottedCallee) \cup References \cup Inherits(NamesOf({"class"}))
SwiftRelationships ==
  Imports \cup Calls(DottedCallee) \cup References \cup Inherits(NamesOf({"class", "impl"}))
DartRelationships ==
  Imports \cup Calls(DartCallee) \cup References \cup Inherits(NamesOf({"class"}))

\* ParseFile
Relationships ==
  CASE lang = "go" -> GoRelationships
    [] lang = "python" -> PythonRelationships
    [] lang = "typescript" -> TypeScriptRelationships
    [] lang = "javascript" -> JavaScriptRelationships
    [] lang = "rust" -> RustRelationships
    [] lang = "c" -> CRelationships
    [] lang = "cpp" -> CppRelationships
    [] lang = "kotlin" -> KotlinRelationships
    [] lang = "swift" -> SwiftRelationships
    [] lang = "dart" -> DartRelationships
=============================================================================
