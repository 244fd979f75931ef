----------------------------- MODULE SymbolWalk -----------------------------
(***************************************************************************)
(* The symbols internal/parser extracts from a tree, one definition per    *)
(* language.  A qualified name is the sequence of the names the code joins *)
(* with "." or "::".  A symbol's lines are those of its node; "content" is *)
(* how many lines its Content has.                                         *)
(***************************************************************************)
EXTENDS SourceTree

Spanning(n, qualified, span) ==
  [node |-> n, qualified |-> qualified, first |-> First(span), last |-> Last(span),
   content |-> Last(span) - First(span) + 1]
Sym(n, qualified) == Spanning(n, qualified, n)
Plain(ns) == {Sym(n, <<NameOf(n)>>) : n \in ns}

\* A declaration's own members, and no deeper.
Members(p, scope) == {Sym(m, <<scope, NameOf(m)>>) : m \in In(p, "func")}
WithMembers(cs) == Plain(cs) \cup UNION {Members(c, NameOf(c)) : c \in cs}

\* goFunction and goMethod: the receiver with its type parameters, without "*".
GoFunctions ==
  {Sym(f, IF tree[f].of = NoName THEN <<NameOf(f)>> ELSE <<tree[f].of, NameOf(f)>>) :
     f \in In(0, "func")}

\* What is declared in groups: every one has the content and the lines of its group.
Grouped(groups, k) ==
  UNION {{Spanning(n, <<NameOf(n)>>, g) : n \in In(g, k)} : g \in groups}

\* goTypeDecl
GoTypes == Plain(In(0, "class")) \cup Grouped(In(0, "wrap"), "class")

GoSymbols == GoFunctions \cup GoTypes

\* pythonClass.  A decorated definition is another kind of node, which neither loop
\* knows.
PythonSymbols == Plain(In(0, "func")) \cup WithMembers(In(0, "class"))

\* What walkTS, walkJS and walkCpp reach through exports, namespaces and templates.
Exposed(k) == {n \in OfKind(k) : \A p \in Path[n] \ {n} : tree[p].kind = "wrap"}

\* tsLexicalDecl and jsLexicalDecl: the arrow functions of one declaration.
ArrowFunctions == Grouped(Exposed("let"), "func")

\* tsFunction, tsInterface and tsEnum.
TypeScriptOthers == Plain(Exposed("func") \cup Exposed("struct"))
TypeScriptSymbols == TypeScriptOthers \cup ArrowFunctions \cup WithMembers(Exposed("class"))

JavaScriptSymbols == Plain(Exposed("func")) \cup ArrowFunctions \cup WithMembers(Exposed("class"))

\* rustImpl: an impl block gives its methods to the type as written.
RustImpls == UNION {Members(i, NameOf(i)) : i \in In(0, "impl")}
\* A trait has its own.
RustSymbols ==
  Plain(In(0, "func") \cup In(0, "struct")) \cup WithMembers(In(0, "class")) \cup RustImpls

\* walkC looks at the children of the root only.
CSymbols == Plain(In(0, "func") \cup In(0, "struct"))

\* A function defined outside its class has a qualified declarator.
CppFunctions ==
  {Sym(f, IF tree[f].of = NoName THEN <<NameOf(f)>> ELSE <<tree[f].of, NameOf(f)>>) :
     f \in Exposed("func")}
CppSymbols == CppFunctions \cup Plain(Exposed("struct")) \cup WithMembers(Exposed("class"))

\* Declarations below nothing but declarations of the kinds ks.
Nested(k, ks) == {n \in OfKind(k) : \A p \in Path[n] \ {n} : tree[p].kind \in ks}
\* The scope a nested declaration gets is the name of its parent, not the parent's
\* qualified name.
Scoped(ns) ==
  {Sym(n, IF tree[n].up = 0 THEN <<NameOf(n)>> ELSE <<NameOf(tree[n].up), NameOf(n)>>) :
     n \in ns}

\* kotlinFunction: a parent hides the receiver of an extension function.
KotlinFunctions ==
  {Sym(f, CASE tree[f].up # 0 -> <<NameOf(tree[f].up), NameOf(f)>>
            [] tree[f].of # NoName -> <<tree[f].of, NameOf(f)>>
            [] OTHER -> <<NameOf(f)>>) : f \in Nested("func", {"class"})}

\* kotlinCompanionObject: functions and properties of a companion, no symbol for it.
KotlinCompanions ==
  UNION {{Sym(f, <<NameOf(tree[w].up), "Companion", NameOf(f)>>) : f \in In(w, "func")} :
         w \in Nested("wrap", {"class"})}

\* kotlinClass and kotlinObject
KotlinClasses == Scoped(Nested("class", {"class"}))

KotlinSymbols == KotlinClasses \cup KotlinFunctions \cup KotlinCompanions

\* An extension emits its members only.
SwiftTypes == Scoped(Nested("class", {"class", "impl"}))
\* Functions and properties.
SwiftMembers == Scoped(Nested("func", {"class", "impl"}))
SwiftSymbols == SwiftTypes \cup SwiftMembers

\* The body of a function is a sibling of its signature: its lines are added to the
\* symbol's, its text is not.
SignatureOnly(ss) == {[s EXCEPT !.content = 1] : s \in ss}

\* dartClassBody; a constructor has the name of its class and no other.
DartMembers ==
  UNION {{Sym(m, IF NameOf(m) = NameOf(c) THEN <<NameOf(c)>> ELSE <<NameOf(c), NameOf(m)>>) :
            m \in In(c, "func")} : c \in In(0, "class")}
\* Classes, mixins and extensions.
DartClasses == Plain(In(0, "class"))
\* Enums, type aliases and variables.
DartOthers == Plain(In(0, "struct"))
DartSymbols ==
  SignatureOnly(Plain(In(0, "func")) \cup DartMembers) \cup DartClasses \cup DartOthers

\* ParseFile
Symbols ==
  CASE lang = "go" -> GoSymbols
    [] lang = "python" -> PythonSymbols
    [] lang = "typescript" -> TypeScriptSymbols
    [] lang = "javascript" -> JavaScriptSymbols
    [] lang = "rust" -> RustSymbols
    [] lang = "c" -> CSymbols
    [] lang = "cpp" -> CppSymbols
    [] lang = "kotlin" -> KotlinSymbols
    [] lang = "swift" -> SwiftSymbols
    [] lang = "dart" -> DartSymbols
=============================================================================
