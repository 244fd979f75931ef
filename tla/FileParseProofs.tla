-------------------------- MODULE FileParseProofs --------------------------
(***************************************************************************)
(* Proofs about FileParse, for any tree of any of the languages, any names *)
(* and any limits of the chunker.                                          *)
(***************************************************************************)
EXTENDS FileParse, WellFoundedInduction, TLAPS

-----------------------------------------------------------------------------
(* Chunks                                                                  *)

\* The stride moves on, and no further than a chunk is long.
LEMMA StrideBounds ==
  /\ MaxLines \in Nat /\ MaxLines >= 1 /\ Stride \in Nat /\ Stride >= 1 /\ Stride <= MaxLines
  /\ MaxLines - Stride = IF MaxLines > OverlapLines THEN OverlapLines ELSE 0
BY ChunkAssumption DEF Stride

\* One stride more.
LEMMA NextStart ==
  ASSUME NEW j \in Nat, j # 0
  PROVE  j - 1 \in Nat /\ (j - 1) * Stride \in Nat /\ j * Stride = (j - 1) * Stride + Stride
         /\ j - 1 <= (j - 1) * Stride
<1>1. j - 1 \in Nat
  OBVIOUS
<1>2. \A k, s \in Nat : k * s \in Nat /\ (k + 1) * s = k * s + s /\ (s >= 1 => k <= k * s)
  OBVIOUS
<1>3. (j - 1) + 1 = j
  OBVIOUS
<1> QED BY <1>1, <1>2, <1>3, StrideBounds

\* Of the starts whose chunk would reach beyond a line there is a first.
LEMMA FirstBeyond ==
  ASSUME NEW x \in Nat
  PROVE  \E k \in Nat : /\ x < k * Stride + MaxLines
                        /\ k = 0 \/ (k - 1) * Stride + MaxLines <= x
<1> DEFINE Beyond == {k \in Nat : x < k * Stride + MaxLines}
<1>1. x \in Beyond
  <2>1. \A s \in Nat : s >= 1 => x * s \in Nat /\ x <= x * s
    OBVIOUS
  <2>2. x * Stride \in Nat /\ x <= x * Stride
    BY <2>1, StrideBounds
  <2> QED BY <2>2, StrideBounds
<1>2. PICK k \in Beyond : \A m \in Beyond : <<m, k>> \notin OpToRel(<, Nat)
  BY <1>1, WFMin, NatLessThanWellFounded, Zenon
<1>3. \A m \in Beyond : ~(m < k)
  <2> TAKE m \in Beyond
  <2>1. m \in Nat /\ k \in Nat
    OBVIOUS
  <2> QED BY <1>2, <2>1, Zenon DEF OpToRel
<1>4. ASSUME k # 0 PROVE (k - 1) * Stride + MaxLines <= x
  <2>1. k - 1 \in Nat /\ k - 1 < k /\ (k - 1) * Stride \in Nat
    BY <1>4, NextStart
  <2>2. ~(x < (k - 1) * Stride + MaxLines)
    BY <1>3, <2>1
  <2> QED BY <2>1, <2>2, StrideBounds
<1> QED BY <1>4

\* What the chunks of a symbol are in all.
Covers(cs, first, last) == UNION {c.first..c.last : c \in cs} = first..last

\* A content that is cut covers its lines, in chunks of the lines they have, none too
\* long, each but the first overlapping one before it.
LEMMA CutCovers ==
  ASSUME NEW first \in Nat, NEW content \in Nat, content > MaxLines
  PROVE  LET cs == Chunks(first, first + content - 1, content)
         IN /\ Covers(cs, first, first + content - 1)
            /\ \A c \in cs :
                 /\ c.first \in first..(first + content - 1)
                 /\ c.content <= MaxLines /\ c.content = c.last - c.first + 1
                 /\ c.first = first
                      \/ \E d \in cs : /\ d.first < c.first
                                       /\ d.last - c.first + 1 = MaxLines - Stride
<1> DEFINE cs == Chunks(first, first + content - 1, content)
           Cut(s) == [first |-> first + s, last |-> first + Smaller(s + MaxLines, content) - 1,
                      content |-> Smaller(MaxLines, content - s)]
           Start(j) == j = 0 \/ (j - 1) * Stride + MaxLines < content
<1>1. cs = {Cut(s) : s \in Starts(content)}
  BY StrideBounds DEF Chunks
<1>2. ASSUME NEW s \in Starts(content)
      PROVE  \E j \in 0..content : s = j * Stride /\ Start(j)
  BY DEF Starts
<1>3. ASSUME NEW j \in 0..content, Start(j) PROVE j * Stride \in Starts(content)
  BY <1>3 DEF Starts
<1>4. ASSUME NEW j \in 0..content, Start(j) PROVE j * Stride \in Nat /\ j * Stride < content
  <2>1. CASE j = 0
    <3>1. j * Stride = 0
      BY <2>1, StrideBounds
    <3> QED BY <3>1, StrideBounds
  <2>2. CASE j # 0
    <3>1. /\ (j - 1) * Stride \in Nat /\ j * Stride = (j - 1) * Stride + Stride
          /\ (j - 1) * Stride + MaxLines < content
      BY <1>4, <2>2, NextStart
    <3> QED BY <3>1, StrideBounds
  <2> QED BY <2>1, <2>2
<1>5. \A s \in Starts(content) : s \in Nat /\ s < content
  BY <1>2, <1>4
<1>6. ASSUME NEW s \in Nat, s < content
      PROVE  LET c == Cut(s)
             IN /\ c.first \in first..(first + content - 1)
                /\ c.last \in Nat /\ c.last <= first + content - 1
                /\ c.content <= MaxLines /\ c.content = c.last - c.first + 1
  BY <1>6, StrideBounds DEF Smaller
<1> HIDE DEF cs
<1>7. Covers(cs, first, first + content - 1)
  <2>1. ASSUME NEW c \in cs, NEW l \in c.first..c.last PROVE l \in first..(first + content - 1)
    <3>1. PICK s \in Starts(content) : c = Cut(s)
      BY <1>1
    <3>2. /\ c.first \in first..(first + content - 1)
          /\ c.last \in Nat /\ c.last <= first + content - 1
      BY <1>5, <1>6, <3>1
    <3> QED BY <3>2
  <2>2. ASSUME NEW l \in first..(first + content - 1)
        PROVE  \E c \in cs : l \in c.first..c.last
    <3>1. PICK x \in Nat : l = first + x /\ x < content
      <4>1. l - first \in Nat /\ l = first + (l - first) /\ l - first < content
        OBVIOUS
      <4> QED BY <4>1
    <3>2. PICK k \in Nat : /\ x < k * Stride + MaxLines
                           /\ k = 0 \/ (k - 1) * Stride + MaxLines <= x
      BY FirstBeyond
    <3>3. k \in 0..content /\ Start(k) /\ k * Stride \in Nat /\ k * Stride <= x
      <4>1. CASE k = 0
        <5>1. k * Stride = 0
          BY <4>1, StrideBounds
        <5> QED BY <4>1, <5>1
      <4>2. CASE k # 0
        <5>1. /\ k - 1 \in Nat /\ (k - 1) * Stride \in Nat /\ k - 1 <= (k - 1) * Stride
              /\ k * Stride = (k - 1) * Stride + Stride
          BY <4>2, NextStart
        <5>2. PICK p \in Nat : p = (k - 1) * Stride
          BY <5>1
        <5>3. p + MaxLines <= x /\ k - 1 <= p /\ k * Stride = p + Stride
          BY <3>2, <4>2, <5>1, <5>2
        <5>4. k <= content /\ p + MaxLines < content /\ p + Stride <= x /\ p + Stride \in Nat
          BY <3>1, <5>1, <5>3, StrideBounds
        <5> QED BY <5>2, <5>3, <5>4
      <4> QED BY <4>1, <4>2
    <3>4. Cut(k * Stride) \in cs
      BY <1>1, <1>3, <3>3
    <3>5. l \in (Cut(k * Stride).first)..(Cut(k * Stride).last)
      <4>1. PICK s \in Nat : s = k * Stride
        BY <3>3
      <4>2. s <= x /\ x < s + MaxLines
        BY <3>2, <3>3, <4>1
      <4>3. l \in (Cut(s).first)..(Cut(s).last)
        BY <3>1, <4>2, StrideBounds DEF Smaller
      <4> QED BY <4>1, <4>3
    <3> QED BY <3>4, <3>5
  <2> QED BY <2>1, <2>2 DEF Covers
<1>8. ASSUME NEW c \in cs
      PROVE  /\ c.first \in first..(first + content - 1)
             /\ c.content <= MaxLines /\ c.content = c.last - c.first + 1
             /\ c.first = first
                  \/ \E d \in cs : /\ d.first < c.first
                                   /\ d.last - c.first + 1 = MaxLines - Stride
  <2>1. PICK j \in 0..content : c = Cut(j * Stride) /\ Start(j)
    BY <1>1, <1>2
  <2>2. j * Stride \in Nat /\ j * Stride < content
    BY <1>4, <2>1
  <2>3. CASE j = 0
    <3>1. j * Stride = 0
      BY <2>3, StrideBounds
    <3>2. c.first = first
      BY <2>1, <3>1
    <3> QED BY <1>6, <2>1, <2>2, <3>2
  <2>4. CASE j # 0
    <3>1. /\ j - 1 \in Nat /\ (j - 1) * Stride \in Nat
          /\ j * Stride = (j - 1) * Stride + Stride
      BY <2>4, NextStart
    <3>2. PICK p \in Nat : p = (j - 1) * Stride
      BY <3>1
    <3>3. p + MaxLines < content /\ j * Stride = p + Stride
      BY <2>1, <2>4, <3>1, <3>2
    <3>4. Start(j - 1) /\ j - 1 \in 0..content
      <4>1. CASE j - 1 = 0
        BY <4>1
      <4>2. CASE j - 1 # 0
        <5>1. p = (j - 1 - 1) * Stride + Stride /\ (j - 1 - 1) * Stride \in Nat
          BY <3>1, <3>2, <4>2, NextStart
        <5>2. (j - 1 - 1) * Stride + MaxLines < content
          BY <3>3, <5>1, StrideBounds
        <5> QED BY <3>1, <5>2
      <4> QED BY <4>1, <4>2
    <3>5. Cut(p) \in cs
      BY <1>1, <1>3, <3>2, <3>4
    <3>6. c.first = first + p + Stride
      <4>1. c.first = first + j * Stride
        BY <2>1
      <4> QED BY <3>3, <4>1, StrideBounds
    <3>7. Cut(p).first < c.first /\ Cut(p).last - c.first + 1 = MaxLines - Stride
      BY <3>3, <3>6, StrideBounds DEF Smaller
    <3> QED BY <1>6, <2>1, <2>2, <3>5, <3>7
  <2> QED BY <2>3, <2>4
<1> QED BY <1>7, <1>8 DEF cs

-----------------------------------------------------------------------------
(* Trees                                                                   *)

Kinds == Declarations \cup {"import", "call", "ref", "base"}
Spelled == {NoName, Variable} \cup Names \cup Generic
Node == [kind : Kinds, name : Spelled, of : Spelled, up : Nat, path : SUBSET Nat, line : Nat]

\* The kinds of nodes in every language.
LEMMA GrammarKinds ==
  ASSUME NEW l \in Languages, NEW q \in Kinds \cup {"file"}
  PROVE  Grammar(l)[q] \subseteq Kinds
<1> USE DEF Grammar, Uses, Kinds, Declarations
<1>1. CASE l = "go"
  BY <1>1
<1>2. CASE l = "python"
  BY <1>2
<1>3. CASE l \in {"typescript", "javascript"}
  BY <1>3
<1>4. CASE l = "rust"
  BY <1>4
<1>5. CASE l = "c"
  BY <1>5
<1>6. CASE l = "cpp"
  BY <1>6
<1>7. CASE l = "kotlin"
  BY <1>7
<1>8. CASE l = "swift"
  BY <1>8
<1>9. CASE l = "dart"
  BY <1>9
<1> QED BY <1>1, <1>2, <1>3, <1>4, <1>5, <1>6, <1>7, <1>8, <1>9 DEF Languages

\* A node's ancestors are before it, and have their ancestors among its own.
Rooted ==
  \A n \in Nodes : /\ tree[n].up \in 0..(n - 1)
                   /\ tree[n].path = Path[tree[n].up] \cup {n}
                   /\ tree[n].path \subseteq 1..n
                   /\ \A m \in tree[n].path : tree[m].path \subseteq tree[n].path

\* What is between a node and one inside it is inside it too.
PreOrder ==
  \A m, n, k \in Nodes : m <= n /\ n <= k /\ m \in tree[k].path => m \in tree[n].path

\* A declaration that is not part of a group.
Stated(n) == tree[n].kind \in Declarations /\ KindOf(tree[n].up) \notin GroupKinds

\* Lines do not go back, and such a declaration has its own.
Ordered ==
  \A m, n \in Nodes : m < n => /\ tree[m].line <= tree[n].line
                               /\ Stated(n) => tree[m].line < tree[n].line

\* Every node has a last one inside it.
Ends(n, m) == n \in tree[m].path /\ \A k \in Nodes : n \in tree[k].path => k <= m
Ended == \A n \in Nodes : \E m \in Nodes : Ends(n, m)

\* Names are as the grammar has them, and a group declares none twice.
Nameless == {"wrap", "let", "impl"}
Spelt ==
  /\ \A n \in Nodes : tree[n].kind \notin Nameless => tree[n].name \in Names
  /\ \A m, n \in Nodes :
       /\ tree[m].kind \in Declarations /\ tree[n].kind \in Declarations
       /\ tree[m].up = tree[n].up /\ KindOf(tree[m].up) \in GroupKinds
       /\ tree[m].name = tree[n].name
       => m = n

(***************************************************************************)
(* Every reachable tree is in pre-order.                                   *)
(***************************************************************************)
TreeInv ==
  /\ lang \in Languages /\ tree \in Seq(Node)
  /\ Rooted /\ PreOrder /\ Ordered /\ Ended /\ Spelt

\* What a step adds to the tree.
Adds(N, x) ==
  /\ N = Len(tree) + 1 /\ N \in Nat /\ N >= 1
  /\ x \in Node /\ x.up \in Open /\ x.up \in 0..(N - 1) /\ x.path = Path[x.up] \cup {N}
  /\ \/ x.line = Current + 1
     \/ (x.kind \notin Declarations \/ KindOf(x.up) \in GroupKinds) /\ x.line = Current
  /\ x.kind \notin Nameless => x.name \in Names
  /\ KindOf(x.up) \in GroupKinds /\ x.kind \in Declarations =>
       \A n \in Nodes : tree[n].up = x.up /\ tree[n].kind \in Declarations => NameOf(n) # x.name
  /\ lang' = lang /\ tree' \in Seq(Node) /\ Len(tree') = N /\ tree'[N] = x
  /\ \A k \in Nodes : tree'[k] = tree[k]
  /\ Nodes = 1..(N - 1) /\ Nodes' = 1..N

\* Where a node can be added, and the line that the tree has come to.
LEMMA OpenNodes ==
  ASSUME TreeInv
  PROVE  /\ Len(tree) \in Nat /\ Nodes = 1..Len(tree) /\ Current \in Nat
         /\ \A p \in Open : p \in 0..Len(tree) /\ (p = 0 \/ (Len(tree) >= 1 /\ p \in tree[Len(tree)].path))
         /\ \A p \in 0..Len(tree) : /\ KindOf(p) \in Kinds \cup {"file"}
                                    /\ Path[p] \subseteq 0..Len(tree) /\ Path[p] \in SUBSET Nat
         /\ Path[0] = {} /\ \A p \in Nodes : Path[p] = tree[p].path
<1>1. tree \in Seq(Node) /\ Len(tree) \in Nat /\ Nodes = 1..Len(tree)
  BY DEF TreeInv, Nodes
<1>2. \A p \in Nodes : tree[p] \in Node
  BY <1>1
<1>3. Path[0] = {} /\ \A p \in Nodes : Path[p] = tree[p].path
  BY <1>1 DEF Path
<1>4. \A p \in Nodes : tree[p].path \subseteq 1..p
  BY DEF TreeInv, Rooted
<1>5. Current \in Nat
  <2>1. CASE tree = <<>>
    BY <2>1 DEF Current
  <2>2. CASE tree # <<>>
    <3>1. Len(tree) \in Nodes
      BY <1>1, <2>2
    <3>2. tree[Len(tree)].line \in Nat
      BY <1>2, <3>1 DEF Node
    <3> QED BY <2>2, <3>2 DEF Current
  <2> QED BY <2>1, <2>2
<1>6. ASSUME NEW p \in Open
      PROVE  p \in 0..Len(tree) /\ (p = 0 \/ (Len(tree) >= 1 /\ p \in tree[Len(tree)].path))
  <2>1. p = 0 \/ p \in Path[Len(tree)]
    BY DEF Open
  <2>2. CASE p \in Path[Len(tree)]
    <3>1. Len(tree) # 0
      BY <1>3, <2>2
    <3>2. Len(tree) \in Nodes
      BY <1>1, <3>1
    <3>3. p \in tree[Len(tree)].path
      BY <1>3, <2>2, <3>2
    <3> QED BY <1>1, <1>4, <3>1, <3>2, <3>3
  <2> QED BY <1>1, <2>1, <2>2
<1>7. ASSUME NEW p \in 0..Len(tree)
      PROVE  /\ KindOf(p) \in Kinds \cup {"file"}
             /\ Path[p] \subseteq 0..Len(tree) /\ Path[p] \in SUBSET Nat
  <2>1. CASE p = 0
    BY <1>3, <2>1 DEF KindOf
  <2>2. CASE p # 0
    <3>1. p \in Nodes
      BY <1>1, <2>2
    <3>2. tree[p].kind \in Kinds
      BY <1>2, <3>1 DEF Node
    <3> QED BY <1>1, <1>3, <1>4, <2>2, <3>1, <3>2 DEF KindOf
  <2> QED BY <2>1, <2>2
<1> QED BY <1>1, <1>3, <1>5, <1>6, <1>7

\* A step adds one node.
LEMMA NextAdds ==
  ASSUME TreeInv, Next
  PROVE  \E N, x : Adds(N, x)
<1>0. PICK p \in Open, line \in Current..(Current + 1) :
           \E k \in Grammar(lang)[KindOf(p)] : Grow(p, k, line)
  BY DEF Next
<1>1. PICK k \in Grammar(lang)[KindOf(p)] : Grow(p, k, line)
  BY <1>0
<1>2. PICK name \in Named(lang, k), of \in Qualifiers(lang, k, KindOf(p)) :
        /\ KindOf(p) \in GroupKinds /\ k \in Declarations =>
             \A n \in Nodes : tree[n].up = p /\ tree[n].kind \in Declarations => NameOf(n) # name
        /\ tree' = Append(tree, [kind |-> k, name |-> name, of |-> of, up |-> p,
                                 path |-> Path[p] \cup {Len(tree) + 1}, line |-> line])
  BY <1>1 DEF Grow
<1> DEFINE x == [kind |-> k, name |-> name, of |-> of, up |-> p,
                 path |-> Path[p] \cup {Len(tree) + 1}, line |-> line]
<1>n. PICK N : N = Len(tree) + 1
  OBVIOUS
<1>3. /\ Len(tree) \in Nat /\ Nodes = 1..Len(tree) /\ Current \in Nat
      /\ p \in 0..Len(tree) /\ KindOf(p) \in Kinds \cup {"file"} /\ Path[p] \in SUBSET Nat
  BY OpenNodes
<1>4. k \in Kinds
  BY <1>3, GrammarKinds DEF TreeInv
<1>5. name \in Spelled /\ (k \notin Nameless => name \in Names)
  BY <1>4 DEF Named, Spelled, Nameless
<1>6. of \in Spelled
  BY DEF Qualifiers, Spelled
<1>7. x \in Node
  BY <1>3, <1>4, <1>5, <1>6 DEF Node
<1>8. /\ \/ line = Current + 1
         \/ (k \notin Declarations \/ KindOf(p) \in GroupKinds) /\ line = Current
      /\ lang' = lang
  BY <1>1 DEF Grow
<1>9. /\ x.kind = k /\ x.name = name /\ x.up = p /\ x.line = line
      /\ x.path = Path[p] \cup {Len(tree) + 1}
  OBVIOUS
<1>10. tree' = Append(tree, x) /\ tree \in Seq(Node)
  BY <1>2 DEF TreeInv
<1> HIDE DEF x
<1>11. /\ tree' \in Seq(Node) /\ Len(tree') = Len(tree) + 1 /\ tree'[Len(tree) + 1] = x
       /\ \A h \in 1..Len(tree) : tree'[h] = tree[h]
  BY <1>7, <1>10
<1>12. Nodes' = 1..N /\ Nodes = 1..(N - 1) /\ N \in Nat /\ N >= 1
  BY <1>3, <1>n, <1>11 DEF Nodes
<1>13. /\ tree' \in Seq(Node) /\ Len(tree') = N /\ tree'[N] = x
       /\ \A h \in Nodes : tree'[h] = tree[h]
  BY <1>3, <1>n, <1>11
<1>14. p \in 0..(N - 1)
  BY <1>3, <1>n
<1>15. Adds(N, x)
  BY <1>n, <1>2, <1>5, <1>7, <1>8, <1>9, <1>12, <1>13, <1>14 DEF Adds
<1> QED BY <1>15

\* The node that is added keeps the tree in order.
LEMMA AddKeeps ==
  ASSUME TreeInv, NEW N, NEW x, Adds(N, x)
  PROVE  TreeInv'
<1>1. /\ N \in Nat /\ N >= 1 /\ Nodes = 1..(N - 1) /\ Nodes' = 1..N /\ N - 1 = Len(tree)
      /\ tree'[N] = x /\ \A k \in Nodes : tree'[k] = tree[k]
  BY OpenNodes DEF Adds
<1>2. \A k \in Nodes' : k \in Nodes \/ k = N
  BY <1>1
<1>3. /\ x.up \in 0..(N - 1) /\ x.path = Path[x.up] \cup {N}
      /\ Path[x.up] \subseteq 0..(N - 1)
      /\ x.up = 0 \/ (N - 1 \in Nodes /\ x.up \in tree[N - 1].path)
  <2>1. x.up \in Open /\ x.up \in 0..(N - 1) /\ x.path = Path[x.up] \cup {N}
    BY DEF Adds
  <2> QED BY <1>1, <2>1, OpenNodes
<1>4. /\ Path[0] = {} /\ Path'[0] = {} /\ \A p \in Nodes : Path[p] = tree[p].path
      /\ \A p \in Nodes : Path'[p] = tree[p].path
  <2>1. Path'[0] = {} /\ \A p \in 1..(N - 1) : Path'[p] = tree'[p].path
    <3>1. Len(tree') = N
      BY DEF Adds
    <3> QED BY <1>1, <3>1 DEF Path
  <2> QED BY <1>1, <2>1, OpenNodes
<1>5. Path'[x.up] = Path[x.up] /\ (x.up = 0 \/ x.up \in Nodes)
  <2>1. x.up = 0 \/ x.up \in Nodes
    <3>1. x.up = 0 \/ x.up \in 1..(N - 1)
      BY <1>1, <1>3
    <3> QED BY <1>1, <3>1, Zenon
  <2>2. CASE x.up = 0
    BY <1>4, <2>2, Zenon
  <2>3. CASE x.up \in Nodes
    <3>1. Path[x.up] = tree[x.up].path
      BY <1>4, <2>3
    <3>2. Path'[x.up] = tree[x.up].path
      BY <1>4, <2>3
    <3> QED BY <2>3, <3>1, <3>2
  <2> QED BY <2>1, <2>2, <2>3
<1>6. Rooted /\ PreOrder /\ Ordered /\ Ended /\ Spelt
  BY DEF TreeInv
<1>k. /\ GroupKinds' = GroupKinds
      /\ \A n \in Nodes : KindOf(tree[n].up)' = KindOf(tree[n].up)
      /\ KindOf(x.up)' = KindOf(x.up)
      /\ \A n \in Nodes : Stated(n)' <=> Stated(n)
      /\ Stated(N)' <=> x.kind \in Declarations /\ KindOf(x.up) \notin GroupKinds
  <2>1. GroupKinds' = GroupKinds
    <3>1. lang' = lang
      BY DEF Adds
    <3> QED BY <3>1 DEF GroupKinds
  <2>2. \A p \in Nodes \cup {0} : KindOf(p)' = KindOf(p)
    BY <1>1 DEF KindOf
  <2>3. \A n \in Nodes : tree[n].up \in Nodes \cup {0} /\ tree'[n].up = tree[n].up
    <3>1. \A n \in Nodes : tree[n].up \in 0..(n - 1) /\ n \in 1..(N - 1)
      BY <1>1, <1>6 DEF Rooted
    <3>2. \A n \in Nodes : tree[n].up = 0 \/ tree[n].up \in 1..(N - 1)
      BY <1>1, <3>1
    <3> QED BY <1>1, <3>2
  <2>4. \A n \in Nodes : KindOf(tree[n].up)' = KindOf(tree[n].up)
    BY <2>2, <2>3
  <2>5. KindOf(x.up) = (KindOf(tree[N].up))'
    <3>1. tree'[N].up = x.up
      BY <1>1
    <3> QED BY <1>5, <2>2, <3>1
  <2>6. \A n \in Nodes : Stated(n)' <=> Stated(n)
    BY <1>1, <2>1, <2>4 DEF Stated
  <2>7. Stated(N)' <=> x.kind \in Declarations /\ KindOf(x.up) \notin GroupKinds
    BY <1>1, <2>1, <2>5 DEF Stated
  <2> QED BY <1>1, <2>1, <2>4, <2>5, <2>6, <2>7
<1>7. \A m \in Path[x.up] : m \in Nodes /\ m \in tree[N - 1].path /\ N - 1 \in Nodes
                            /\ tree[m].path \subseteq Path[x.up]
  <2> TAKE m \in Path[x.up]
  <2>1. x.up # 0
    BY <1>4
  <2>2. x.up \in Nodes /\ N - 1 \in Nodes /\ x.up \in tree[N - 1].path
        /\ m \in tree[x.up].path
    BY <1>3, <1>4, <1>5, <2>1
  <2>3. m \in tree[N - 1].path /\ tree[m].path \subseteq Path[x.up]
    BY <1>4, <1>6, <2>2 DEF Rooted
  <2>4. m \in 1..x.up
    BY <1>6, <2>2 DEF Rooted
  <2>5. m \in Nodes
    BY <1>1, <1>3, <2>4
  <2> QED BY <2>2, <2>3, <2>5
<1>8. Rooted'
  <2>1. ASSUME NEW n \in Nodes
        PROVE  /\ tree'[n].up \in 0..(n - 1)
               /\ tree'[n].path = Path'[tree'[n].up] \cup {n}
               /\ tree'[n].path \subseteq 1..n
               /\ \A m \in tree'[n].path : tree'[m].path \subseteq tree'[n].path
    <3>1. /\ tree[n].up \in 0..(n - 1) /\ tree[n].path = Path[tree[n].up] \cup {n}
          /\ tree[n].path \subseteq 1..n
          /\ \A m \in tree[n].path : tree[m].path \subseteq tree[n].path
      BY <1>6 DEF Rooted
    <3>2. tree[n].up = 0 \/ tree[n].up \in Nodes
      BY <1>1, <3>1
    <3>3. Path'[tree[n].up] = Path[tree[n].up]
      BY <1>4, <3>2
    <3>4. \A m \in tree[n].path : m \in Nodes
      BY <1>1, <3>1
    <3> QED BY <1>1, <3>1, <3>3, <3>4
  <2>2. /\ tree'[N].up \in 0..(N - 1)
        /\ tree'[N].path = Path'[tree'[N].up] \cup {N}
        /\ tree'[N].path \subseteq 1..N
        /\ \A m \in tree'[N].path : tree'[m].path \subseteq tree'[N].path
    <3>1. \A m \in x.path : m = N \/ (m \in Nodes /\ tree[m].path \subseteq x.path)
      BY <1>3, <1>7
    <3>2. \A m \in x.path : m \in 1..N
      BY <1>1, <3>1
    <3>3. \A m \in x.path : tree'[m].path \subseteq x.path
      BY <1>1, <3>1
    <3> QED BY <1>1, <1>3, <1>5, <3>2, <3>3
  <2> QED BY <1>2, <2>1, <2>2 DEF Rooted
<1>9. PreOrder'
  <2> SUFFICES ASSUME NEW m \in Nodes', NEW n \in Nodes', NEW k \in Nodes',
                      m <= n, n <= k, m \in tree'[k].path
               PROVE  m \in tree'[n].path
    BY DEF PreOrder
  <2>1. CASE k \in Nodes
    <3>1. m \in Nodes /\ n \in Nodes
      BY <1>1, <2>1
    <3> QED BY <1>1, <1>6, <2>1, <3>1 DEF PreOrder
  <2>2. CASE k = N
    <3>1. m \in x.path
      BY <1>1, <2>2
    <3>2. CASE n = N
      BY <1>1, <3>1, <3>2
    <3>3. CASE n # N
      <4>1. n \in Nodes /\ n <= N - 1 /\ m # N
        BY <1>1, <1>2, <3>3
      <4>2. m \in Path[x.up]
        BY <1>3, <3>1, <4>1
      <4>3. m \in Nodes /\ m \in tree[N - 1].path /\ N - 1 \in Nodes
        BY <1>7, <4>2
      <4>4. m \in tree[n].path
        BY <1>6, <4>1, <4>3 DEF PreOrder
      <4> QED BY <1>1, <4>1, <4>4
    <3> QED BY <3>2, <3>3
  <2> QED BY <1>2, <2>1, <2>2
<1>10. Ordered'
  <2>0. \A n \in Nodes : tree[n].line \in Nat
    <3>1. tree \in Seq(Node) /\ Nodes = 1..Len(tree)
      BY OpenNodes DEF TreeInv
    <3>2. \A n \in Nodes : tree[n] \in Node
      BY <3>1
    <3> QED BY <3>2 DEF Node
  <2>1. ASSUME NEW m \in Nodes
        PROVE  tree[m].line <= x.line /\ (Stated(N)' => tree[m].line < x.line)
    <3>1. N - 1 \in Nodes /\ N - 1 = Len(tree) /\ m <= N - 1
      BY <1>1
    <3>2. tree # <<>>
      BY <3>1, OpenNodes
    <3>3. Current = tree[N - 1].line
      BY <3>1, <3>2 DEF Current
    <3>4. tree[m].line <= tree[N - 1].line
      <4>1. CASE m = N - 1
        BY <2>0, <3>1, <4>1
      <4>2. CASE m # N - 1
        <5>1. m < N - 1
          BY <1>1, <3>1, <4>2
        <5> QED BY <1>6, <3>1, <5>1 DEF Ordered
      <4> QED BY <4>1, <4>2
    <3>5. x.line = Current + 1 \/ (~Stated(N)' /\ x.line = Current)
      BY <1>k DEF Adds
    <3> QED BY <2>0, <3>1, <3>3, <3>4, <3>5
  <2>2. ASSUME NEW m \in Nodes', NEW n \in Nodes', m < n
        PROVE  /\ tree'[m].line <= tree'[n].line
               /\ Stated(n)' => tree'[m].line < tree'[n].line
    <3>1. m \in Nodes
      BY <1>1, <2>2
    <3>2. CASE n \in Nodes
      BY <1>1, <1>6, <1>k, <2>2, <3>1, <3>2 DEF Ordered
    <3>3. CASE n = N
      BY <1>1, <2>1, <3>1, <3>3
    <3> QED BY <1>2, <3>2, <3>3
  <2> QED BY <2>2 DEF Ordered
<1>11. Ended'
  <2> SUFFICES ASSUME NEW n \in Nodes' PROVE \E m \in Nodes' : Ends(n, m)'
    BY DEF Ended
  <2>1. CASE n \in x.path
    <3>1. N \in Nodes' /\ \A k \in Nodes' : k <= N
      BY <1>1
    <3>2. Ends(n, N)'
      BY <1>1, <2>1, <3>1 DEF Ends
    <3> QED BY <3>1, <3>2
  <2>2. CASE n \notin x.path
    <3>1. n \in Nodes
      BY <1>2, <1>3, <2>2
    <3>2. PICK m \in Nodes : Ends(n, m)
      BY <1>6, <3>1 DEF Ended
    <3>3. n \in tree'[m].path /\ m \in Nodes'
      BY <1>1, <3>2 DEF Ends
    <3>4. \A k \in Nodes' : n \in tree'[k].path => k <= m
      BY <1>1, <1>2, <2>2, <3>2 DEF Ends
    <3> QED BY <3>3, <3>4 DEF Ends
  <2> QED BY <2>1, <2>2
<1>12. Spelt'
  <2>1. \A n \in Nodes' : tree'[n].kind \notin Nameless => tree'[n].name \in Names
    <3>1. x.kind \notin Nameless => x.name \in Names
      BY DEF Adds
    <3> QED BY <1>1, <1>2, <1>6, <3>1 DEF Spelt
  <2>2. ASSUME NEW n \in Nodes, tree[n].kind \in Declarations, x.kind \in Declarations,
               tree[n].up = x.up, KindOf(x.up) \in GroupKinds
        PROVE  tree[n].name # x.name
    <3>1. NameOf(n) # x.name
      BY <2>2 DEF Adds
    <3> QED BY <3>1 DEF NameOf
  <2>3. ASSUME NEW m \in Nodes', NEW n \in Nodes',
               tree'[m].kind \in Declarations, tree'[n].kind \in Declarations,
               tree'[m].up = tree'[n].up, KindOf(tree[m].up)' \in GroupKinds',
               tree'[m].name = tree'[n].name
        PROVE  m = n
    <3>1. CASE m \in Nodes /\ n \in Nodes
      <4>1. tree'[m] = tree[m] /\ tree'[n] = tree[n] /\ KindOf(tree[m].up) \in GroupKinds
        BY <1>1, <1>k, <2>3, <3>1
      <4> QED BY <1>6, <2>3, <3>1, <4>1 DEF Spelt
    <3>2. CASE m = N /\ n \in Nodes
      <4>1. tree'[m] = x /\ tree'[n] = tree[n]
        BY <1>1, <3>2
      <4>2. KindOf(tree[n].up) \in GroupKinds
        <5>1. KindOf(tree[n].up)' = KindOf(tree[m].up)'
          BY <2>3 DEF KindOf
        <5> QED BY <1>k, <2>3, <3>2, <5>1
      <4> QED BY <2>2, <2>3, <3>2, <4>1, <4>2
    <3>3. CASE m \in Nodes /\ n = N
      <4>1. tree'[n] = x /\ tree'[m] = tree[m] /\ KindOf(tree[m].up) \in GroupKinds
        BY <1>1, <1>k, <2>3, <3>3
      <4> QED BY <2>2, <2>3, <3>3, <4>1
    <3> QED BY <1>2, <3>1, <3>2, <3>3
  <2> QED BY <2>1, <2>3 DEF Spelt
<1>13. lang' \in Languages /\ tree' \in Seq(Node)
  BY DEF Adds, TreeInv
<1> QED BY <1>8, <1>9, <1>10, <1>11, <1>12, <1>13 DEF TreeInv

\* So every tree is in order.
THEOREM TreesInOrder == Spec => []TreeInv
<1>1. Init => TreeInv
  <2> SUFFICES ASSUME Init PROVE TreeInv
    OBVIOUS
  <2>1. lang \in Languages /\ tree = <<>>
    BY DEF Init, TreeInit
  <2>2. tree \in Seq(Node) /\ Nodes = {}
    BY <2>1 DEF Nodes
  <2> QED BY <2>1, <2>2 DEF TreeInv, Rooted, PreOrder, Ordered, Ended, Spelt
<1>2. TreeInv /\ [Next]_treeVars => TreeInv'
  <2>1. TreeInv /\ Next => TreeInv'
    BY NextAdds, AddKeeps
  <2>2. ASSUME TreeInv, UNCHANGED treeVars PROVE TreeInv'
    <3>1. lang' = lang /\ tree' = tree
      BY <2>2 DEF treeVars
    <3>2. Nodes' = Nodes /\ Path' = Path /\ GroupKinds' = GroupKinds
      BY <3>1 DEF Nodes, Path, GroupKinds
    <3>3. Ordered'
      BY <2>2, <3>1, <3>2 DEF TreeInv, Ordered, Stated, KindOf
    <3>4. Spelt'
      BY <2>2, <3>1, <3>2 DEF TreeInv, Spelt, KindOf
    <3> QED BY <2>2, <3>1, <3>2, <3>3, <3>4 DEF TreeInv, Rooted, PreOrder, Ended, Ends
  <2> QED BY <2>1, <2>2
<1> QED BY <1>1, <1>2, PTL DEF Spec

-----------------------------------------------------------------------------
(* Lines                                                                   *)

\* What is known of a node.
LEMMA NodeTyped ==
  ASSUME TreeInv, NEW n \in Nodes
  PROVE  /\ n \in Nat /\ n >= 1 /\ tree[n].line \in Nat /\ tree[n].up \in 0..(n - 1)
         /\ n \in tree[n].path /\ Path[n] = tree[n].path
         /\ \A m \in tree[n].path : m \in Nodes /\ m <= n /\ tree[m].path \subseteq tree[n].path
         /\ tree[n].up = 0 => tree[n].path = {n}
         /\ tree[n].up # 0 => tree[n].up \in Nodes /\ tree[n].up \in tree[n].path
<1>1. tree \in Seq(Node) /\ Len(tree) \in Nat /\ Nodes = 1..Len(tree)
  BY OpenNodes DEF TreeInv
<1>2. n \in Nat /\ n >= 1 /\ n <= Len(tree)
  BY <1>1
<1>3. tree[n] \in Node
  BY <1>1
<1>4. tree[n].line \in Nat
  BY <1>3 DEF Node
<1>5. /\ tree[n].up \in 0..(n - 1)
      /\ tree[n].path = Path[tree[n].up] \cup {n}
      /\ tree[n].path \subseteq 1..n
      /\ \A m \in tree[n].path : tree[m].path \subseteq tree[n].path
  BY DEF TreeInv, Rooted
<1>6. Path[n] = tree[n].path /\ Path[0] = {}
  BY OpenNodes
<1>7. \A m \in tree[n].path : m \in Nodes /\ m <= n
  BY <1>1, <1>2, <1>5
<1>8. tree[n].up = 0 => tree[n].path = {n}
  BY <1>5, <1>6
<1>9. ASSUME tree[n].up # 0 PROVE tree[n].up \in Nodes /\ tree[n].up \in tree[n].path
  <2>1. tree[n].up \in Nodes
    BY <1>1, <1>2, <1>5, <1>9
  <2>2. tree[tree[n].up].path = Path[tree[n].up]
    BY <2>1, OpenNodes
  <2>3. tree[n].up \in tree[tree[n].up].path
    BY <2>1 DEF TreeInv, Rooted
  <2> QED BY <1>5, <2>1, <2>2, <2>3
<1> QED BY <1>2, <1>4, <1>5, <1>6, <1>7, <1>8, <1>9

\* A node ends with the last one inside it.
LEMMA LastIs ==
  ASSUME TreeInv, NEW n \in Nodes
  PROVE  /\ First(n) \in Nat /\ Last(n) \in Nat /\ First(n) <= Last(n)
         /\ \E m \in Nodes : Ends(n, m) /\ Last(n) = tree[m].line
<1>1. PICK m \in Nodes : Ends(n, m)
  BY DEF TreeInv, Ended
<1> DEFINE inside == {k \in Nodes : n \in Path[k]}
           Latest(l) == \A k \in inside : tree[k].line <= l
<1>2. inside = {k \in Nodes : n \in tree[k].path}
  BY NodeTyped
<1>3. m \in inside /\ n \in inside
  BY <1>1, <1>2, NodeTyped DEF Ends
<1>4. ASSUME NEW k \in inside PROVE tree[k].line <= tree[m].line
  <2>1. k \in Nodes /\ k <= m /\ k \in Nat /\ m \in Nat /\ tree[m].line \in Nat
    BY <1>1, <1>2, NodeTyped DEF Ends
  <2>2. CASE k = m
    BY <2>1, <2>2
  <2>3. CASE k # m
    <3>1. k < m
      BY <2>1, <2>3
    <3> QED BY <1>1, <2>1, <3>1 DEF TreeInv, Ordered
  <2> QED BY <2>2, <2>3
<1>5. tree[m].line \in {tree[k].line : k \in inside} /\ Latest(tree[m].line)
  BY <1>3, <1>4
<1>6. Last(n) = CHOOSE l \in {tree[k].line : k \in inside} : Latest(l)
  BY DEF Last
<1>7. Last(n) \in {tree[k].line : k \in inside} /\ Latest(Last(n))
  BY <1>5, <1>6
<1>8. PICK h \in inside : Last(n) = tree[h].line
  BY <1>7
<1>9. tree[h].line \in Nat /\ tree[m].line \in Nat /\ tree[n].line \in Nat
  BY <1>8, NodeTyped
<1>10. Last(n) = tree[m].line
  BY <1>3, <1>4, <1>7, <1>8, <1>9
<1>11. tree[n].line <= Last(n)
  BY <1>3, <1>7
<1> QED BY <1>1, <1>9, <1>10, <1>11 DEF First

\* A node that is not inside an earlier one, and has its own line, begins after it.
LEMMA BeginsAfter ==
  ASSUME TreeInv, NEW a \in Nodes, NEW b \in Nodes, a < b, a \notin tree[b].path, Stated(b)
  PROVE  Last(a) < First(b)
<1>1. PICK m \in Nodes : Ends(a, m) /\ Last(a) = tree[m].line
  BY LastIs
<1>2. a \in Nat /\ b \in Nat /\ m \in Nat
  BY NodeTyped
<1>3. m < b
  <2> SUFFICES ASSUME b <= m PROVE FALSE
    BY <1>2
  <2>1. a \in tree[m].path /\ a <= b
    BY <1>1, <1>2 DEF Ends
  <2> QED BY <2>1 DEF TreeInv, PreOrder
<1>4. tree[m].line < tree[b].line
  BY <1>3 DEF TreeInv, Ordered
<1> QED BY <1>1, <1>4 DEF First

\* What is inside a node is within its lines, and a declaration inside it begins later.
LEMMA LiesWithin ==
  ASSUME TreeInv, NEW n \in Nodes, NEW a \in tree[n].path
  PROVE  /\ First(a) <= First(n) /\ Last(n) <= Last(a)
         /\ a # n /\ Stated(n) => First(a) < First(n)
<1>1. a \in Nodes /\ a <= n /\ a \in Nat /\ n \in Nat
  BY NodeTyped
<1>2. First(a) \in Nat /\ First(n) \in Nat
  BY <1>1, LastIs
<1>3. a # n => First(a) <= First(n) /\ (Stated(n) => First(a) < First(n))
  <2> SUFFICES ASSUME a # n
               PROVE  First(a) <= First(n) /\ (Stated(n) => First(a) < First(n))
    OBVIOUS
  <2>1. a < n
    BY <1>1
  <2> QED BY <1>1, <2>1 DEF TreeInv, Ordered, First
<1>4. PICK m \in Nodes : Ends(n, m) /\ Last(n) = tree[m].line
  BY LastIs
<1>5. PICK h \in Nodes : Ends(a, h) /\ Last(a) = tree[h].line
  BY <1>1, LastIs
<1>6. m <= h
  <2>1. n \in tree[m].path
    BY <1>4 DEF Ends
  <2>2. a \in tree[m].path
    BY <2>1, NodeTyped
  <2> QED BY <1>5, <2>2 DEF Ends
<1>7. m \in Nat /\ h \in Nat /\ tree[m].line \in Nat
  BY NodeTyped
<1>8. tree[m].line <= tree[h].line
  <2>1. CASE m = h
    BY <1>7, <2>1
  <2>2. CASE m # h
    <3>1. m < h
      BY <1>6, <1>7, <2>2
    <3> QED BY <3>1 DEF TreeInv, Ordered
  <2> QED BY <2>1, <2>2
<1> QED BY <1>2, <1>3, <1>4, <1>5, <1>8

-----------------------------------------------------------------------------
(* Symbols                                                                 *)

\* A node that is not inside a group.
Free(n) == \A p \in tree[n].path \ {n} : tree[p].kind \notin GroupKinds

\* A type has its name, unless its language gives it a scope.
TypeNamed(s) ==
  tree[s.node].kind # "func" /\ (lang \in {"kotlin", "swift"} => tree[s.node].up = 0) =>
    s.qualified = <<NameOf(s.node)>>

\* The content is the text of the lines, or a signature of one line.
HasContent(s) == s.content = s.last - s.first + 1 \/ (lang = "dart" /\ s.content = 1)

\* A symbol has the lines of its statement, which is not inside a group; what a group
\* declares has its own name.
SymbolSound(s) ==
  /\ s.node \in Nodes /\ tree[s.node].kind \in {"class", "struct", "func"}
  /\ s.first = First(Statement(s.node)) /\ s.last = Last(Statement(s.node))
  /\ Free(Statement(s.node))
  /\ Statement(s.node) # s.node => s.qualified = <<NameOf(s.node)>>
  /\ TypeNamed(s) /\ HasContent(s)

\* The nodes of a kind.
Of(ks) == {n \in Nodes : tree[n].kind \in ks}

\* What has groups.
LEMMA KindsOfGroups ==
  /\ GroupKinds \subseteq {"wrap", "let"} /\ GroupKinds \subseteq Declarations
  /\ "file" \notin GroupKinds
  /\ lang = "go" => "wrap" \in GroupKinds
  /\ lang \in {"typescript", "javascript"} => GroupKinds = {"let"}
  /\ lang \notin {"go", "typescript", "javascript"} => GroupKinds = {}
BY DEF GroupKinds, Declarations

\* A node's statement is the node or its group.
LEMMA StatementTyped ==
  ASSUME TreeInv, NEW n \in Nodes
  PROVE  /\ Statement(n) \in Nodes /\ Statement(n) \in Nat /\ Statement(n) <= n
         /\ Statement(n) \in tree[n].path
         /\ Statement(n) # n => /\ Statement(n) = tree[n].up /\ Statement(n) < n
                                /\ KindOf(tree[n].up) \in GroupKinds
                                /\ tree[Statement(n)].kind \in GroupKinds
<1>1. CASE KindOf(tree[n].up) \in GroupKinds
  <2>1. tree[n].up # 0
    BY <1>1, KindsOfGroups DEF KindOf
  <2>2. Statement(n) = tree[n].up
    BY <1>1 DEF Statement
  <2>3. tree[n].up \in Nodes /\ tree[n].up \in tree[n].path /\ tree[n].up \in 0..(n - 1) /\ n \in Nat
    BY <2>1, NodeTyped
  <2>4. tree[tree[n].up].kind \in GroupKinds
    BY <1>1, <2>1 DEF KindOf
  <2> QED BY <1>1, <2>2, <2>3, <2>4
<1>2. CASE KindOf(tree[n].up) \notin GroupKinds
  <2>1. Statement(n) = n
    BY <1>2 DEF Statement
  <2> QED BY <2>1, NodeTyped
<1> QED BY <1>1, <1>2

\* What is above a node that is not inside a group is none.
LEMMA FreeIsStated ==
  ASSUME TreeInv, NEW n \in Nodes, Free(n)
  PROVE  KindOf(tree[n].up) \notin GroupKinds
<1>1. CASE tree[n].up = 0
  BY <1>1, KindsOfGroups DEF KindOf
<1>2. CASE tree[n].up # 0
  <2>1. tree[n].up \in tree[n].path /\ tree[n].up \in 0..(n - 1) /\ n \in Nat
    BY <1>2, NodeTyped
  <2>2. tree[n].up \in tree[n].path \ {n}
    BY <2>1
  <2>3. tree[tree[n].up].kind \notin GroupKinds
    BY <2>2 DEF Free
  <2> QED BY <1>2, <2>3 DEF KindOf
<1> QED BY <1>1, <1>2

\* What is at the top, in a language without groups, or below nothing but exports.
LEMMA FreeNodes ==
  ASSUME TreeInv
  PROVE  /\ \A n \in Nodes : tree[n].up = 0 => Free(n)
         /\ lang \notin {"go", "typescript", "javascript"} => \A n \in Nodes : Free(n)
         /\ lang \in {"typescript", "javascript"} => \A k : \A n \in Exposed(k) : Free(n)
<1>1. ASSUME NEW n \in Nodes, tree[n].up = 0 PROVE Free(n)
  <2>1. tree[n].path = {n}
    BY <1>1, NodeTyped
  <2> QED BY <2>1 DEF Free
<1>2. ASSUME lang \notin {"go", "typescript", "javascript"}, NEW n \in Nodes PROVE Free(n)
  BY <1>2, KindsOfGroups DEF Free
<1>3. ASSUME lang \in {"typescript", "javascript"}, NEW k, NEW n \in Exposed(k) PROVE Free(n)
  <2>1. n \in Nodes /\ \A p \in Path[n] \ {n} : tree[p].kind = "wrap"
    BY DEF Exposed, OfKind
  <2>2. Path[n] = tree[n].path
    BY <2>1, NodeTyped
  <2> QED BY <1>3, <2>1, <2>2, KindsOfGroups DEF Free
<1> QED BY <1>1, <1>2, <1>3

\* The members of a declaration outside groups are outside groups.
LEMMA FreeMember ==
  ASSUME TreeInv, NEW c \in Nodes, Free(c), tree[c].kind \notin GroupKinds,
         NEW k, NEW m \in In(c, k)
  PROVE  Free(m)
<1>1. m \in Nodes /\ tree[m].up = c /\ c # 0
  BY NodeTyped DEF In, OfKind
<1>2. tree[m].path = Path[tree[m].up] \cup {m} /\ Path[c] = tree[c].path
  BY <1>1, NodeTyped DEF TreeInv, Rooted
<1>3. \A p \in tree[m].path \ {m} : p \in tree[c].path
  BY <1>1, <1>2
<1> QED BY <1>3 DEF Free

\* A symbol of a node of its own.
LEMMA SymSound ==
  ASSUME TreeInv, NEW n \in Of({"class", "struct", "func"}), Free(n), NEW q,
         tree[n].kind # "func" /\ (lang \in {"kotlin", "swift"} => tree[n].up = 0) =>
           q = <<NameOf(n)>>
  PROVE  SymbolSound(Sym(n, q))
<1>1. n \in Nodes /\ tree[n].kind \in {"class", "struct", "func"}
  BY DEF Of
<1>2. Statement(n) = n
  BY <1>1, FreeIsStated DEF Statement
<1> QED BY <1>1, <1>2 DEF SymbolSound, TypeNamed, HasContent, Sym, Spanning

\* Symbols with their own names.
LEMMA PlainSound ==
  ASSUME TreeInv, NEW ns, ns \subseteq Of({"class", "struct", "func"}), \A n \in ns : Free(n),
         NEW s \in Plain(ns)
  PROVE  SymbolSound(s)
<1>1. PICK n \in ns : s = Sym(n, <<NameOf(n)>>)
  BY DEF Plain
<1> QED BY <1>1, SymSound

\* Functions with a scope.
LEMMA FuncSound ==
  ASSUME TreeInv, NEW n \in Of({"func"}), Free(n), NEW q
  PROVE  SymbolSound(Sym(n, q))
<1>1. n \in Of({"class", "struct", "func"}) /\ tree[n].kind = "func"
  BY DEF Of
<1> QED BY <1>1, SymSound

\* Declarations with their members.
LEMMA MembersSound ==
  ASSUME TreeInv, NEW p \in Of({"class", "struct", "func", "impl"}), Free(p),
         NEW scope, NEW s \in Members(p, scope)
  PROVE  SymbolSound(s)
<1>1. PICK m \in In(p, "func") : s = Sym(m, <<scope, NameOf(m)>>)
  BY DEF Members
<1>2. m \in Of({"func"})
  BY DEF In, OfKind, Of
<1>3. p \in Nodes /\ tree[p].kind \notin GroupKinds
  BY KindsOfGroups DEF Of
<1>4. Free(m)
  BY <1>3, FreeMember
<1> QED BY <1>1, <1>2, <1>4, FuncSound

\* The same with the declarations themselves.
LEMMA WithMembersSound ==
  ASSUME TreeInv, NEW cs, cs \subseteq Of({"class", "struct", "func"}), \A c \in cs : Free(c),
         NEW s \in WithMembers(cs)
  PROVE  SymbolSound(s)
<1>1. s \in Plain(cs) \/ \E c \in cs : s \in Members(c, NameOf(c))
  BY DEF WithMembers
<1>2. \A c \in cs : c \in Of({"class", "struct", "func", "impl"})
  BY DEF Of
<1> QED BY <1>1, <1>2, PlainSound, MembersSound

\* What groups declare.
LEMMA GroupedSound ==
  ASSUME TreeInv, NEW gs, gs \subseteq Nodes,
         \A g \in gs : Free(g) /\ tree[g].kind \in GroupKinds,
         NEW k \in {"class", "func"}, NEW s \in Grouped(gs, k)
  PROVE  SymbolSound(s)
<1>1. PICK g \in gs : \E n \in In(g, k) : s = Spanning(n, <<NameOf(n)>>, g)
  BY DEF Grouped
<1>2. PICK n \in In(g, k) : s = Spanning(n, <<NameOf(n)>>, g)
  BY <1>1
<1>3. n \in Nodes /\ tree[n].kind = k /\ tree[n].up = g /\ g # 0 /\ g \in Nodes
  BY NodeTyped DEF In, OfKind
<1>4. Statement(n) = g
  BY <1>3 DEF Statement, KindOf
<1>5. /\ s.node = n /\ s.qualified = <<NameOf(n)>> /\ s.first = First(g) /\ s.last = Last(g)
      /\ s.content = s.last - s.first + 1
  BY <1>2 DEF Spanning
<1> QED BY <1>3, <1>4, <1>5 DEF SymbolSound, TypeNamed, HasContent

\* Declarations of a kind that a walk reaches.
LEMMA Reached ==
  /\ \A p : \A k \in {"class", "struct", "func"} : In(p, k) \subseteq Of({"class", "struct", "func"})
  /\ \A k \in {"class", "struct", "func"} :
       /\ Exposed(k) \subseteq Of({"class", "struct", "func"})
       /\ \A ks : Nested(k, ks) \subseteq Of({"class", "struct", "func"})
  /\ \A p : In(p, "func") \subseteq Of({"func"})
  /\ Exposed("func") \subseteq Of({"func"})
  /\ \A ks : Nested("func", ks) \subseteq Of({"func"})
  /\ \A ks : Of(ks) \subseteq Nodes
  /\ \A k : \A p : \A n \in In(p, k) : n \in Nodes /\ tree[n].kind = k /\ tree[n].up = p
BY DEF In, Exposed, Nested, OfKind, Of

\* What the walk for Go extracts.
LEMMA GoSound ==
  ASSUME TreeInv, lang = "go", NEW s \in GoSymbols
  PROVE  SymbolSound(s)
<1>1. \A k : \A n \in In(0, k) : n \in Nodes /\ tree[n].kind = k /\ Free(n)
  BY Reached, FreeNodes
<1>2. CASE s \in GoFunctions
  <2>1. PICK f \in In(0, "func") : \E q : s = Sym(f, q)
    BY <1>2 DEF GoFunctions
  <2>2. PICK q : s = Sym(f, q)
    BY <2>1
  <2>3. f \in Of({"func"}) /\ Free(f)
    BY <1>1, Reached
  <2> QED BY <2>2, <2>3, FuncSound
<1>3. CASE s \in Plain(In(0, "class"))
  BY <1>1, <1>3, PlainSound, Reached
<1>4. CASE s \in Grouped(In(0, "wrap"), "class")
  <2>1. In(0, "wrap") \subseteq Nodes
    BY <1>1
  <2>2. \A g \in In(0, "wrap") : Free(g) /\ tree[g].kind \in GroupKinds
    BY <1>1, KindsOfGroups
  <2> QED BY <1>4, <2>1, <2>2, GroupedSound
<1> QED BY <1>2, <1>3, <1>4 DEF GoSymbols, GoTypes

\* What the walks for TypeScript and JavaScript extract.
LEMMA ScriptSound ==
  ASSUME TreeInv, lang \in {"typescript", "javascript"}, NEW s \in Symbols
  PROVE  SymbolSound(s)
<1>1. \A k : \A n \in Exposed(k) : n \in Nodes /\ tree[n].kind = k /\ Free(n)
  BY FreeNodes DEF Exposed, OfKind
<1>2. \/ s \in Plain(Exposed("func") \cup Exposed("struct")) \/ s \in Plain(Exposed("func"))
      \/ s \in ArrowFunctions \/ s \in WithMembers(Exposed("class"))
  BY DEF Symbols, TypeScriptSymbols, TypeScriptOthers, JavaScriptSymbols
<1>3. CASE s \in Plain(Exposed("func") \cup Exposed("struct"))
  <2>1. Exposed("func") \cup Exposed("struct") \subseteq Of({"class", "struct", "func"})
    BY Reached
  <2>2. \A n \in Exposed("func") \cup Exposed("struct") : Free(n)
    BY <1>1
  <2> QED BY <1>3, <2>1, <2>2, PlainSound
<1>4. CASE s \in Plain(Exposed("func"))
  BY <1>1, <1>4, PlainSound, Reached
<1>5. CASE s \in ArrowFunctions
  <2>1. Exposed("let") \subseteq Nodes
    BY <1>1
  <2>2. \A g \in Exposed("let") : Free(g) /\ tree[g].kind \in GroupKinds
    BY <1>1, KindsOfGroups
  <2>3. s \in Grouped(Exposed("let"), "func")
    BY <1>5 DEF ArrowFunctions
  <2> QED BY <2>1, <2>2, <2>3, GroupedSound
<1>6. CASE s \in WithMembers(Exposed("class"))
  BY <1>1, <1>6, WithMembersSound, Reached
<1> QED BY <1>2, <1>3, <1>4, <1>5, <1>6

\* Declarations with the name of their parent before their own.
LEMMA ScopedSound ==
  ASSUME TreeInv, lang \in {"kotlin", "swift"}, NEW ns, ns \subseteq Of({"class", "struct", "func"}),
         NEW s \in Scoped(ns)
  PROVE  SymbolSound(s)
<1>1. PICK n \in ns :
        s = Sym(n, IF tree[n].up = 0 THEN <<NameOf(n)>> ELSE <<NameOf(tree[n].up), NameOf(n)>>)
  BY DEF Scoped
<1> DEFINE q == IF tree[n].up = 0 THEN <<NameOf(n)>> ELSE <<NameOf(tree[n].up), NameOf(n)>>
<1>2. tree[n].up = 0 => q = <<NameOf(n)>>
  OBVIOUS
<1>3. s = Sym(n, q) /\ n \in Of({"class", "struct", "func"})
  BY <1>1
<1>4. Free(n)
  BY <1>3, FreeNodes, Reached
<1> HIDE DEF q
<1> QED BY <1>2, <1>3, <1>4, SymSound

\* What the other languages' walks extract.
LEMMA OthersSound ==
  ASSUME TreeInv, lang \notin {"go", "typescript", "javascript"}, NEW s \in Symbols
  PROVE  SymbolSound(s)
<1>0. \A ks : \A n \in Of(ks) : Free(n)
  BY FreeNodes, Reached
<1>p. ASSUME NEW ns, ns \subseteq Of({"class", "struct", "func"})
      PROVE  /\ s \in Plain(ns) => SymbolSound(s)
             /\ s \in WithMembers(ns) => SymbolSound(s)
  <2>1. \A n \in ns : Free(n)
    BY <1>0, <1>p
  <2> QED BY <1>p, <2>1, PlainSound, WithMembersSound
<1>f. ASSUME NEW f \in Of({"func"}), NEW q PROVE SymbolSound(Sym(f, q))
  BY <1>0, FuncSound
<1>1. CASE lang = "python"
  <2>1. s \in Plain(In(0, "func")) \/ s \in WithMembers(In(0, "class"))
    BY <1>1 DEF Symbols, PythonSymbols
  <2> QED BY <1>p, <2>1, Reached
<1>2. CASE lang = "rust"
  <2>1. \/ s \in Plain(In(0, "func") \cup In(0, "struct")) \/ s \in WithMembers(In(0, "class"))
        \/ \E i \in In(0, "impl") : s \in Members(i, NameOf(i))
    BY <1>2 DEF Symbols, RustSymbols, RustImpls
  <2>2. In(0, "func") \cup In(0, "struct") \subseteq Of({"class", "struct", "func"})
    BY Reached
  <2>3. In(0, "impl") \subseteq Of({"class", "struct", "func", "impl"})
    BY DEF In, OfKind, Of
  <2>4. ASSUME NEW i \in In(0, "impl"), s \in Members(i, NameOf(i)) PROVE SymbolSound(s)
    BY <1>0, <2>3, <2>4, MembersSound
  <2> QED BY <1>p, <2>1, <2>2, <2>4, Reached
<1>3. CASE lang = "c"
  <2>1. s \in Plain(In(0, "func") \cup In(0, "struct"))
    BY <1>3 DEF Symbols, CSymbols
  <2>2. In(0, "func") \cup In(0, "struct") \subseteq Of({"class", "struct", "func"})
    BY Reached
  <2> QED BY <1>p, <2>1, <2>2
<1>4. CASE lang = "cpp"
  <2>1. \/ \E f \in Exposed("func") : \E q : s = Sym(f, q)
        \/ s \in Plain(Exposed("struct")) \/ s \in WithMembers(Exposed("class"))
    BY <1>4 DEF Symbols, CppSymbols, CppFunctions
  <2> QED BY <1>f, <1>p, <2>1, Reached
<1>5. CASE lang = "kotlin"
  <2>1. \/ s \in Scoped(Nested("class", {"class"}))
        \/ \E f \in Nested("func", {"class"}) : \E q : s = Sym(f, q)
        \/ \E w, q : \E f \in In(w, "func") : s = Sym(f, q)
    <3>1. s \in KotlinClasses \/ s \in KotlinFunctions \/ s \in KotlinCompanions
      BY <1>5 DEF Symbols, KotlinSymbols
    <3>2. s \in KotlinFunctions => \E f \in Nested("func", {"class"}) : \E q : s = Sym(f, q)
      BY DEF KotlinFunctions
    <3>3. s \in KotlinCompanions => \E w, q : \E f \in In(w, "func") : s = Sym(f, q)
      BY DEF KotlinCompanions
    <3> QED BY <3>1, <3>2, <3>3 DEF KotlinClasses
  <2> QED BY <1>5, <1>f, <2>1, ScopedSound, Reached
<1>6. CASE lang = "swift"
  <2>1. \/ s \in Scoped(Nested("class", {"class", "impl"}))
        \/ s \in Scoped(Nested("func", {"class", "impl"}))
    BY <1>6 DEF Symbols, SwiftSymbols, SwiftTypes, SwiftMembers
  <2> QED BY <1>6, <2>1, ScopedSound, Reached
<1>7. CASE lang = "dart"
  <2>1. s \in DartSymbols
    BY <1>7 DEF Symbols
  <2>2. \/ \E f \in Of({"func"}) : \E q : s = [Sym(f, q) EXCEPT !.content = 1]
        \/ s \in Plain(In(0, "class")) \/ s \in Plain(In(0, "struct"))
    <3>1. \/ s \in SignatureOnly(Plain(In(0, "func")) \cup DartMembers)
          \/ s \in Plain(In(0, "class")) \/ s \in Plain(In(0, "struct"))
      BY <2>1 DEF DartSymbols, DartClasses, DartOthers
    <3>2. CASE s \in SignatureOnly(Plain(In(0, "func")) \cup DartMembers)
      <4>1. PICK t \in Plain(In(0, "func")) \cup DartMembers : s = [t EXCEPT !.content = 1]
        BY <3>2 DEF SignatureOnly
      <4>2. \E p, q : \E f \in In(p, "func") : t = Sym(f, q)
        BY DEF Plain, DartMembers
      <4> QED BY <4>1, <4>2, Reached
    <3> QED BY <3>1, <3>2
  <2>3. ASSUME NEW f \in Of({"func"}), NEW q, s = [Sym(f, q) EXCEPT !.content = 1]
        PROVE  SymbolSound(s)
    <3>1. SymbolSound(Sym(f, q))
      BY <1>f
    <3>2. Sym(f, q) = [node |-> f, qualified |-> q, first |-> First(f), last |-> Last(f),
                       content |-> Last(f) - First(f) + 1]
      BY DEF Sym, Spanning
    <3>3. /\ s.node = Sym(f, q).node /\ s.qualified = Sym(f, q).qualified
          /\ s.first = Sym(f, q).first /\ s.last = Sym(f, q).last /\ s.content = 1
      BY <2>3, <3>2
    <3> QED BY <1>7, <3>1, <3>3 DEF SymbolSound, TypeNamed, HasContent
  <2> QED BY <1>p, <2>2, <2>3, Reached
<1> QED BY <1>1, <1>2, <1>3, <1>4, <1>5, <1>6, <1>7 DEF TreeInv, Languages

\* What any language's walk extracts.
LEMMA AllSound ==
  ASSUME TreeInv, NEW s \in Symbols
  PROVE  SymbolSound(s)
<1>1. CASE lang = "go"
  <2>1. s \in GoSymbols
    BY <1>1 DEF Symbols
  <2> QED BY <1>1, <2>1, GoSound
<1> QED BY <1>1, ScriptSound, OthersSound

\* A symbol's lines are those of its statement, which has lines of its own.
LEMMA SymbolLines ==
  ASSUME TreeInv, NEW s \in Symbols
  PROVE  /\ s.first \in Nat /\ s.last \in Nat /\ s.first <= s.last /\ s.node \in Nodes
         /\ Statement(s.node) \in Nodes /\ Stated(Statement(s.node))
         /\ s.first = First(Statement(s.node)) /\ s.last = Last(Statement(s.node))
<1>1. SymbolSound(s)
  BY AllSound
<1>2. PICK b : b = Statement(s.node)
  OBVIOUS
<1>3. /\ s.node \in Nodes /\ tree[s.node].kind \in {"class", "struct", "func"}
      /\ s.first = First(b) /\ s.last = Last(b) /\ Free(b)
  BY <1>1, <1>2 DEF SymbolSound
<1>4. b \in Nodes /\ (b = s.node \/ tree[b].kind \in GroupKinds)
  BY <1>2, <1>3, StatementTyped
<1>5. Stated(b)
  BY <1>3, <1>4, FreeIsStated, KindsOfGroups DEF Stated, Declarations
<1> QED BY <1>2, <1>3, <1>4, <1>5, LastIs

-----------------------------------------------------------------------------
(* Chunks of symbols                                                       *)

\* What the chunks of one symbol are.
LEMMA ChunksOfSymbol ==
  ASSUME TreeInv, NEW s \in Symbols
  PROVE  LET cs == Chunks(s.first, s.last, s.content)
         IN /\ Covers(cs, s.first, s.last)
            /\ \A c \in cs :
                 /\ c.first \in s.first..s.last
                 /\ c.content <= MaxLines
                 /\ lang # "dart" => c.content = c.last - c.first + 1
                 /\ c.first = s.first
                      \/ \E d \in cs : /\ d.first < c.first
                                       /\ d.last - c.first + 1 = MaxLines - Stride
<1> DEFINE cs == Chunks(s.first, s.last, s.content)
           whole == [first |-> s.first, last |-> s.last, content |-> s.content]
<1>1. s.first \in Nat /\ s.last \in Nat /\ s.first <= s.last
  BY SymbolLines
<1>2. HasContent(s)
  BY AllSound DEF SymbolSound
<1>3. s.content \in Nat /\ (s.content > MaxLines => s.content = s.last - s.first + 1)
  BY <1>1, <1>2, StrideBounds DEF HasContent
<1>4. CASE s.content > MaxLines
  <2>1. PICK first \in Nat : first = s.first
    BY <1>1
  <2>2. PICK content \in Nat : content = s.content /\ content > MaxLines
    BY <1>3, <1>4
  <2>3. s.last = first + content - 1
    BY <1>1, <1>3, <1>4, <2>1, <2>2
  <2>4. cs = Chunks(first, first + content - 1, content)
    BY <2>1, <2>2, <2>3
  <2> HIDE DEF cs
  <2>5. /\ Covers(cs, first, first + content - 1)
        /\ \A c \in cs :
             /\ c.first \in first..(first + content - 1)
             /\ c.content <= MaxLines /\ c.content = c.last - c.first + 1
             /\ c.first = first
                  \/ \E d \in cs : /\ d.first < c.first
                                   /\ d.last - c.first + 1 = MaxLines - Stride
    BY <2>2, <2>4, CutCovers
  <2>6. /\ Covers(cs, s.first, s.last)
        /\ \A c \in cs :
             /\ c.first \in s.first..s.last
             /\ c.content <= MaxLines /\ c.content = c.last - c.first + 1
             /\ c.first = s.first
                  \/ \E d \in cs : /\ d.first < c.first
                                   /\ d.last - c.first + 1 = MaxLines - Stride
    BY <2>1, <2>3, <2>5
  <2> QED BY <2>6 DEF cs
<1>5. CASE ~(s.content > MaxLines)
  <2>1. cs = {whole}
    BY <1>3, <1>5, StrideBounds DEF Chunks
  <2>2. whole.first = s.first /\ whole.last = s.last /\ whole.content = s.content
    OBVIOUS
  <2> HIDE DEF cs, whole
  <2>3. Covers(cs, s.first, s.last)
    BY <2>1, <2>2 DEF Covers
  <2>4. \A c \in cs : /\ c.first \in s.first..s.last
                      /\ c.content <= MaxLines
                      /\ lang # "dart" => c.content = c.last - c.first + 1
                      /\ c.first = s.first
    BY <1>1, <1>2, <1>3, <1>5, <2>1, <2>2, StrideBounds DEF HasContent
  <2> QED BY <2>3, <2>4 DEF cs
<1> QED BY <1>4, <1>5

(***************************************************************************)
(* Theorem.  Whatever the limit, the overlap and the symbol, chunkSymbol   *)
(* leaves no line of a symbol out and cuts no chunk longer than the limit. *)
(***************************************************************************)
THEOREM ChunksAreWhole == Spec => []ChunksCover
<1>1. ASSUME TreeInv PROVE ChunksCover
  <2> SUFFICES ASSUME NEW s \in Symbols
               PROVE  LET cs == Chunks(s.first, s.last, s.content)
                      IN /\ UNION {c.first..c.last : c \in cs} = s.first..s.last
                         /\ \A c \in cs :
                              /\ c.content <= MaxLines
                              /\ lang # "dart" => c.content = c.last - c.first + 1
                              /\ c.first = s.first
                                   \/ \E d \in cs :
                                        /\ d.first < c.first
                                        /\ d.last - c.first + 1 =
                                             (IF MaxLines > OverlapLines THEN OverlapLines ELSE 0)
    BY DEF ChunksCover
  <2>1. MaxLines - Stride = IF MaxLines > OverlapLines THEN OverlapLines ELSE 0
    BY StrideBounds
  <2> QED BY <1>1, <2>1, ChunksOfSymbol DEF Covers
<1> QED BY <1>1, TreesInOrder, PTL

-----------------------------------------------------------------------------
(* IDs                                                                     *)

\* Two symbols of one name that are not one inside the other share no line.
LEMMA ApartOrNamedApart ==
  ASSUME TreeInv, NEW s \in Symbols, NEW t \in Symbols, s.node < t.node,
         s.node \notin Path[t.node], s.qualified = t.qualified
  PROVE  s.last < t.first
<1>1. /\ s.node \in Nodes /\ t.node \in Nodes /\ s.node \in Nat /\ t.node \in Nat
      /\ s.node \notin tree[t.node].path
  BY SymbolLines, NodeTyped
<1>2. SymbolSound(s) /\ SymbolSound(t)
  BY AllSound
<1>3. PICK a : a = Statement(s.node)
  OBVIOUS
<1>4. PICK b : b = Statement(t.node)
  OBVIOUS
<1>5. /\ a \in Nodes /\ a \in Nat /\ a <= s.node /\ a \in tree[s.node].path
      /\ a # s.node => /\ a = tree[s.node].up /\ a < s.node /\ KindOf(tree[s.node].up) \in GroupKinds
                       /\ tree[a].kind \in GroupKinds
  BY <1>1, <1>3, StatementTyped
<1>6. /\ b \in Nodes /\ b \in Nat /\ b <= t.node /\ b \in tree[t.node].path
      /\ b # t.node => /\ b = tree[t.node].up /\ b < t.node /\ tree[b].kind \in GroupKinds
  BY <1>1, <1>4, StatementTyped
<1>7. Free(a) /\ Free(b)
  BY <1>2, <1>3, <1>4 DEF SymbolSound
<1>8. tree[b].path \subseteq tree[t.node].path
  BY <1>1, <1>6, NodeTyped
<1>9. a # b
  <2> SUFFICES ASSUME a = b PROVE FALSE
    OBVIOUS
  <2>1. a # s.node /\ b # t.node
    BY <1>1, <1>5, <1>6
  <2>2. s.qualified = <<NameOf(s.node)>> /\ t.qualified = <<NameOf(t.node)>>
    BY <1>2, <1>3, <1>4, <2>1 DEF SymbolSound
  <2>3. \A x, y : <<x>> = <<y>> => x = y
    OBVIOUS
  <2>4. NameOf(s.node) = NameOf(t.node)
    BY <2>2, <2>3
  <2>5. tree[s.node].name = tree[t.node].name
    BY <2>4 DEF NameOf
  <2>6. tree[s.node].kind \in Declarations /\ tree[t.node].kind \in Declarations
    BY <1>2 DEF SymbolSound, Declarations
  <2>7. tree[s.node].up = tree[t.node].up /\ KindOf(tree[s.node].up) \in GroupKinds
    BY <1>5, <1>6, <2>1
  <2>8. s.node = t.node
    BY <1>1, <2>5, <2>6, <2>7 DEF TreeInv, Spelt
  <2> QED BY <1>1, <2>8
<1>10. a \notin tree[b].path
  <2> SUFFICES ASSUME a \in tree[b].path PROVE FALSE
    OBVIOUS
  <2>1. a # s.node
    BY <1>1, <1>8
  <2> QED BY <1>5, <1>7, <1>9, <2>1 DEF Free
<1>11. ~(b < a)
  <2> SUFFICES ASSUME b < a PROVE FALSE
    OBVIOUS
  <2>1. b <= a /\ a <= t.node /\ b # t.node
    BY <1>1, <1>5, <1>6
  <2>2. b \in tree[a].path
    BY <1>1, <1>5, <1>6, <2>1 DEF TreeInv, PreOrder
  <2> QED BY <1>6, <1>7, <1>9, <2>1, <2>2 DEF Free
<1>12. a < b
  BY <1>5, <1>6, <1>9, <1>11
<1>13. s.last = Last(a) /\ t.first = First(b) /\ Stated(b)
  BY <1>3, <1>4, SymbolLines
<1> QED BY <1>5, <1>6, <1>10, <1>12, <1>13, BeginsAfter

(***************************************************************************)
(* Theorem.  In every file of every language chunkID gives no two          *)
(* declarations the same ID, unless one is inside the other and they have  *)
(* one qualified name.                                                     *)
(***************************************************************************)
THEOREM IDsAreDistinct == Spec => []ChunkIDsDistinct
<1>1. ASSUME TreeInv PROVE ChunkIDsDistinct
  <2> SUFFICES ASSUME NEW s \in Symbols, NEW t \in Symbols, s.node < t.node,
                      ~(s.qualified = t.qualified /\ s.node \in Path[t.node]),
                      NEW i \in IDs(s), i \in IDs(t)
               PROVE  FALSE
    BY DEF ChunkIDsDistinct
  <2>1. PICK c \in Chunks(s.first, s.last, s.content) : i = <<s.qualified, c.first>>
    BY DEF IDs, ChunkID
  <2>2. PICK d \in Chunks(t.first, t.last, t.content) : i = <<t.qualified, d.first>>
    BY DEF IDs, ChunkID
  <2>3. s.qualified = t.qualified /\ c.first = d.first
    BY <2>1, <2>2
  <2>4. c.first \in s.first..s.last /\ d.first \in t.first..t.last
    BY <1>1, ChunksOfSymbol
  <2>5. s.last < t.first
    BY <1>1, <2>3, ApartOrNamedApart
  <2> QED BY <1>1, <2>3, <2>4, <2>5, SymbolLines
<1> QED BY <1>1, TreesInOrder, PTL

-----------------------------------------------------------------------------
(* Relationships                                                           *)

\* A call or a reference comes from a symbol around its line.
FromAround(r) == r.node \in Nodes /\ \E e \in Enclosing(Symbols, First(r.node)) : r.source = e.qualified

\* An inheritance has the name the walk found for the declaration above it.
FromAbove(r, source) ==
  r.node \in Nodes /\ tree[r.node].up \in DOMAIN source /\ r.source = <<source[tree[r.node].up]>>

\* Calls are attributed by lines.
LEMMA CallsComeFrom ==
  ASSUME NEW callee, DOMAIN callee \subseteq Nodes, NEW r \in Calls(callee)
  PROVE  r.kind = "calls" /\ FromAround(r)
<1>1. PICK n \in DOMAIN callee : \E e \in Enclosing(Symbols, First(n)) :
        r = Relationship(n, e.qualified, callee[n], "calls")
  BY DEF Calls
<1>2. PICK e \in Enclosing(Symbols, First(n)) :
        r = Relationship(n, e.qualified, callee[n], "calls")
  BY <1>1
<1>3. r.node = n /\ r.source = e.qualified /\ r.kind = "calls"
  BY <1>2 DEF Relationship
<1> QED BY <1>3 DEF FromAround

\* So are references.
LEMMA ReferencesComeFrom ==
  ASSUME NEW ns, ns \subseteq Nodes, NEW r \in ReferencesFrom(ns)
  PROVE  r.kind = "references" /\ FromAround(r)
<1>1. PICK n \in ns : \E e \in Enclosing(Symbols, First(n)) :
        r = Relationship(n, e.qualified, <<NameOf(n)>>, "references")
  BY DEF ReferencesFrom
<1>2. PICK e \in Enclosing(Symbols, First(n)) :
        r = Relationship(n, e.qualified, <<NameOf(n)>>, "references")
  BY <1>1
<1>3. r.node = n /\ r.source = e.qualified /\ r.kind = "references"
  BY <1>2 DEF Relationship
<1> QED BY <1>3 DEF FromAround

\* An inheritance has a name as its source.
LEMMA InheritsComeFrom ==
  ASSUME NEW source, NEW r \in Inherits(source)
  PROVE  r.kind = "inherits" /\ FromAbove(r, source)
<1>1. PICK b \in {n \in OfKind("base") : tree[n].up \in DOMAIN source} :
        r = Relationship(b, <<source[tree[b].up]>>, <<NameOf(b)>>, "inherits")
  BY DEF Inherits
<1>2. r.node = b /\ r.source = <<source[tree[b].up]>> /\ r.kind = "inherits"
  BY <1>1 DEF Relationship
<1> QED BY <1>1, <1>2 DEF FromAbove, OfKind

\* An import has the path of its file.
LEMMA ImportsComeFrom ==
  ASSUME NEW r \in Imports
  PROVE  r.kind = "references" /\ r.source = FilePath
BY DEF Imports, Relationship

\* What a language's second walk takes for the name of a declaration with bases.
Bearers ==
  CASE lang \in {"go", "python", "typescript", "javascript", "kotlin", "dart"} -> NamesOf({"class"})
    [] lang = "cpp" -> NamesOf({"class", "struct"})
    [] lang = "swift" -> NamesOf({"class", "impl"})
    [] lang = "rust" -> ImplNames
    [] lang = "c" -> NamesOf({})

\* Where a relationship comes from, in every language.
LEMMA ComesFrom ==
  ASSUME TreeInv, NEW r \in Relationships
  PROVE  \/ r.kind = "references" /\ r.source = FilePath
         \/ r.kind \in {"calls", "references"} /\ FromAround(r)
         \/ r.kind = "inherits" /\ FromAbove(r, Bearers)
<1>1. /\ DOMAIN DottedCallee \subseteq Nodes /\ DOMAIN FieldCallee \subseteq Nodes
      /\ DOMAIN DartCallee \subseteq Nodes
  BY DEF DottedCallee, FieldCallee, DartCallee, OfKind
<1>2. OfKind("ref") \subseteq Nodes /\ OfKind("ref") \cup OfKind("base") \subseteq Nodes
  BY DEF OfKind
<1>3. \/ r \in Imports
      \/ r \in Calls(DottedCallee) \/ r \in Calls(FieldCallee) \/ r \in Calls(DartCallee)
      \/ r \in ReferencesFrom(OfKind("ref")) \/ r \in ReferencesFrom(OfKind("ref") \cup OfKind("base"))
      \/ r \in Inherits(Bearers)
  <2>1. CASE lang = "go"
    BY <2>1 DEF Relationships, GoRelationships, Bearers
  <2>2. CASE lang = "python"
    BY <2>2 DEF Relationships, PythonRelationships, References, Bearers
  <2>3. CASE lang = "typescript"
    BY <2>3 DEF Relationships, TypeScriptRelationships, JavaScriptRelationships, References, Bearers
  <2>4. CASE lang = "javascript"
    BY <2>4 DEF Relationships, JavaScriptRelationships, Bearers
  <2>5. CASE lang = "rust"
    BY <2>5 DEF Relationships, RustRelationships, References, Bearers
  <2>6. CASE lang = "c"
    BY <2>6 DEF Relationships, CRelationships, References
  <2>7. CASE lang = "cpp"
    BY <2>7 DEF Relationships, CppRelationships, References, Bearers
  <2>8. CASE lang = "kotlin"
    BY <2>8 DEF Relationships, KotlinRelationships, References, Bearers
  <2>9. CASE lang = "swift"
    BY <2>9 DEF Relationships, SwiftRelationships, References, Bearers
  <2>10. CASE lang = "dart"
    BY <2>10 DEF Relationships, DartRelationships, References, Bearers
  <2> QED BY <2>1, <2>2, <2>3, <2>4, <2>5, <2>6, <2>7, <2>8, <2>9, <2>10 DEF TreeInv, Languages
<1>4. CASE r \in Imports
  BY <1>4, ImportsComeFrom
<1>5. CASE r \in Calls(DottedCallee) \/ r \in Calls(FieldCallee) \/ r \in Calls(DartCallee)
  BY <1>1, <1>5, CallsComeFrom
<1>6. CASE \/ r \in ReferencesFrom(OfKind("ref"))
           \/ r \in ReferencesFrom(OfKind("ref") \cup OfKind("base"))
  BY <1>2, <1>6, ReferencesComeFrom
<1>7. CASE r \in Inherits(Bearers)
  BY <1>7, InheritsComeFrom
<1> QED BY <1>3, <1>4, <1>5, <1>6, <1>7

\* Of the symbols a node is in, one whose lines are the narrowest is the innermost.
LEMMA NarrowestIsInnermost ==
  ASSUME TreeInv, NEW n \in Nodes, NEW a \in Around(Symbols, n),
         \A t \in Symbols : t.first <= First(n) /\ First(n) <= t.last =>
           a.last - a.first <= t.last - t.first
  PROVE  a \in Innermost(Symbols, n)
<1> SUFFICES ASSUME NEW t \in Around(Symbols, n), ~(t.node <= a.node) PROVE FALSE
  BY DEF Innermost
<1>1. Path[n] = tree[n].path /\ n \in Nat
  BY NodeTyped
<1>2. /\ a \in Symbols /\ a.node \in tree[n].path /\ t \in Symbols /\ t.node \in tree[n].path
  BY <1>1 DEF Around
<1>3. /\ a.node \in Nodes /\ a.node \in Nat /\ t.node \in Nodes /\ t.node \in Nat
      /\ a.node < t.node /\ t.node <= n
  BY <1>2, NodeTyped
<1>4. PICK d : d = Statement(a.node)
  OBVIOUS
<1>5. PICK b : b = Statement(t.node)
  OBVIOUS
<1>6. /\ d \in Nodes /\ d \in Nat /\ d <= a.node /\ d \in tree[a.node].path
      /\ d # a.node => d = tree[a.node].up /\ d < a.node
  BY <1>3, <1>4, StatementTyped
<1>7. /\ b \in Nodes /\ b \in Nat /\ b <= t.node /\ b \in tree[t.node].path
      /\ b # t.node => b = tree[t.node].up /\ b < t.node /\ tree[b].kind \in GroupKinds
  BY <1>3, <1>5, StatementTyped
<1>8. d \in tree[n].path /\ b \in tree[n].path
  BY <1>2, <1>6, <1>7, NodeTyped
<1>9. a.first = First(d) /\ a.last = Last(d) /\ t.first = First(b) /\ t.last = Last(b) /\ Stated(b)
  BY <1>2, <1>4, <1>5, SymbolLines
<1>10. Free(d) /\ tree[a.node].kind \notin GroupKinds
  BY <1>2, <1>4, AllSound, KindsOfGroups DEF SymbolSound
<1>11. a.node \in tree[t.node].path
  BY <1>2, <1>3 DEF TreeInv, PreOrder
<1>12. d # b
  <2> SUFFICES ASSUME d = b PROVE FALSE
    OBVIOUS
  <2>1. b # t.node /\ b = tree[t.node].up /\ tree[b].kind \in GroupKinds
    BY <1>3, <1>6, <1>7
  <2>2. d # a.node
    BY <1>10, <2>1
  <2>3. tree[t.node].path = Path[tree[t.node].up] \cup {t.node}
    BY <1>3 DEF TreeInv, Rooted
  <2>4. Path[tree[t.node].up] = tree[b].path
    BY <1>7, <2>1, NodeTyped
  <2>5. a.node \in tree[b].path
    BY <1>3, <1>11, <2>3, <2>4
  <2>6. a.node <= b
    BY <1>7, <2>5, NodeTyped
  <2> QED BY <1>3, <1>6, <2>2, <2>6
<1>13. ~(b < d)
  <2> SUFFICES ASSUME b < d PROVE FALSE
    OBVIOUS
  <2>1. d <= n /\ b <= d
    BY <1>3, <1>6, <1>7, <1>1
  <2>2. b \in tree[d].path
    BY <1>6, <1>7, <1>8, <2>1 DEF TreeInv, PreOrder
  <2>3. b # t.node
    BY <1>3, <1>6
  <2> QED BY <1>7, <1>10, <1>12, <2>2, <2>3 DEF Free
<1>14. d < b /\ b <= n
  BY <1>1, <1>3, <1>6, <1>7, <1>12, <1>13
<1>15. d \in tree[b].path
  BY <1>6, <1>7, <1>8, <1>14 DEF TreeInv, PreOrder
<1>16. First(d) < First(b) /\ Last(b) <= Last(d)
  BY <1>7, <1>9, <1>12, <1>15, LiesWithin
<1>17. First(b) <= First(n) /\ Last(n) <= Last(b)
  BY <1>8, LiesWithin
<1>18. /\ First(n) \in Nat /\ Last(n) \in Nat /\ First(n) <= Last(n)
       /\ First(b) \in Nat /\ Last(b) \in Nat /\ First(d) \in Nat /\ Last(d) \in Nat
  BY <1>6, <1>7, LastIs
<1>19. t.first <= First(n) /\ First(n) <= t.last
  BY <1>9, <1>17, <1>18
<1>20. a.last - a.first <= t.last - t.first
  BY <1>2, <1>19
<1> QED BY <1>9, <1>16, <1>18, <1>20

(***************************************************************************)
(* Theorem.  findEnclosingSymbol, which looks at nothing but lines,        *)
(* attributes a call or a reference to the innermost symbol it is written  *)
(* in, whatever the first walk passed over, or to the first symbol of the  *)
(* statement that symbol is declared in.                                   *)
(***************************************************************************)
THEOREM UsesAreAttributed == Spec => []UsesAttributed
<1>1. ASSUME TreeInv PROVE UsesAttributed
  <2> SUFFICES ASSUME NEW r \in Relationships,
                      r.kind \in {"calls", "references"}, r.source # FilePath,
                      AloneOnItsLine(Symbols, r.node)
               PROVE  \E s \in Innermost(Symbols, r.node) :
                        \E t \in FirstTogether(Symbols, s) : r.source = t.qualified
    BY DEF UsesAttributed
  <2>1. FromAround(r)
    BY <1>1, ComesFrom
  <2>2. PICK n \in Nodes : n = r.node
    BY <2>1 DEF FromAround
  <2>3. PICK e \in Enclosing(Symbols, First(n)) : r.source = e.qualified
    BY <2>1, <2>2 DEF FromAround
  <2>4. /\ e \in Symbols /\ e.first <= First(n) /\ First(n) <= e.last
        /\ \A t \in Symbols : t.first <= First(n) /\ First(n) <= t.last =>
             e.last - e.first <= t.last - t.first
    BY DEF Enclosing
  <2>5. First(n) \in Nat
    BY <1>1, LastIs
  <2>6. First(n) \in e.first..e.last
    BY <1>1, <2>4, <2>5, SymbolLines
  <2>7. PICK a \in Around(Symbols, n) : e \in Together(Symbols, a)
    BY <2>2, <2>4, <2>6 DEF AloneOnItsLine
  <2>8. a \in Symbols /\ Statement(e.node) = Statement(a.node)
    BY <2>7 DEF Around, Together
  <2>9. a.first = e.first /\ a.last = e.last
    BY <1>1, <2>4, <2>8, SymbolLines
  <2>10. a \in Innermost(Symbols, n)
    BY <1>1, <2>4, <2>9, NarrowestIsInnermost
  <2>11. ASSUME NEW t \in Together(Symbols, a) PROVE e.node <= t.node
    <3>1. t \in Symbols /\ Statement(t.node) = Statement(e.node)
      BY <2>8 DEF Together
    <3>2. t.first = e.first /\ t.last = e.last
      BY <1>1, <2>4, <3>1, SymbolLines
    <3>3. t \in {u \in Symbols : u.first <= First(n) /\ First(n) <= u.last}
      BY <2>4, <3>1, <3>2
    <3>4. \A u \in {v \in Symbols : v.first <= First(n) /\ First(n) <= v.last} :
            t.last - t.first <= u.last - u.first
      BY <2>4, <3>2
    <3> QED BY <3>3, <3>4 DEF Enclosing
  <2>12. e \in FirstTogether(Symbols, a)
    BY <2>7, <2>11 DEF FirstTogether
  <2> QED BY <2>2, <2>3, <2>10, <2>12
<1> QED BY <1>1, TreesInOrder, PTL

(***************************************************************************)
(* Theorem.  The two walks agree on the name of a type with bases, in      *)
(* every language; in Rust whatever type parameters the impl block has.    *)
(***************************************************************************)
THEOREM BasesAreJoined == Spec => []BasesJoinTypes
<1>1. ASSUME TreeInv PROVE BasesJoinTypes
  <2> SUFFICES ASSUME NEW r \in Relationships, NEW s \in Symbols, r.kind = "inherits",
                      \/ /\ s.node = tree[r.node].up
                         /\ lang \in {"kotlin", "swift"} => tree[s.node].up = 0
                      \/ /\ lang = "rust" /\ tree[s.node].kind = "struct"
                         /\ NameOf(tree[r.node].up)
                              \in {NameOf(s.node)} \cup {g \in Generic : Bare[g] = NameOf(s.node)}
               PROVE  r.source = s.qualified
    BY DEF BasesJoinTypes
  <2>1. FromAbove(r, Bearers)
    BY <1>1, ComesFrom
  <2>2. PICK p : p = tree[r.node].up
    OBVIOUS
  <2>3. p \in DOMAIN Bearers /\ r.source = <<Bearers[p]>>
    BY <2>1, <2>2 DEF FromAbove
  <2>4. s.node \in Nodes /\ TypeNamed(s) /\ tree[s.node].kind \in {"class", "struct", "func"}
    BY <1>1, AllSound DEF SymbolSound
  <2>5. CASE lang # "rust"
    <3>1. \E ks : /\ ks \subseteq {"class", "struct", "impl"} /\ Bearers = NamesOf(ks)
      BY <1>1, <2>5 DEF Bearers, TreeInv, Languages
    <3>2. Bearers[p] = NameOf(p) /\ tree[p].kind \in {"class", "struct", "impl"}
      BY <2>3, <3>1 DEF NamesOf, OfKind
    <3>3. s.node = p /\ (lang \in {"kotlin", "swift"} => tree[s.node].up = 0)
      BY <2>2, <2>5
    <3> QED BY <2>3, <2>4, <3>2, <3>3 DEF TypeNamed
  <2>6. CASE lang = "rust"
    <3>1. Bearers = ImplNames
      BY <2>6 DEF Bearers
    <3>2. tree[p].kind = "impl" /\ Bearers[p] = WithoutParameters(p)
      BY <2>3, <3>1 DEF ImplNames, OfKind
    <3>3. /\ tree[s.node].kind = "struct"
          /\ NameOf(p) \in {NameOf(s.node)} \cup {g \in Generic : Bare[g] = NameOf(s.node)}
      BY <2>2, <2>4, <3>2
    <3>4. NameOf(s.node) \in Names
      BY <1>1, <2>4, <3>3 DEF TreeInv, Spelt, Nameless, NameOf
    <3>5. WithoutParameters(p) = NameOf(s.node)
      BY <3>3, <3>4, TreeAssumption DEF WithoutParameters
    <3>6. s.qualified = <<NameOf(s.node)>>
      BY <2>4, <2>6, <3>3 DEF TypeNamed
    <3> QED BY <2>3, <3>2, <3>5, <3>6
  <2> QED BY <2>5, <2>6
<1> QED BY <1>1, TreesInOrder, PTL
=============================================================================
