---------------------- MODULE RelationshipGraphProofs ----------------------
(***************************************************************************)
(* Safety of the relationships table, for any files, contents, symbols,    *)
(* names and number of passes: what is stored joins two symbols that are   *)
(* there, and what a finalized pass could resolve is stored.               *)
(***************************************************************************)
EXTENDS RelationshipGraph, TLAPS

-----------------------------------------------------------------------------
(* The symbols table                                                       *)

\* The rows of symbols are IDs of the files that are indexed, and a step that
\* touches one file adds and removes symbols of that file only.
LEMMA SymbolsTyped ==
  ASSUME NEW state \in [Files -> Contents \cup {NoContent}]
  PROVE  SymbolsIn(state) \subseteq SymbolIDs
BY GraphAssumption DEF SymbolsIn

\* A symbol of a file that is not touched stays in the table.
LEMMA SymbolsOfOthers ==
  ASSUME NEW state \in [Files -> Contents \cup {NoContent}],
         NEW next \in [Files -> Contents \cup {NoContent}],
         NEW f \in Files, \A g \in Files : g # f => next[g] = state[g],
         NEW i \in SymbolsIn(state), FileOf[i] # f
  PROVE  i \in SymbolsIn(next)
<1>1. PICK g \in Files : state[g] # NoContent /\ i \in SymbolsOf[g][state[g]]
  BY DEF SymbolsIn
<1>2. FileOf[i] = g
  BY <1>1, GraphAssumption
<1>3. next[g] = state[g]
  BY <1>2
<1>4. QED
  BY <1>1, <1>3 DEF SymbolsIn

-----------------------------------------------------------------------------
(* Type correctness                                                        *)

\* Every variable keeps its type: rows are pairs of IDs, buffers hold raw
\* relationships, and a pass is in one of its states.
THEOREM GraphTypeCorrect == Spec => []TypeOK
<1> USE GraphAssumption
<1>1. Init => TypeOK
  BY DEF Init, TypeOK, PassStates
<1>2. TypeOK /\ [Next]_vars => TypeOK'
  <2> SUFFICES ASSUME TypeOK, [Next]_vars PROVE TypeOK'
    OBVIOUS
  <2> USE DEF TypeOK, PassStates
  <2>1. ASSUME NEW r \in Passes, NEW f \in Files, NEW v \in Contents, IndexFile(r, f, v)
        PROVE  TypeOK'
    BY <2>1 DEF IndexFile, Cascade, Touch
  <2>2. ASSUME NEW f \in Files, DeleteFile(f)
        PROVE  TypeOK'
    BY <2>2 DEF DeleteFile, Cascade, Touch
  <2>3. ASSUME NEW r \in Passes, LoadSymbolRefs(r)
        PROVE  TypeOK'
    <3>1. SymbolTable \subseteq SymbolIDs
      BY SymbolsTyped DEF SymbolTable
    <3>2. PICK pick : resolved' = [resolved EXCEPT ![r] = Resolve(buffer[r], pick)]
      BY <2>3 DEF LoadSymbolRefs
    <3>3. Resolve(buffer[r], pick) \in SUBSET (SymbolIDs \X SymbolIDs)
      BY <3>1 DEF Resolve
    <3>4. resolved' \in [Passes -> SUBSET (SymbolIDs \X SymbolIDs)]
      BY <3>2, <3>3
    <3>5. QED
      BY <2>3, <3>4 DEF LoadSymbolRefs
  <2>4. ASSUME NEW r \in Passes, UpsertRelationships(r)
        PROVE  TypeOK'
    <3>1. unchanged' \in [Files -> SUBSET Files]
      BY <2>4 DEF UpsertRelationships
    <3>2. QED
      BY <2>4, <3>1 DEF UpsertRelationships, EndPass
  <2>5. ASSUME NEW r \in Passes, UpsertFails(r) \/ GiveUp(r) \/ AbortPass(r)
        PROVE  TypeOK'
    BY <2>5 DEF UpsertFails, GiveUp, AbortPass, EndPass
  <2>6. CASE Restart
    BY <2>6 DEF Restart
  <2>7. CASE UNCHANGED vars
    BY <2>7 DEF vars
  <2>8. QED
    BY <2>1, <2>2, <2>3, <2>4, <2>5, <2>6, <2>7 DEF Next
<1>3. QED
  BY <1>1, <1>2, PTL DEF Spec

-----------------------------------------------------------------------------
(* The foreign keys                                                        *)

\* No stored relationship outlives a symbol it joins: whatever is removed takes
\* its rows along, and a pass whose symbols have gone stores nothing.
THEOREM EdgesAlwaysJoin == Spec => []EdgesJoinSymbols
<1>1. Init => EdgesJoinSymbols
  BY DEF Init, EdgesJoinSymbols
<1>2. TypeOK /\ EdgesJoinSymbols /\ [Next]_vars => EdgesJoinSymbols'
  <2> SUFFICES ASSUME TypeOK, EdgesJoinSymbols, [Next]_vars PROVE EdgesJoinSymbols'
    OBVIOUS
  <2> USE DEF EdgesJoinSymbols, SymbolTable
  <2>1. ASSUME edges' = Cascade(indexed')
        PROVE  EdgesJoinSymbols'
    BY <2>1 DEF Cascade
  <2>2. ASSUME NEW r \in Passes, UpsertRelationships(r)
        PROVE  EdgesJoinSymbols'
    <3>1. resolved[r] \subseteq SymbolIDs \X SymbolIDs
      BY DEF TypeOK
    <3>2. QED
      BY <2>2, <3>1 DEF UpsertRelationships
  <2>3. ASSUME UNCHANGED <<indexed, edges>>
        PROVE  EdgesJoinSymbols'
    BY <2>3
  <2>4. QED
    BY <2>1, <2>2, <2>3
    DEF Next, IndexFile, DeleteFile, LoadSymbolRefs, UpsertFails, GiveUp, AbortPass,
        Restart, vars
<1>3. QED
  BY <1>1, <1>2, GraphTypeCorrect, PTL DEF Spec

-----------------------------------------------------------------------------
(* What a finalized pass has stored                                        *)

\* A raw relationship can be resolved, and a set of rows holds it.
Resolvable(raw) == /\ ByQualified(raw.source) # {} /\ Candidates(raw.target) # {}
                   /\ ByQualified(raw.source) \cap Candidates(raw.target) = {}

HeldBy(rows, raw) ==
  \E e \in rows : e[1] \in ByQualified(raw.source) /\ e[2] \in Candidates(raw.target)

\* What a pass has to store: a buffer holds the relationships of every file the
\* open pass has indexed, as the file is now, and the rows that are about to be
\* stored hold every one of them that can be resolved.
PassSound(r) ==
  /\ pass[r] = "new" => passFiles[r] = {}
  /\ pass[r] = "open" =>
       \A f \in passFiles[r] : /\ indexed[f] # NoContent
                               /\ RefsOf[f][indexed[f]] \subseteq buffer[r]
  /\ pass[r] = "storing" =>
       \A f \in passFiles[r] :
         /\ indexed[f] # NoContent
         /\ \A raw \in RefsOf[f][indexed[f]] : Resolvable(raw) => HeldBy(resolved[r], raw)

GraphInv == (\A r \in Passes : PassSound(r)) /\ EdgesJoinSymbols /\ RelationshipsStored

\* RelationshipsStored in these words.
LEMMA StoredAs ==
  RelationshipsStored <=>
    \A f \in Files : indexed[f] # NoContent =>
      \A raw \in RefsOf[f][indexed[f]] :
        Resolvable(raw) /\ Homes(raw.source) \cup Homes(raw.target) \subseteq unchanged[f]
        => HeldBy(edges, raw)
BY Zenon DEF RelationshipsStored, Resolvable, HeldBy

\* A step that touches a file in which no symbol goes by a name leaves what the
\* name stands for as it was.
LEMMA SameCandidates ==
  ASSUME TypeOK, TypeOK', NEW f \in Files,
         \A g \in Files : g # f => indexed'[g] = indexed[g],
         NEW n \in Names, f \notin Homes(n)
  PROVE  ByQualified(n)' = ByQualified(n) /\ Candidates(n)' = Candidates(n)
<1>1. SymbolTable \subseteq SymbolIDs /\ SymbolTable' \subseteq SymbolIDs
  BY SymbolsTyped DEF SymbolTable, TypeOK
<1>2. \A i \in SymbolIDs : FileOf[i] # f => (i \in SymbolTable <=> i \in SymbolTable')
  <2>1. ASSUME NEW i \in SymbolTable, FileOf[i] # f PROVE i \in SymbolTable'
    BY <2>1, SymbolsOfOthers DEF SymbolTable, TypeOK
  <2>2. ASSUME NEW i \in SymbolTable', FileOf[i] # f PROVE i \in SymbolTable
    BY <2>2, SymbolsOfOthers DEF SymbolTable, TypeOK
  <2>3. QED
    BY <2>1, <2>2
<1>3. \A i \in SymbolIDs : Qualified[i] = n \/ ShortName[i] = n => FileOf[i] # f
  BY DEF Homes
<1>4. ByQualified(n)' = ByQualified(n)
  BY <1>1, <1>2, <1>3 DEF ByQualified
<1>5. {i \in SymbolTable : ShortName[i] = n}' = {i \in SymbolTable : ShortName[i] = n}
  BY <1>1, <1>2, <1>3
<1>6. QED
  BY <1>4, <1>5, Zenon DEF Candidates

\* The names in the relationships of a content, and what they stand for.
LEMMA RawTyped ==
  ASSUME NEW f \in Files, NEW v \in Contents, NEW raw \in RefsOf[f][v]
  PROVE  raw.source \in Names /\ raw.target \in Names
BY GraphAssumption DEF RawRelationship

\* A name resolves to symbols of the table only.
LEMMA CandidatesThere ==
  ASSUME NEW n
  PROVE  ByQualified(n) \subseteq SymbolTable /\ Candidates(n) \subseteq SymbolTable
BY DEF ByQualified, Candidates

\* Touching a file breaks no promise: one that depends on it is withdrawn, and the
\* rows of the others survive the cascade.
LEMMA TouchKeepsStored ==
  ASSUME TypeOK, TypeOK', EdgesJoinSymbols, RelationshipsStored, NEW f \in Files,
         \A g \in Files : g # f => indexed'[g] = indexed[g],
         edges' = Cascade(indexed'), unchanged' = Touch(f)
  PROVE  RelationshipsStored'
<1> SUFFICES ASSUME NEW g \in Files, indexed'[g] # NoContent,
                    NEW raw \in RefsOf[g][indexed'[g]], Resolvable(raw)',
                    Homes(raw.source) \cup Homes(raw.target) \subseteq unchanged'[g]
             PROVE  HeldBy(edges, raw)'
  BY StoredAs, Zenon DEF Homes, RelationshipsStored, Resolvable, HeldBy
<1>1. raw.source \in Names /\ raw.target \in Names /\ indexed'[g] \in Contents
  BY RawTyped DEF TypeOK
<1>2. g # f
  <2> SUFFICES ASSUME g = f PROVE FALSE
    OBVIOUS
  <2>1. Homes(raw.source) = {}
    BY DEF Touch
  <2>2. PICK i : i \in ByQualified(raw.source)'
    BY DEF Resolvable
  <2>3. i \in SymbolIDs /\ Qualified[i] = raw.source
    BY <2>2, SymbolsTyped DEF ByQualified, SymbolTable, TypeOK
  <2>4. FileOf[i] \in Homes(raw.source)
    BY <2>3 DEF Homes
  <2>5. QED
    BY <2>1, <2>4
<1>3. /\ f \notin Homes(raw.source) /\ f \notin Homes(raw.target)
      /\ Homes(raw.source) \cup Homes(raw.target) \subseteq unchanged[g]
  BY <1>2 DEF Touch
<1>4. /\ ByQualified(raw.source)' = ByQualified(raw.source)
      /\ Candidates(raw.target)' = Candidates(raw.target)
  BY <1>1, <1>3, SameCandidates
<1>5. indexed[g] = indexed'[g]
  BY <1>2
<1>6. HeldBy(edges, raw)
  <2>1. Resolvable(raw)
    BY <1>4 DEF Resolvable
  <2>2. indexed[g] # NoContent /\ raw \in RefsOf[g][indexed[g]]
    BY <1>5
  <2>3. QED
    BY <1>3, <2>1, <2>2, StoredAs
<1>7. PICK e \in edges : e[1] \in ByQualified(raw.source) /\ e[2] \in Candidates(raw.target)
  BY <1>6 DEF HeldBy
<1>8. e[1] \in SymbolTable' /\ e[2] \in SymbolTable'
  BY <1>4, <1>7 DEF ByQualified, Candidates
<1>9. e \in edges'
  BY <1>7, <1>8 DEF Cascade, SymbolTable
<1>10. QED
  BY <1>4, <1>7, <1>9 DEF HeldBy


\* As long as no file is indexed or deleted, names stand for what they stood for.
LEMMA SameTable ==
  ASSUME UNCHANGED indexed, NEW raw
  PROVE  /\ Resolvable(raw)' <=> Resolvable(raw)
         /\ ByQualified(raw.source)' = ByQualified(raw.source)
         /\ Candidates(raw.target)' = Candidates(raw.target)
BY DEF Resolvable, ByQualified, Candidates, SymbolTable, SymbolsIn

\* Resolution finds a row for every relationship that can be resolved, whichever
\* of the IDs that share a name it settles on.
LEMMA ResolveHolds ==
  ASSUME NEW raws, NEW pick \in Lookups(raws), NEW raw \in raws, Resolvable(raw)
  PROVE  HeldBy(Resolve(raws, pick), raw)
<1> DEFINE names == {x.source : x \in raws} \cup {x.target : x \in raws}
           e == <<pick[raw.source], pick[raw.target]>>
<1>1. raw.source \in names /\ raw.target \in names
  OBVIOUS
<1>2. \A n \in names : Candidates(n) # {} => pick[n] \in Candidates(n)
  BY DEF Lookups
<1>3. Candidates(raw.source) = ByQualified(raw.source) /\ ByQualified(raw.source) # {}
  BY DEF Resolvable, Candidates
<1>4. /\ pick[raw.source] \in ByQualified(raw.source)
      /\ pick[raw.target] \in Candidates(raw.target)
  <2>1. Candidates(raw.target) # {}
    BY DEF Resolvable
  <2>2. QED
    BY <1>1, <1>2, <1>3, <2>1
<1>5. e[1] # e[2] /\ e \in SymbolTable \X SymbolTable
  BY <1>4, CandidatesThere DEF Resolvable
<1>6. e \in Resolve(raws, pick)
  <2>1. /\ ByQualified(raw.source) # {} /\ e[1] = pick[raw.source]
        /\ e[2] = pick[raw.target]
    BY <1>3
  <2>2. QED
    BY <1>5, <2>1, Zenon DEF Resolve
<1>7. QED
  BY <1>4, <1>6 DEF HeldBy

\* While a pass is open or storing no other one indexes and nothing is deleted.
LEMMA IndexKeepsPasses ==
  ASSUME TypeOK, NEW r \in Passes, NEW f \in Files, NEW v \in Contents,
         IndexFile(r, f, v), \A x \in Passes : PassSound(x), NEW x \in Passes
  PROVE  PassSound(x)'
<1>1. CASE x # r
  BY <1>1 DEF IndexFile, MayPost, PassSound, TypeOK
<1>2. CASE x = r
  <2>1. /\ pass'[r] = "open" /\ indexed'[f] = v /\ v # NoContent
        /\ passFiles'[r] = passFiles[r] \cup {f}
        /\ buffer'[r] = buffer[r] \cup RefsOf[f][v]
        /\ \A g \in Files : g # f => indexed'[g] = indexed[g]
    BY GraphAssumption DEF IndexFile, TypeOK
  <2>2. \A g \in passFiles[r] : /\ indexed[g] # NoContent
                                /\ RefsOf[g][indexed[g]] \subseteq buffer[r]
    BY DEF IndexFile, PassSound
  <2>3. passFiles[r] \subseteq Files
    BY DEF TypeOK
  <2>4. ASSUME NEW g \in passFiles'[r]
        PROVE  indexed'[g] # NoContent /\ RefsOf[g][indexed'[g]] \subseteq buffer'[r]
    <3>1. CASE g = f
      BY <2>1, <3>1
    <3>2. CASE g # f
      BY <2>1, <2>2, <2>3, <3>2
    <3>3. QED
      BY <3>1, <3>2
  <2>5. QED
    BY <1>2, <2>1, <2>4 DEF PassSound
<1>3. QED
  BY <1>1, <1>2

\* What the final batch resolves holds all that the buffer had.
LEMMA LoadKeepsPasses ==
  ASSUME TypeOK, NEW r \in Passes, LoadSymbolRefs(r),
         \A x \in Passes : PassSound(x), NEW x \in Passes
  PROVE  PassSound(x)'
<1>1. PICK pick \in Lookups(buffer[r]) :
        resolved' = [resolved EXCEPT ![r] = Resolve(buffer[r], pick)]
  BY DEF LoadSymbolRefs
<1>2. /\ pass[r] = "open" /\ pass' = [pass EXCEPT ![r] = "storing"]
      /\ UNCHANGED <<indexed, passFiles>> /\ buffer' = [buffer EXCEPT ![r] = {}]
  BY DEF LoadSymbolRefs
<1>3. CASE x # r
  <2>1. pass'[x] = pass[x] /\ resolved'[x] = resolved[x] /\ buffer'[x] = buffer[x]
    BY <1>1, <1>2, <1>3 DEF TypeOK
  <2>2. \A raw : (Resolvable(raw)' => HeldBy(resolved[x], raw)')
                   <=> (Resolvable(raw) => HeldBy(resolved[x], raw))
    BY <1>1, <1>2, <2>1, SameTable DEF HeldBy
  <2>3. QED
    BY <1>2, <2>1, <2>2 DEF PassSound
<1>4. CASE x = r
  <2>1. pass'[r] = "storing" /\ resolved'[r] = Resolve(buffer[r], pick)
    BY <1>1, <1>2 DEF TypeOK
  <2>2. ASSUME NEW f \in passFiles[r], NEW raw \in RefsOf[f][indexed[f]], Resolvable(raw)'
        PROVE  HeldBy(resolved[r], raw)'
    <3>1. raw \in buffer[r] /\ Resolvable(raw)
      BY <1>2, <2>2, SameTable DEF PassSound
    <3>2. HeldBy(Resolve(buffer[r], pick), raw)
      BY <3>1, ResolveHolds
    <3>3. QED
      BY <1>2, <2>1, <3>2, SameTable DEF HeldBy
  <2>3. \A f \in passFiles[r] : indexed[f] # NoContent
    BY <1>2 DEF PassSound
  <2>4. QED
    BY <1>2, <1>4, <2>1, <2>2, <2>3 DEF PassSound
<1>5. QED
  BY <1>3, <1>4

\* A step that indexes and deletes nothing, and moves a pass only to where it has
\* nothing left to store.
LEMMA EndKeepsPasses ==
  ASSUME UNCHANGED indexed, NEW x \in Passes, PassSound(x),
         \/ pass'[x] \in {"orphaned", "done", "aborted"}
         \/ passFiles'[x] = {}
         \/ UNCHANGED <<pass[x], passFiles[x], buffer[x], resolved[x]>>
  PROVE  PassSound(x)'
<1>1. CASE pass'[x] \in {"orphaned", "done", "aborted"}
  BY <1>1 DEF PassSound
<1>2. CASE passFiles'[x] = {}
  BY <1>2 DEF PassSound
<1>3. CASE UNCHANGED <<pass[x], passFiles[x], buffer[x], resolved[x]>>
  <2>1. \A raw : (Resolvable(raw)' => HeldBy(resolved[x], raw)')
                   <=> (Resolvable(raw) => HeldBy(resolved[x], raw))
    BY <1>3, SameTable DEF HeldBy
  <2>2. QED
    BY <1>3, <2>1 DEF PassSound
<1>4. QED
  BY <1>1, <1>2, <1>3

\* The promise is kept by a step that touches no file and removes no row, if what
\* it newly promises is among the rows.
LEMMA GrowKeepsStored ==
  ASSUME RelationshipsStored, UNCHANGED indexed, edges \subseteq edges',
         \A f \in Files : indexed[f] # NoContent =>
           \/ unchanged'[f] = unchanged[f]
           \/ \A raw \in RefsOf[f][indexed[f]] : Resolvable(raw) => HeldBy(edges', raw)
  PROVE  RelationshipsStored'
<1> SUFFICES ASSUME NEW f \in Files, indexed[f] # NoContent,
                    NEW raw \in RefsOf[f][indexed[f]], Resolvable(raw),
                    Homes(raw.source) \cup Homes(raw.target) \subseteq unchanged'[f]
             PROVE  HeldBy(edges', raw)
  <2>1. \A raw : (Resolvable(raw)' <=> Resolvable(raw))
                 /\ (HeldBy(edges, raw)' <=> HeldBy(edges', raw))
    BY SameTable DEF HeldBy
  <2>2. \A n : Homes(n)' = Homes(n)
    BY DEF Homes
  <2>3. RelationshipsStored' <=>
          \A f \in Files : indexed'[f] # NoContent =>
            \A raw \in RefsOf[f][indexed'[f]] :
              Resolvable(raw)'
                /\ Homes(raw.source)' \cup Homes(raw.target)' \subseteq unchanged'[f]
              => HeldBy(edges, raw)'
    BY Zenon DEF RelationshipsStored, Resolvable, HeldBy
  <2>4. QED
    BY <2>1, <2>2, <2>3
<1>1. CASE unchanged'[f] = unchanged[f]
  <2>1. HeldBy(edges, raw)
    BY <1>1, StoredAs
  <2>2. QED
    BY <2>1 DEF HeldBy
<1>2. CASE \A x \in RefsOf[f][indexed[f]] : Resolvable(x) => HeldBy(edges', x)
  BY <1>2
<1>3. QED
  BY <1>1, <1>2

\* The invariant is inductive, one case per action.
LEMMA StepKeepsGraph ==
  ASSUME TypeOK, TypeOK', GraphInv, EdgesJoinSymbols', [Next]_vars
  PROVE  GraphInv'
<1> USE DEF GraphInv
<1>1. ASSUME NEW r \in Passes, NEW f \in Files, NEW v \in Contents, IndexFile(r, f, v)
      PROVE  GraphInv'
  <2>1. /\ \A g \in Files : g # f => indexed'[g] = indexed[g]
        /\ edges' = Cascade(indexed') /\ unchanged' = Touch(f)
    BY <1>1 DEF IndexFile, TypeOK
  <2>2. QED
    BY <1>1, <2>1, IndexKeepsPasses, TouchKeepsStored
<1>2. ASSUME NEW f \in Files, DeleteFile(f)
      PROVE  GraphInv'
  <2>1. /\ \A g \in Files : g # f => indexed'[g] = indexed[g]
        /\ edges' = Cascade(indexed') /\ unchanged' = Touch(f)
    BY <1>2 DEF DeleteFile, TypeOK
  <2>2. \A x \in Passes : PassSound(x)'
    BY <1>2 DEF DeleteFile, PassSound
  <2>3. QED
    BY <2>1, <2>2, TouchKeepsStored
<1>3. ASSUME NEW r \in Passes, LoadSymbolRefs(r)
      PROVE  GraphInv'
  <2>1. RelationshipsStored'
    BY <1>3, GrowKeepsStored DEF LoadSymbolRefs
  <2>2. QED
    BY <1>3, <2>1, LoadKeepsPasses
<1>4. ASSUME NEW r \in Passes, UpsertRelationships(r)
      PROVE  GraphInv'
  <2>1. /\ UNCHANGED indexed /\ edges' = edges \cup resolved[r]
        /\ pass'[r] = "done"
        /\ \A x \in Passes : x # r =>
             UNCHANGED <<pass[x], passFiles[x], buffer[x], resolved[x]>>
    BY <1>4 DEF UpsertRelationships, EndPass, TypeOK
  <2>2. \A x \in Passes : PassSound(x)'
    BY <2>1, EndKeepsPasses
  <2>3. ASSUME NEW f \in Files, indexed[f] # NoContent, unchanged'[f] # unchanged[f]
        PROVE  \A raw \in RefsOf[f][indexed[f]] : Resolvable(raw) => HeldBy(edges', raw)
    <3>1. pass[r] = "storing" /\ f \in passFiles[r]
      BY <1>4, <2>3 DEF UpsertRelationships, TypeOK
    <3>2. \A raw \in RefsOf[f][indexed[f]] : Resolvable(raw) => HeldBy(resolved[r], raw)
      BY <3>1 DEF PassSound
    <3>3. QED
      BY <2>1, <3>2 DEF HeldBy
  <2>4. RelationshipsStored'
    BY <2>1, <2>3, GrowKeepsStored
  <2>5. QED
    BY <2>2, <2>4
<1>5. ASSUME NEW r \in Passes, UpsertFails(r) \/ GiveUp(r) \/ AbortPass(r)
      PROVE  GraphInv'
  <2>1. /\ UNCHANGED <<indexed, edges, unchanged>>
        /\ pass'[r] \in {"orphaned", "done", "aborted"}
        /\ \A x \in Passes : x # r =>
             UNCHANGED <<pass[x], passFiles[x], buffer[x], resolved[x]>>
    BY <1>5 DEF UpsertFails, GiveUp, AbortPass, EndPass, TypeOK
  <2>2. RelationshipsStored'
    BY <2>1, GrowKeepsStored
  <2>3. QED
    BY <2>1, <2>2, EndKeepsPasses
<1>6. CASE Restart
  <2>1. /\ UNCHANGED <<indexed, edges, unchanged>>
        /\ \A x \in Passes : passFiles'[x] = {}
    BY <1>6 DEF Restart
  <2>2. RelationshipsStored'
    BY <2>1, GrowKeepsStored
  <2>3. QED
    BY <2>1, <2>2, EndKeepsPasses
<1>7. CASE UNCHANGED vars
  <2>1. RelationshipsStored'
    BY <1>7, GrowKeepsStored DEF vars
  <2>2. \A x \in Passes : PassSound(x)'
    BY <1>7, EndKeepsPasses DEF vars
  <2>3. QED
    BY <2>1, <2>2
<1>8. QED
  BY <1>1, <1>2, <1>3, <1>4, <1>5, <1>6, <1>7 DEF Next

\* Whatever a finalized pass could resolve is stored, whichever batch brought its
\* two ends and whichever symbol a shared name settled on, until a file that could
\* hold an end is indexed again or deleted.
THEOREM FinalizedIsStored == Spec => []RelationshipsStored
<1>1. Init => GraphInv
  BY DEF Init, GraphInv, PassSound, EdgesJoinSymbols, RelationshipsStored
<1>2. TypeOK /\ TypeOK' /\ GraphInv /\ EdgesJoinSymbols' /\ [Next]_vars => GraphInv'
  BY StepKeepsGraph
<1>3. GraphInv => RelationshipsStored
  BY DEF GraphInv
<1>4. QED
  BY <1>1, <1>2, <1>3, GraphTypeCorrect, EdgesAlwaysJoin, PTL DEF Spec

=============================================================================
