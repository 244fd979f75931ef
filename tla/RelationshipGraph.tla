------------------------- MODULE RelationshipGraph -------------------------
(***************************************************************************)
(* How the relationships table of one codebase follows the files as they   *)
(* are indexed: the raw relationships of a pass are buffered in memory     *)
(* under its request ID (RelBuffer), resolved against the symbols table    *)
(* when the final batch arrives (FinalizeRelationships) and stored; rows   *)
(* go when the foreign keys of a removed symbol cascade, and never else.   *)
(*                                                                         *)
(* IndexFile is one step here, and it succeeds: its store calls and their  *)
(* failures are the subject of FileIndex.                                  *)
(***************************************************************************)
EXTENDS FiniteSets

CONSTANTS Files, Contents,
          SymbolIDs,   \* chunk IDs: a hash of path, qualified name and line
          FileOf,      \* the file of each ID
          Names,       \* names a relationship can mention
          Qualified,   \* qualified name of each ID; split chunks share one
          ShortName,   \* extractName of it
          SymbolsOf,   \* the IDs a content of a file has
          RefsOf,      \* the raw relationships in it: source and target name
          Passes,      \* request IDs
          NoContent, NoSymbol

RawRelationship == [source : Names, target : Names]

ASSUME GraphAssumption ==
  /\ FileOf \in [SymbolIDs -> Files]
  /\ Qualified \in [SymbolIDs -> Names] /\ ShortName \in [SymbolIDs -> Names]
  /\ SymbolsOf \in [Files -> [Contents -> SUBSET SymbolIDs]]
  /\ RefsOf \in [Files -> [Contents -> SUBSET RawRelationship]]
  /\ \A f \in Files, v \in Contents : \A i \in SymbolsOf[f][v] : FileOf[i] = f
  /\ NoContent \notin Contents /\ NoSymbol \notin SymbolIDs

VARIABLES
  indexed,   \* the content each file was last indexed with
  edges,     \* the relationships table: <<source_id, target_id>>
  pass,      \* where each request ID stands
  buffer,    \* indexerRelBuffers
  resolved,  \* FinalizeRelationships' local list of rows to store
  passFiles, \* history: files the open pass has indexed
  unchanged  \* history: files not touched since a pass linked this one

vars == <<indexed, edges, pass, buffer, resolved, passFiles, unchanged>>

PassStates == {"new", "open", "storing", "orphaned", "done", "aborted"}

TypeOK ==
  /\ indexed \in [Files -> Contents \cup {NoContent}]
  /\ edges \in SUBSET (SymbolIDs \X SymbolIDs)
  /\ pass \in [Passes -> PassStates]
  /\ buffer \in [Passes -> SUBSET RawRelationship]
  /\ resolved \in [Passes -> SUBSET (SymbolIDs \X SymbolIDs)]
  /\ passFiles \in [Passes -> SUBSET Files]
  /\ unchanged \in [Files -> SUBSET Files]

Init ==
  /\ indexed = [f \in Files |-> NoContent]
  /\ edges = {}
  /\ pass = [r \in Passes |-> "new"]
  /\ buffer = [r \in Passes |-> {}]
  /\ resolved = [r \in Passes |-> {}]
  /\ passFiles = [r \in Passes |-> {}]
  /\ unchanged = [f \in Files |-> {}]

-----------------------------------------------------------------------------
SymbolsIn(state) ==
  UNION {SymbolsOf[f][state[f]] : f \in {g \in Files : state[g] # NoContent}}

SymbolTable == SymbolsIn(indexed)

\* ON DELETE CASCADE of source_id and target_id.
Cascade(state) == {e \in edges : e[1] \in SymbolsIn(state) /\ e[2] \in SymbolsIn(state)}

\* A pass of the daemon holds reindexMu: a request that was given up may still
\* be running, every other one has ended.
MayPost(r) == \A x \in Passes \ {r} : pass[x] \notin {"open", "storing"}

Touch(f) == [g \in Files |-> IF g = f THEN {} ELSE unchanged[g] \ {f}]

\* Mutant: each batch starts with an empty buffer.
IndexFileFreshBuffer(r, f, v) ==
  /\ pass[r] \in {"new", "open"} /\ MayPost(r)
  /\ SymbolsOf[f][v] # {}
  /\ f \in passFiles[r] => v = indexed[f]
  /\ indexed' = [indexed EXCEPT ![f] = v]
  /\ edges' = Cascade(indexed')
  /\ pass' = [pass EXCEPT ![r] = "open"]
  /\ buffer' = [buffer EXCEPT ![r] = RefsOf[f][v]]
  /\ passFiles' = [passFiles EXCEPT ![r] = @ \cup {f}]
  /\ unchanged' = Touch(f)
  /\ UNCHANGED resolved

\* A file of a batch is indexed: its symbols are upserted, those not in the new
\* content go with the rows that mention them, its raw relationships wait.  A pass
\* brings a file once, or again with the same content when a POST is retried;
\* a file without any chunk is answered as unchanged and changes nothing.
IndexFile(r, f, v) ==
  /\ pass[r] \in {"new", "open"} /\ MayPost(r)
  /\ SymbolsOf[f][v] # {}
  /\ f \in passFiles[r] => v = indexed[f]
  /\ indexed' = [indexed EXCEPT ![f] = v]
  /\ edges' = Cascade(indexed')
  /\ pass' = [pass EXCEPT ![r] = "open"]
  /\ buffer' = [buffer EXCEPT ![r] = @ \cup RefsOf[f][v]]
  /\ passFiles' = [passFiles EXCEPT ![r] = @ \cup {f}]
  /\ unchanged' = Touch(f)
  /\ UNCHANGED resolved

\* The garbage collection of a pass, or a watcher's deletion.
DeleteFile(f) ==
  /\ indexed[f] # NoContent
  /\ \A r \in Passes : pass[r] \notin {"open", "storing"}
  /\ indexed' = [indexed EXCEPT ![f] = NoContent]
  /\ edges' = Cascade(indexed')
  /\ unchanged' = Touch(f)
  /\ UNCHANGED <<pass, buffer, resolved, passFiles>>

-----------------------------------------------------------------------------
(* Resolution                                                              *)

ByQualified(n) == {i \in SymbolTable : Qualified[i] = n}

\* resolveTarget: a qualified name wins over a short one.
Candidates(n) == IF ByQualified(n) # {} THEN ByQualified(n)
                 ELSE {i \in SymbolTable : ShortName[i] = n}

\* The maps built from the rows of symbols, which come in no particular order:
\* each name stands for one of the IDs that have it.
Lookups(raw) ==
  LET names == {r.source : r \in raw} \cup {r.target : r \in raw}
  IN {pick \in [names -> SymbolTable \cup {NoSymbol}] :
        \A n \in names : IF Candidates(n) = {} THEN pick[n] = NoSymbol
                         ELSE pick[n] \in Candidates(n)}

\* Mutant: the ends are not checked for having been found.
ResolveUnchecked(raw, pick) == {<<pick[r.source], pick[r.target]>> : r \in raw}

\* Sources are found by qualified name only; unknown ends and self-loops drop.
Resolve(raw, pick) ==
  {e \in SymbolTable \X SymbolTable :
     /\ e[1] # e[2]
     /\ \E r \in raw : /\ ByQualified(r.source) # {} /\ e[1] = pick[r.source]
                       /\ e[2] = pick[r.target]}

\* The final batch: drain and drop the buffer, read the symbols, resolve.
LoadSymbolRefs(r) ==
  /\ pass[r] = "open"
  /\ \E pick \in Lookups(buffer[r]) :
       resolved' = [resolved EXCEPT ![r] = Resolve(buffer[r], pick)]
  /\ buffer' = [buffer EXCEPT ![r] = {}]
  /\ pass' = [pass EXCEPT ![r] = "storing"]
  /\ UNCHANGED <<indexed, edges, passFiles, unchanged>>

EndPass(r) ==
  /\ pass' = [pass EXCEPT ![r] = "done"]
  /\ resolved' = [resolved EXCEPT ![r] = {}]
  /\ passFiles' = [passFiles EXCEPT ![r] = {}]

\* Mutant: rows whose symbols are gone are stored all the same.
StoreUnchecked(r) ==
  /\ pass[r] \in {"storing", "orphaned"}
  /\ edges' = edges \cup resolved[r]
  /\ EndPass(r)
  /\ UNCHANGED <<indexed, buffer, unchanged>>

\* UpsertRelationships: one transaction, and a symbol that has gone since fails
\* all of it on its foreign key.  What it held is then lost.
UpsertRelationships(r) ==
  /\ pass[r] \in {"storing", "orphaned"}
  /\ \A e \in resolved[r] : e[1] \in SymbolTable /\ e[2] \in SymbolTable
  /\ edges' = edges \cup resolved[r]
  /\ unchanged' = IF pass[r] = "orphaned" THEN unchanged
                  ELSE [f \in Files |-> IF f \in passFiles[r] THEN Files
                                        ELSE unchanged[f]]
  /\ EndPass(r)
  /\ UNCHANGED <<indexed, buffer>>

UpsertFails(r) ==
  /\ pass[r] \in {"storing", "orphaned"}
  /\ EndPass(r)
  /\ UNCHANGED <<indexed, edges, buffer, unchanged>>

\* The client stops waiting while the server is still storing.
GiveUp(r) ==
  /\ pass[r] = "storing"
  /\ pass' = [pass EXCEPT ![r] = "orphaned"]
  /\ UNCHANGED <<indexed, edges, buffer, resolved, passFiles, unchanged>>

\* A batch fails for good: the daemon ends the pass and no final batch comes.
AbortPass(r) ==
  /\ pass[r] = "open"
  /\ pass' = [pass EXCEPT ![r] = "aborted"]
  /\ UNCHANGED <<indexed, edges, buffer, resolved, passFiles, unchanged>>

\* The server restarts: the buffers are gone, the daemon's pass goes on and
\* finds an empty one; a request that was being served is lost.
Restart ==
  /\ buffer' = [r \in Passes |-> {}]
  /\ passFiles' = [r \in Passes |-> {}]
  /\ pass' = [r \in Passes |-> IF pass[r] \in {"storing", "orphaned"}
                               THEN "done" ELSE pass[r]]
  /\ resolved' = [r \in Passes |-> {}]
  /\ UNCHANGED <<indexed, edges, unchanged>>

-----------------------------------------------------------------------------
Next ==
  \/ \E r \in Passes, f \in Files, v \in Contents : IndexFile(r, f, v)
  \/ \E f \in Files : DeleteFile(f)
  \/ \E r \in Passes : \/ LoadSymbolRefs(r) \/ UpsertRelationships(r)
                       \/ UpsertFails(r) \/ GiveUp(r) \/ AbortPass(r)
  \/ Restart

Spec == Init /\ [][Next]_vars

-----------------------------------------------------------------------------
(* What must hold                                                          *)

\* Every stored relationship joins two symbols that are there, although they are
\* looked up in one call and stored in another (FinalizeRelationships).
EdgesJoinSymbols == edges \subseteq SymbolTable \X SymbolTable

\* The files that have, in some content, a symbol that goes by the name.
Homes(n) == {FileOf[i] : i \in {s \in SymbolIDs : n \in {Qualified[s], ShortName[s]}}}

\* Once a pass is finalized, every relationship of a file it indexed that can be
\* resolved is stored, whichever batch brought its two ends, and it stays for as
\* long as no file that could hold an end is indexed again or deleted.
RelationshipsStored ==
  \A f \in Files : indexed[f] # NoContent =>
    \A r \in RefsOf[f][indexed[f]] :
      LET from == ByQualified(r.source)
          to   == Candidates(r.target)
      IN /\ from # {} /\ to # {} /\ from \cap to = {}
         /\ Homes(r.source) \cup Homes(r.target) \subseteq unchanged[f]
         => \E e \in edges : e[1] \in from /\ e[2] \in to
=============================================================================
