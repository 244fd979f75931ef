-------------------------- MODULE QdrantCollection --------------------------
(***************************************************************************)
(* EnsureCollection of internal/storage/qdrant/client.go, which every      *)
(* upload calls first (EnsureCodebase of the pipeline): uploads of one     *)
(* codebase check, create and index its collection side by side.           *)
(***************************************************************************)
EXTENDS Integers

CONSTANTS Uploads,        \* requests to /mcp/indexer/files in progress at one time
          PayloadFields   \* payload indexes of a collection (5)

ASSUME CollectionAssumption == PayloadFields \in Nat \ {0}

VARIABLES
  collection,   \* the collection exists
  indexed,      \* its payload indexes
  upload,       \* per upload: where it stands and the index it creates next
  interrupted   \* history: who created the collection did not get to the last index

collectionVars == <<collection, indexed, upload, interrupted>>

NoUpload == [at |-> "idle", next |-> 1]

CollectionInit ==
  /\ collection \in BOOLEAN
  /\ indexed = IF collection THEN 1..PayloadFields ELSE {}
  /\ upload = [u \in Uploads |-> NoUpload]
  /\ interrupted = FALSE

Stand(u, at) == upload' = [upload EXCEPT ![u] = [at |-> at, next |-> 1]]

\* Only the existence is looked at, neither the indexes nor the size of the vectors.
CheckCollection(u) ==
  /\ upload[u].at = "idle"
  /\ Stand(u, IF collection THEN "ready" ELSE "creating")
  /\ UNCHANGED <<collection, indexed, interrupted>>

CreateCollection(u) ==
  /\ upload[u].at = "creating" /\ ~collection
  /\ collection' = TRUE
  /\ Stand(u, "indexing")
  /\ UNCHANGED <<indexed, interrupted>>

\* Another upload was faster, and Qdrant refuses.
CollectionConflict(u) ==
  /\ upload[u].at = "creating" /\ collection
  /\ Stand(u, "idle")
  /\ UNCHANGED <<collection, indexed, interrupted>>

\* The request fails, before or after Qdrant has done it: the upload is answered
\* with an error.
CreationFails(u) ==
  /\ upload[u].at = "creating" /\ ~collection
  /\ collection' \in BOOLEAN
  /\ interrupted' = (interrupted \/ collection')
  /\ Stand(u, "idle")
  /\ UNCHANGED indexed

\* Mutant: the loop ends one index early.
StopsEarly(k) == k + 1 >= PayloadFields

IsLast(k) == k = PayloadFields

CreateIndex(u) ==
  LET k == upload[u].next
  IN /\ upload[u].at = "indexing"
     /\ indexed' = indexed \cup {k}
     /\ IF IsLast(k) THEN Stand(u, "ready")
                     ELSE upload' = [upload EXCEPT ![u].next = k + 1]
     /\ UNCHANGED <<collection, interrupted>>

IndexFails(u) ==
  /\ upload[u].at = "indexing"
  /\ indexed' \in {indexed, indexed \cup {upload[u].next}}
  /\ interrupted' = TRUE
  /\ Stand(u, "idle")
  /\ UNCHANGED collection

\* The files of the request are indexed; the final one of a pass goes on to the
\* relationships.
FilesDone(u) ==
  /\ upload[u].at = "ready"
  /\ Stand(u, "idle") \/ Stand(u, "finalizing")
  /\ UNCHANGED <<collection, indexed, interrupted>>

Finalized(u) ==
  /\ upload[u].at = "finalizing"
  /\ Stand(u, "idle")
  /\ UNCHANGED <<collection, indexed, interrupted>>

CollectionStep ==
  \E u \in Uploads : \/ CheckCollection(u) \/ CreateCollection(u) \/ CollectionConflict(u)
                     \/ CreationFails(u) \/ CreateIndex(u) \/ IndexFails(u)
                     \/ FilesDone(u) \/ Finalized(u)

LoseUploads ==
  /\ upload' = [u \in Uploads |-> NoUpload]
  /\ interrupted' = (interrupted \/ \E u \in Uploads : upload[u].at = "indexing")
  /\ UNCHANGED <<collection, indexed>>
=============================================================================
