-------------------------- MODULE McpServerProofs ---------------------------
(***************************************************************************)
(* Proofs about McpServer, for any numbers of migrations, restarts, calls, *)
(* uploads, indexes, sessions and streams: it serves on the schema of all  *)
(* migrations; a collection nobody sets up and whose creation was not      *)
(* interrupted has all payload indexes; a session keeps the channel of     *)
(* each stream it serves, once, and of no other; a stored summary was      *)
(* written from the sources its key stands for; and the recursive query    *)
(* finds the nearest classes.                                              *)
(***************************************************************************)
EXTENDS McpServer, WellFoundedInduction, TLAPS

-----------------------------------------------------------------------------
(* The schema                                                              *)

(***************************************************************************)
(* A start has applied a prefix of the migrations when it listens, and     *)
(* what other processes applied does no harm; who works does so for a      *)
(* process that serves.                                                    *)
(***************************************************************************)
SchemaInv ==
  /\ applied \in 0..MigrationFiles
  /\ schema \subseteq 1..MigrationFiles
  /\ phase = "starting" => 1..applied \subseteq schema
  /\ phase = "serving" => schema = 1..MigrationFiles
  /\ (\E c \in Calls : Working(c)) => phase = "serving"

\* A start moves no call.
LEMMA StartKeepsSchema == SchemaInv /\ Start => SchemaInv'
<1> SUFFICES ASSUME SchemaInv, Start PROVE SchemaInv'
  OBVIOUS
<1> USE LifeAssumption
<1>1. call' = call
  BY DEF Start, toolVars
<1>2. phase # "serving"
  BY DEF Start, LifeStep, ConnectStore, Migrate, StartFails, Listen
<1>3. \A c \in Calls : ~Working(c)'
  BY <1>1, <1>2 DEF SchemaInv, Working
<1>4. CASE ConnectStore
  BY <1>2, <1>3, <1>4 DEF ConnectStore, SchemaInv
<1>5. CASE Migrate
  <2>1. applied + 1 \in 1..MigrationFiles
    BY <1>5 DEF Migrate, SchemaInv
  <2>2. 1..(applied + 1) = (1..applied) \cup {applied + 1}
    BY <2>1 DEF SchemaInv
  <2> QED BY <1>3, <1>5, <2>1, <2>2 DEF Migrate, SchemaInv
<1>6. CASE StartFails
  BY <1>3, <1>6 DEF StartFails, SchemaInv
<1>7. CASE Listen
  BY <1>3, <1>7 DEF Listen, SchemaInv
<1> QED BY <1>4, <1>5, <1>6, <1>7 DEF Start, LifeStep

\* The end of the process is the end of its calls.
LEMMA StopKeepsSchema == SchemaInv /\ StopServer => SchemaInv'
<1> SUFFICES ASSUME SchemaInv, StopServer PROVE SchemaInv'
  OBVIOUS
<1>1. \A c \in Calls : ~Working(c)'
  BY DEF StopServer, LoseCalls, Working, Idle
<1> QED BY <1>1 DEF StopServer, Stop, SchemaInv

\* Every other step is one of a process that serves, or none.
LEMMA ServingStep ==
  Next => Start \/ StopServer \/ (phase = "serving" /\ UNCHANGED lifeVars)
BY DEF Next, ClientConnects, Upload, Post, Serve, Serving

\* No step of the process, of a session, a call or an upload takes a migration back.
LEMMA SchemaStep == SchemaInv /\ [Next]_vars => SchemaInv'
<1> SUFFICES ASSUME SchemaInv, [Next]_vars PROVE SchemaInv'
  OBVIOUS
<1>1. CASE phase = "serving" /\ UNCHANGED lifeVars
  BY <1>1 DEF lifeVars, SchemaInv
<1>2. CASE UNCHANGED vars
  BY <1>2 DEF vars, lifeVars, toolVars, SchemaInv, Working
<1> QED BY <1>1, <1>2, ServingStep, StartKeepsSchema, StopKeepsSchema

\* No call is worked on, and no process listens, before the database has seen every
\* migration: a start that fails between two of them leaves nothing that a later start
\* takes for done.
THEOREM ServesMigrated == Spec => []ServingHasSchema
<1>1. Init => SchemaInv
  <2> SUFFICES ASSUME Init PROVE SchemaInv
    OBVIOUS
  <2>1. \A c \in Calls : ~Working(c)
    BY DEF Init, ToolsInit, Working, Idle
  <2> QED BY <2>1, LifeAssumption DEF Init, LifeInit, SchemaInv
<1>2. SchemaInv => ServingHasSchema
  BY DEF SchemaInv, ServingHasSchema
<1> QED BY <1>1, <1>2, SchemaStep, PTL DEF Spec

-----------------------------------------------------------------------------
(* The collection                                                          *)

CollectionTyped ==
  /\ collection \in BOOLEAN /\ interrupted \in BOOLEAN
  /\ indexed \subseteq 1..PayloadFields
  /\ upload \in [Uploads -> [at : {"idle", "creating", "indexing", "ready", "finalizing"},
                             next : 1..PayloadFields]]

\* An upload has created the indexes that come before its next one.
Indexes(u) == upload[u].at = "indexing" /\ 1..(upload[u].next - 1) \subseteq indexed

(***************************************************************************)
(* A collection has its indexes, or who created it is at it, or was cut    *)
(* off.                                                                    *)
(***************************************************************************)
CollectionInv ==
  /\ CollectionTyped
  /\ collection /\ ~interrupted
       => indexed = 1..PayloadFields \/ \E u \in Uploads : Indexes(u)

\* A step that leaves the collection alone, and every upload that creates indexes.
LEMMA CollectionFrame ==
  ASSUME CollectionInv, CollectionTyped', UNCHANGED <<collection, indexed, interrupted>>,
         \A u \in Uploads : upload[u].at = "indexing" => upload'[u] = upload[u]
  PROVE  CollectionInv'
<1>1. ASSUME NEW u \in Uploads, Indexes(u) PROVE Indexes(u)'
  BY <1>1 DEF Indexes
<1> QED BY <1>1 DEF CollectionInv

\* The first index is number 1.
LEMMA StandTyped ==
  ASSUME CollectionTyped, NEW u \in Uploads,
         NEW at \in {"idle", "creating", "indexing", "ready", "finalizing"}, Stand(u, at)
  PROVE  /\ upload' \in [Uploads -> [at : {"idle", "creating", "indexing", "ready", "finalizing"},
                                     next : 1..PayloadFields]]
         /\ upload'[u] = [at |-> at, next |-> 1]
         /\ \A v \in Uploads \ {u} : upload'[v] = upload[v]
<1>1. 1 \in 1..PayloadFields
  BY CollectionAssumption
<1> QED BY <1>1 DEF Stand, CollectionTyped

\* An upload that does not create indexes moves on without a change of the collection.
LEMMA MoveKeeps ==
  ASSUME CollectionInv, NEW u \in Uploads, upload[u].at # "indexing",
         NEW at \in {"idle", "creating", "ready", "finalizing"}, Stand(u, at),
         UNCHANGED <<collection, indexed, interrupted>>
  PROVE  CollectionInv'
<1>1. CollectionTyped'
  BY StandTyped, Zenon DEF CollectionInv, CollectionTyped
<1>2. \A v \in Uploads : upload[v].at = "indexing" => upload'[v] = upload[v]
  BY StandTyped DEF CollectionInv
<1> QED BY <1>1, <1>2, CollectionFrame

\* Whoever is cut off between the collection and its last index is remembered.
LEMMA InterruptedKeeps == CollectionTyped' /\ interrupted' => CollectionInv'
BY Zenon DEF CollectionInv

\* Every step of an upload keeps the invariant.
LEMMA UploadStepKeeps ==
  ASSUME CollectionInv, NEW u \in Uploads,
         \/ CheckCollection(u) \/ CreateCollection(u) \/ CollectionConflict(u)
         \/ CreationFails(u) \/ CreateIndex(u) \/ IndexFails(u)
         \/ FilesDone(u) \/ Finalized(u)
  PROVE  CollectionInv'
<1>0. CollectionTyped
  BY DEF CollectionInv
<1>1. CASE CheckCollection(u)
  <2>1. CASE Stand(u, "ready")
    BY <1>1, <2>1, MoveKeeps, Zenon DEF CheckCollection
  <2>2. CASE Stand(u, "creating")
    BY <1>1, <2>2, MoveKeeps, Zenon DEF CheckCollection
  <2> QED BY <1>1, <2>1, <2>2, Zenon DEF CheckCollection
<1>2. CASE CreateCollection(u)
  <2>1. Stand(u, "indexing") /\ collection' = TRUE /\ indexed' = indexed
        /\ interrupted' = interrupted
    BY <1>2, Zenon DEF CreateCollection
  <2>2. CollectionTyped'
    BY <1>0, <2>1, StandTyped, Zenon DEF CollectionTyped
  <2>3. upload'[u].at = "indexing" /\ upload'[u].next = 1
    BY <1>0, <2>1, StandTyped
  <2>4. Indexes(u)'
    BY <2>3 DEF Indexes
  <2> QED BY <2>2, <2>4, Zenon DEF CollectionInv
<1>3. CASE CollectionConflict(u)
  BY <1>3, MoveKeeps, Zenon DEF CollectionConflict
<1>4. CASE CreationFails(u)
  <2>1. /\ Stand(u, "idle") /\ upload[u].at = "creating" /\ ~collection
        /\ collection' \in BOOLEAN /\ interrupted' = (interrupted \/ collection')
        /\ indexed' = indexed
    BY <1>4, Zenon DEF CreationFails
  <2>2. CollectionTyped'
    BY <1>0, <2>1, StandTyped, Zenon DEF CollectionTyped
  <2> QED BY <2>1, <2>2, Zenon DEF CollectionInv
<1>5. CASE CreateIndex(u)
  <2> DEFINE k == upload[u].next
  <2>1. /\ upload[u].at = "indexing" /\ k \in 1..PayloadFields
        /\ indexed' = indexed \cup {k} /\ indexed' \subseteq 1..PayloadFields
        /\ collection' = collection /\ interrupted' = interrupted
    BY <1>0, <1>5 DEF CreateIndex, CollectionTyped
  <2>2. CASE k = PayloadFields /\ Stand(u, "ready")
    <3>1. CollectionTyped'
      BY <1>0, <2>1, <2>2, StandTyped, Zenon DEF CollectionTyped
    <3>2. ASSUME NEW v \in Uploads, Indexes(v)
          PROVE  indexed' = 1..PayloadFields \/ Indexes(v)'
      <4>1. CASE v = u
        BY <2>1, <2>2, <3>2, <4>1 DEF Indexes
      <4>2. CASE v # u
        BY <1>0, <2>1, <2>2, <3>2, <4>2, StandTyped DEF Indexes
      <4> QED BY <4>1, <4>2
    <3>3. indexed = 1..PayloadFields => indexed' = 1..PayloadFields
      BY <2>1
    <3> QED BY <2>1, <3>1, <3>2, <3>3, Zenon DEF CollectionInv
  <2>3. CASE k # PayloadFields /\ upload' = [upload EXCEPT ![u].next = k + 1]
    <3>1. k + 1 \in 1..PayloadFields
      BY <2>1, <2>3, CollectionAssumption
    <3>2. upload' \in [Uploads -> [at : {"idle", "creating", "indexing", "ready", "finalizing"},
                                   next : 1..PayloadFields]]
      BY <1>0, <2>3, <3>1 DEF CollectionTyped
    <3>3. CollectionTyped'
      BY <1>0, <2>1, <3>2, Zenon DEF CollectionTyped
    <3>4. /\ upload'[u].at = "indexing" /\ upload'[u].next = k + 1
          /\ \A v \in Uploads \ {u} : upload'[v] = upload[v]
      BY <1>0, <2>1, <2>3 DEF CollectionTyped
    <3>5. ASSUME NEW v \in Uploads, Indexes(v) PROVE Indexes(v)'
      <4>1. CASE v = u
        <5>1. 1..(k + 1 - 1) = (1..(k - 1)) \cup {k}
          BY <2>1
        <5> QED BY <2>1, <3>4, <3>5, <4>1, <5>1 DEF Indexes
      <4>2. CASE v # u
        BY <2>1, <3>4, <3>5, <4>2 DEF Indexes
      <4> QED BY <4>1, <4>2
    <3>6. indexed = 1..PayloadFields => indexed' = 1..PayloadFields
      BY <2>1
    <3> QED BY <2>1, <3>3, <3>5, <3>6, Zenon DEF CollectionInv
  <2> QED BY <1>5, <2>2, <2>3, Zenon DEF CreateIndex, IsLast
<1>6. CASE IndexFails(u)
  <2>1. /\ Stand(u, "idle") /\ interrupted' = TRUE /\ collection' = collection
        /\ indexed' \in {indexed, indexed \cup {upload[u].next}}
    BY <1>6, Zenon DEF IndexFails
  <2>2. indexed' \subseteq 1..PayloadFields
    BY <1>0, <2>1 DEF CollectionTyped
  <2>3. CollectionTyped'
    BY <1>0, <2>1, <2>2, StandTyped, Zenon DEF CollectionTyped
  <2> QED BY <2>1, <2>3, InterruptedKeeps, Zenon
<1>7. CASE FilesDone(u)
  BY <1>7, MoveKeeps, Zenon DEF FilesDone
<1>8. CASE Finalized(u)
  BY <1>8, MoveKeeps, Zenon DEF Finalized
<1> QED BY <1>1, <1>2, <1>3, <1>4, <1>5, <1>6, <1>7, <1>8

\* So does the end of the process, which cuts every upload off.
LEMMA LoseKeeps == CollectionInv /\ LoseUploads => CollectionInv'
<1> SUFFICES ASSUME CollectionInv, LoseUploads PROVE CollectionInv'
  OBVIOUS
<1>1. /\ upload' = [u \in Uploads |-> NoUpload]
      /\ interrupted' = (interrupted \/ \E u \in Uploads : upload[u].at = "indexing")
      /\ collection' = collection /\ indexed' = indexed
  BY Zenon DEF LoseUploads
<1>2. upload' \in [Uploads -> [at : {"idle", "creating", "indexing", "ready", "finalizing"},
                               next : 1..PayloadFields]]
  BY <1>1, CollectionAssumption DEF NoUpload
<1>3. CollectionTyped'
  BY <1>1, <1>2, Zenon DEF CollectionInv, CollectionTyped
<1> QED BY <1>1, <1>3, Zenon DEF CollectionInv, Indexes

\* Nothing else touches the collection.
LEMMA CollectionStepKeeps == CollectionInv /\ [Next]_vars => CollectionInv'
<1> SUFFICES ASSUME CollectionInv, [Next]_vars PROVE CollectionInv'
  OBVIOUS
<1>1. CASE UNCHANGED collectionVars
  BY <1>1 DEF collectionVars, CollectionInv, CollectionTyped, Indexes
<1>2. CASE CollectionStep
  BY <1>2, UploadStepKeeps, Zenon DEF CollectionStep
<1>3. CASE LoseUploads
  BY <1>3, LoseKeeps
<1>4. UNCHANGED collectionVars \/ CollectionStep \/ LoseUploads
  BY Zenon DEF Next, vars, Start, ClientConnects, Post, Serve, Upload, StopServer
<1> QED BY <1>1, <1>2, <1>3, <1>4

\* A collection that no upload is setting up, and whose creation nothing interrupted,
\* has all its payload indexes, however many uploads raced to create it.
THEOREM CollectionComplete == Spec => []CollectionIndexed
<1>1. Init => CollectionInv
  <2> SUFFICES ASSUME Init PROVE CollectionInv
    OBVIOUS
  <2>1. /\ collection \in BOOLEAN /\ interrupted = FALSE
        /\ indexed = IF collection THEN 1..PayloadFields ELSE {}
        /\ upload = [u \in Uploads |-> NoUpload]
    BY Zenon DEF Init, CollectionInit
  <2>2. upload \in [Uploads -> [at : {"idle", "creating", "indexing", "ready", "finalizing"},
                                next : 1..PayloadFields]]
    BY <2>1, CollectionAssumption DEF NoUpload
  <2>3. indexed \subseteq 1..PayloadFields
    BY <2>1
  <2>4. CollectionTyped
    BY <2>1, <2>2, <2>3, Zenon DEF CollectionTyped
  <2> QED BY <2>1, <2>4, Zenon DEF CollectionInv
<1>2. CollectionInv => CollectionIndexed
  BY Zenon DEF CollectionInv, CollectionIndexed, Indexes
<1> QED BY <1>1, <1>2, CollectionStepKeeps, PTL DEF Spec

-----------------------------------------------------------------------------
(* The streams                                                             *)

StreamTyped ==
  /\ sessions \subseteq SessionIDs
  /\ sseClients \in [SessionIDs -> Seq(Streams)]
  /\ stream \in [Streams -> [at : {"none", "found", "open", "closing"},
                             session : SessionIDs \cup {NoSession}]]
  /\ \A s \in Streams : stream[s].at # "none" => stream[s].session \in SessionIDs

StreamInv == StreamTyped /\ StreamsRegistered

\* Two sequences one after the other.
LEMMA Concatenated ==
  ASSUME NEW S, NEW a \in Seq(S), NEW b \in Seq(S)
  PROVE  /\ a \o b \in Seq(S) /\ Len(a \o b) = Len(a) + Len(b)
         /\ Len(a) \in Nat /\ Len(b) \in Nat
         /\ \A k \in 1..Len(a) : (a \o b)[k] = a[k]
         /\ \A k \in 1..Len(b) : (a \o b)[k + Len(a)] = b[k]
OBVIOUS

\* What comes before and after an element makes a sequence without it.
LEMMA WithoutElement ==
  ASSUME NEW S, NEW c \in Seq(S), NEW i \in 1..Len(c)
  PROVE  /\ RemoveAt(c, i) \in Seq(S) /\ DOMAIN RemoveAt(c, i) = 1..(Len(c) - 1)
         /\ \A k \in 1..(i - 1) : RemoveAt(c, i)[k] = c[k]
         /\ \A k \in i..(Len(c) - 1) : RemoveAt(c, i)[k] = c[k + 1]
<1> DEFINE a == SubSeq(c, 1, i - 1)
           b == SubSeq(c, i + 1, Len(c))
           d == a \o b
<1>1. RemoveAt(c, i) = d
  BY DEF RemoveAt
<1>2. /\ a \in Seq(S) /\ Len(a) = i - 1 /\ b \in Seq(S) /\ Len(b) = Len(c) - i
      /\ \A k \in 1..(i - 1) : a[k] = c[k]
      /\ \A k \in 1..(Len(c) - i) : b[k] = c[k + i]
  OBVIOUS
<1>3. Len(c) \in Nat /\ i \in Nat /\ i >= 1 /\ i <= Len(c)
  OBVIOUS
<1> HIDE DEF a, b
<1>4. a \in Seq(S) /\ b \in Seq(S)
  BY <1>2
<1>5. /\ d \in Seq(S) /\ Len(d) = Len(a) + Len(b) /\ Len(a) \in Nat /\ Len(b) \in Nat
      /\ \A k \in 1..Len(a) : d[k] = a[k]
      /\ \A k \in 1..Len(b) : d[k + Len(a)] = b[k]
  BY <1>4, Concatenated
<1> HIDE DEF d
<1>6. d \in Seq(S) /\ Len(d) = Len(c) - 1
  BY <1>2, <1>3, <1>5
<1>7. DOMAIN d = 1..(Len(c) - 1)
  BY <1>6
<1>8. \A k \in 1..(i - 1) : d[k] = c[k]
  BY <1>2, <1>5
<1>9. ASSUME NEW k \in i..(Len(c) - 1) PROVE d[k] = c[k + 1]
  <2>1. k - Len(a) \in 1..Len(b) /\ (k - Len(a)) + Len(a) = k /\ (k - Len(a)) + i = k + 1
    BY <1>2, <1>3, <1>9
  <2>2. d[k] = b[k - Len(a)]
    BY <1>5, <2>1
  <2>3. QED
    BY <1>2, <2>1, <2>2
<1>10. QED
  BY <1>1, <1>6, <1>7, <1>8, <1>9

\* Removing the first of the only occurrence of a channel removes that channel, and
\* leaves the others as they are.
LEMMA RemoveOnce ==
  ASSUME NEW S, NEW c \in Seq(S), IsInjective(c), NEW s \in Range(c)
  PROVE  /\ RemoveFirst(c, s) \in Seq(S)
         /\ Range(RemoveFirst(c, s)) = Range(c) \ {s}
         /\ IsInjective(RemoveFirst(c, s))
<1>1. PICK i \in 1..Len(c) : c[i] = s
  BY DEF Range
<1>2. {j \in 1..Len(c) : c[j] = s} = {i}
  BY <1>1 DEF IsInjective
<1>3. Min({i}) = i
  BY <1>1 DEF Min
<1> DEFINE d == RemoveAt(c, i)
<1>4. RemoveFirst(c, s) = d
  BY <1>1, <1>2, <1>3 DEF RemoveFirst, SelectInSeq
<1>5. /\ d \in Seq(S) /\ DOMAIN d = 1..(Len(c) - 1)
      /\ \A k \in 1..(i - 1) : d[k] = c[k]
      /\ \A k \in i..(Len(c) - 1) : d[k] = c[k + 1]
  BY WithoutElement
<1> HIDE DEF d
<1>6. ASSUME NEW k \in 1..(Len(c) - 1) PROVE d[k] = IF k < i THEN c[k] ELSE c[k + 1]
  <2>1. CASE k < i
    <3>1. k \in 1..(i - 1)
      BY <2>1
    <3>2. QED
      BY <1>5, <2>1, <3>1
  <2>2. CASE ~(k < i)
    <3>1. k \in i..(Len(c) - 1)
      BY <2>2
    <3>2. QED
      BY <1>5, <2>2, <3>1
  <2>3. QED
    BY <2>1, <2>2
<1>7. IsInjective(d)
  <2>1. ASSUME NEW k \in 1..(Len(c) - 1), NEW l \in 1..(Len(c) - 1), d[k] = d[l]
        PROVE  k = l
    <3>1. (IF k < i THEN k ELSE k + 1) = (IF l < i THEN l ELSE l + 1)
      BY <1>6, <2>1 DEF IsInjective
    <3>2. QED
      BY <1>1, <3>1
  <2>2. QED
    BY <1>5, <2>1 DEF IsInjective
<1>8. Range(d) = Range(c) \ {s}
  <2>1. ASSUME NEW k \in DOMAIN d PROVE d[k] \in Range(c) \ {s}
    BY <1>1, <1>5, <1>6, <2>1 DEF IsInjective, Range
  <2>2. ASSUME NEW j \in DOMAIN c, c[j] # s PROVE c[j] \in Range(d)
    <3>1. CASE j < i
      <4>1. j \in 1..(i - 1) /\ j \in DOMAIN d
        BY <1>1, <1>5, <2>2, <3>1
      <4>2. d[j] = c[j]
        BY <1>5, <4>1
      <4>3. QED
        BY <4>1, <4>2 DEF Range
    <3>2. CASE j > i
      <4>1. j - 1 \in i..(Len(c) - 1) /\ j - 1 \in 1..(Len(c) - 1) /\ (j - 1) + 1 = j
        BY <1>1, <2>2, <3>2
      <4>2. d[j - 1] = c[j]
        BY <1>5, <4>1
      <4>3. QED
        BY <1>5, <4>1, <4>2 DEF Range
    <3>3. QED
      BY <1>1, <2>2, <3>1, <3>2
  <2>3. QED
    BY <2>1, <2>2 DEF Range
<1>9. QED
  BY <1>4, <1>5, <1>7, <1>8

\* A channel that is new makes one more.
LEMMA AppendOnce ==
  ASSUME NEW S, NEW c \in Seq(S), IsInjective(c), NEW s \in S, s \notin Range(c)
  PROVE  /\ Append(c, s) \in Seq(S)
         /\ Range(Append(c, s)) = Range(c) \cup {s}
         /\ IsInjective(Append(c, s))
<1> DEFINE d == Append(c, s)
<1>1. /\ d \in Seq(S) /\ DOMAIN d = 1..(Len(c) + 1) /\ DOMAIN c = 1..Len(c)
      /\ Len(c) \in Nat /\ d[Len(c) + 1] = s /\ \A k \in 1..Len(c) : d[k] = c[k]
  OBVIOUS
<1> HIDE DEF d
<1>2. \A k \in DOMAIN d : k = Len(c) + 1 \/ k \in DOMAIN c
  BY <1>1
<1>3. Range(d) = Range(c) \cup {s}
  BY <1>1, <1>2 DEF Range
<1>4. IsInjective(d)
  BY <1>1, <1>2 DEF IsInjective, Range
<1>5. QED
  BY <1>1, <1>3, <1>4 DEF d

\* A channel is registered and unregistered once, whatever became of its session.
LEMMA SessionStepKeeps ==
  ASSUME StreamInv, SessionStep
  PROVE  StreamInv'
<1> USE DEF StreamInv
<1>1. ASSUME NEW id \in SessionIDs, CreateSession(id) \/ DeleteSession(id) PROVE StreamInv'
  BY <1>1 DEF CreateSession, DeleteSession, StreamTyped, StreamsRegistered
<1>2. ASSUME NEW s \in Streams, NEW id \in SessionIDs, FindSession(s, id)
      PROVE  StreamInv'
  <2> DEFINE w == [at |-> "found", session |-> id]
  <2>1. /\ stream' = [stream EXCEPT ![s] = w] /\ stream[s].at = "none"
        /\ UNCHANGED <<sessions, sseClients>>
    BY <1>2 DEF FindSession
  <2>2. StreamTyped' /\ stream'[s] = w
        /\ \A t \in Streams : t # s => stream'[t] = stream[t]
    BY <2>1 DEF StreamTyped
  <2>3. StreamsRegistered'
    BY <2>1, <2>2 DEF StreamsRegistered
  <2>4. QED
    BY <2>2, <2>3
<1>3. ASSUME NEW s \in Streams, RegisterStream(s) PROVE StreamInv'
  <2> PICK id : id = stream[s].session
    OBVIOUS
  <2> DEFINE c == sseClients[id]
  <2>1. /\ stream' = [stream EXCEPT ![s].at = "open"] /\ stream[s].at = "found"
        /\ sseClients' = [sseClients EXCEPT ![id] = Append(@, s)]
        /\ sessions' = sessions
    BY <1>3 DEF RegisterStream
  <2>2. /\ id \in SessionIDs /\ stream'[s] = [at |-> "open", session |-> id]
        /\ \A t \in Streams : t # s => stream'[t] = stream[t]
    BY <2>1 DEF StreamTyped
  <2>3. c \in Seq(Streams) /\ s \notin Range(c) /\ IsInjective(c)
    BY <2>1, <2>2 DEF StreamTyped, StreamsRegistered
  <2>4. /\ Append(c, s) \in Seq(Streams) /\ Range(Append(c, s)) = Range(c) \cup {s}
        /\ IsInjective(Append(c, s))
    BY <2>3, AppendOnce
  <2>5. /\ sseClients'[id] = Append(c, s)
        /\ \A x \in SessionIDs : x # id => sseClients'[x] = sseClients[x]
        /\ sseClients' \in [SessionIDs -> Seq(Streams)]
    BY <2>1, <2>2, <2>4 DEF StreamTyped
  <2>6. StreamTyped'
    BY <2>1, <2>2, <2>5 DEF StreamTyped
  <2>7. StreamsRegistered'
    <3>1. ASSUME NEW x \in SessionIDs, x # id
          PROVE  /\ Range(sseClients'[x]) =
                      {t \in Streams : stream'[t] = [at |-> "open", session |-> x]}
                 /\ IsInjective(sseClients'[x])
      BY <2>1, <2>2, <2>5, <3>1 DEF StreamsRegistered
    <3>2. /\ Range(sseClients'[id]) =
               {t \in Streams : stream'[t] = [at |-> "open", session |-> id]}
          /\ IsInjective(sseClients'[id])
      BY <2>2, <2>4, <2>5 DEF StreamsRegistered
    <3>3. QED
      BY <3>1, <3>2 DEF StreamsRegistered
  <2>8. QED
    BY <2>6, <2>7
<1>4. ASSUME NEW s \in Streams, UnregisterStream(s) PROVE StreamInv'
  <2> PICK id : id = stream[s].session
    OBVIOUS
  <2> DEFINE c == sseClients[id]
  <2>1. /\ stream' = [stream EXCEPT ![s].at = "closing"] /\ stream[s].at = "open"
        /\ sseClients' = [sseClients EXCEPT ![id] = RemoveFirst(@, s)]
        /\ sessions' = sessions
    BY <1>4 DEF UnregisterStream, Without
  <2>2. /\ id \in SessionIDs /\ stream'[s] = [at |-> "closing", session |-> id]
        /\ stream[s] = [at |-> "open", session |-> id]
        /\ \A t \in Streams : t # s => stream'[t] = stream[t]
    BY <2>1 DEF StreamTyped
  <2>3. c \in Seq(Streams) /\ s \in Range(c) /\ IsInjective(c)
    BY <2>1, <2>2 DEF StreamTyped, StreamsRegistered
  <2>4. /\ RemoveFirst(c, s) \in Seq(Streams) /\ Range(RemoveFirst(c, s)) = Range(c) \ {s}
        /\ IsInjective(RemoveFirst(c, s))
    BY <2>3, RemoveOnce
  <2>5. /\ sseClients'[id] = RemoveFirst(c, s)
        /\ \A x \in SessionIDs : x # id => sseClients'[x] = sseClients[x]
        /\ sseClients' \in [SessionIDs -> Seq(Streams)]
    BY <2>1, <2>2, <2>4 DEF StreamTyped
  <2>6. StreamTyped'
    BY <2>1, <2>2, <2>5 DEF StreamTyped
  <2>7. StreamsRegistered'
    <3>1. ASSUME NEW x \in SessionIDs, x # id
          PROVE  /\ Range(sseClients'[x]) =
                      {t \in Streams : stream'[t] = [at |-> "open", session |-> x]}
                 /\ IsInjective(sseClients'[x])
      BY <2>1, <2>2, <2>5, <3>1 DEF StreamsRegistered
    <3>2. /\ Range(sseClients'[id]) =
               {t \in Streams : stream'[t] = [at |-> "open", session |-> id]}
          /\ IsInjective(sseClients'[id])
      BY <2>2, <2>4, <2>5 DEF StreamsRegistered
    <3>3. QED
      BY <3>1, <3>2 DEF StreamsRegistered
  <2>8. QED
    BY <2>6, <2>7
<1>5. ASSUME NEW s \in Streams, CloseStream(s) PROVE StreamInv'
  <2>1. /\ stream' = [stream EXCEPT ![s] = Unopened] /\ stream[s].at = "closing"
        /\ UNCHANGED <<sessions, sseClients>>
    BY <1>5 DEF CloseStream
  <2>2. StreamTyped' /\ stream'[s].at = "none"
        /\ \A t \in Streams : t # s => stream'[t] = stream[t]
    BY <2>1 DEF StreamTyped, Unopened
  <2>3. StreamsRegistered'
    BY <2>1, <2>2 DEF StreamsRegistered
  <2>4. QED
    BY <2>2, <2>3
<1>6. QED
  BY <1>1, <1>2, <1>3, <1>4, <1>5 DEF SessionStep

\* The end of the process is the end of its sessions and streams.
LEMMA NoStreams ==
  ASSUME sessions' = {}, sseClients' = [id \in SessionIDs |-> <<>>],
         stream' = [s \in Streams |-> Unopened]
  PROVE  StreamInv'
<1>1. Range(<<>>) = {} /\ IsInjective(<<>>) /\ <<>> \in Seq(Streams)
  BY DEF Range, IsInjective
<1>2. StreamTyped'
  BY <1>1 DEF StreamTyped, Unopened
<1>3. \A s \in Streams : stream'[s].at = "none"
  BY DEF Unopened
<1>4. StreamsRegistered'
  BY <1>1, <1>3 DEF StreamsRegistered
<1>5. QED
  BY <1>2, <1>4 DEF StreamInv

\* The channels of a session are those of its open streams, each once, after any
\* streams were opened and closed and the session itself was deleted.
THEOREM StreamsAreRegistered == Spec => []StreamsRegistered
<1>1. Init => StreamInv
  <2> SUFFICES ASSUME Init PROVE StreamInv
    OBVIOUS
  <2>1. /\ sessions = {} /\ sseClients = [id \in SessionIDs |-> <<>>]
        /\ stream = [s \in Streams |-> Unopened]
    BY DEF Init, SessionsInit
  <2>2. Range(<<>>) = {} /\ IsInjective(<<>>) /\ <<>> \in Seq(Streams)
    BY DEF Range, IsInjective
  <2>3. StreamTyped
    BY <2>1, <2>2 DEF StreamTyped, Unopened
  <2>4. StreamsRegistered
    BY <2>1, <2>2 DEF StreamsRegistered, Unopened
  <2>5. QED
    BY <2>3, <2>4 DEF StreamInv
<1>2. StreamInv /\ [Next]_vars => StreamInv'
  <2> SUFFICES ASSUME StreamInv, [Next]_vars PROVE StreamInv'
    OBVIOUS
  <2>1. UNCHANGED sessionVars \/ SessionStep \/ LoseSessions
    BY Zenon DEF Next, vars, Start, ClientConnects, Post, Serve, Upload, StopServer
  <2>2. CASE UNCHANGED sessionVars
    BY <2>2 DEF sessionVars, StreamInv, StreamTyped, StreamsRegistered
  <2>3. CASE LoseSessions
    BY <2>3, NoStreams DEF LoseSessions
  <2>4. QED
    BY <2>1, <2>2, <2>3, SessionStepKeeps
<1>3. StreamInv => StreamsRegistered
  BY DEF StreamInv
<1> QED BY <1>1, <1>2, <1>3, PTL DEF Spec

-----------------------------------------------------------------------------
(* The summary of a module                                                 *)

HasSources == {"existing", "llm", "upsert"}
NoSources  == {"idle", "cut", "cached", "files", "stats", "embed", "search", "rerank",
               "narrate", "context"}

CallType == [at : HasSources \cup NoSources \cup {"symbols"},
             tool : {"none", "summary", "search", "explain", "context"},
             range : Ranges \cup {<<0, 0>>},
             files : SUBSET Files, key : SUBSET Rows, torn : BOOLEAN]

\* What was read is what the module looked like at one moment.
AtOneMoment(r) == \E rows \in SUBSET Rows : r.files = FilesOf(rows) /\ r.key = KeyOf(rows)

\* A generator that has read the files has those of the rows that are there still,
\* and one that has read both has the sources of one moment, unless it is torn.
Sources(c) ==
  /\ call[c].at = "symbols" /\ ~call[c].torn => call[c].files = FilesOf(symbols)
  /\ call[c].at \in HasSources /\ ~call[c].torn => AtOneMoment(call[c])

SummaryInv ==
  /\ symbols \subseteq Rows /\ call \in [Calls -> CallType]
  /\ \A c \in Calls : Sources(c)
  /\ SummaryOfItsSources

\* What is read of a module is its files and some of its rows.
LEMMA ReadTyped ==
  ASSUME symbols \subseteq Rows
  PROVE  FilesOf(symbols) \subseteq Files /\ KeyOf(symbols) \subseteq Rows
<1>1. \A r \in Rows : r.file \in Files
  BY DEF Rows, RowsOf
<1>2. KeyOf(symbols) \subseteq symbols
  BY DEF KeyOf
<1>3. QED
  BY <1>1, <1>2 DEF FilesOf

\* A call that starts, or ends, or leaves out the generator.
LEMMA CallTyped ==
  ASSUME NEW w \in CallType, NEW at \in HasSources \cup NoSources \cup {"symbols"}
  PROVE  /\ [w EXCEPT !.at = at] \in CallType
         /\ [w EXCEPT !.at = at].at = at
         /\ [w EXCEPT !.at = at].files = w.files /\ [w EXCEPT !.at = at].key = w.key
         /\ [w EXCEPT !.at = at].torn = w.torn
BY DEF CallType

\* A call that has not begun has read nothing.
LEMMA IdleCall == Idle \in CallType
BY DEF Idle, CallType, NoSources

\* One call moves and no table changes: what the invariant says of it is asked again.
LEMMA CallMoves ==
  ASSUME SummaryInv, Fixed, NEW c \in Calls, NEW w \in CallType,
         call' = [call EXCEPT ![c] = w],
         w.at # "symbols" /\ w.at \in HasSources => w.torn \/ AtOneMoment(w),
         w.at = "symbols" => w.torn \/ w.files = FilesOf(symbols)
  PROVE  SummaryInv'
<1>1. /\ call' \in [Calls -> CallType] /\ call'[c] = w
      /\ \A d \in Calls : d # c => call'[d] = call[d]
  BY DEF SummaryInv
<1>2. symbols' = symbols /\ summary' = summary
  BY DEF Fixed
<1>3. ASSUME NEW d \in Calls PROVE Sources(d)'
  <2>1. CASE d = c
    BY <1>1, <1>2, <2>1 DEF Sources, HasSources
  <2>2. CASE d # c
    BY <1>1, <1>2, <2>2 DEF SummaryInv, Sources
  <2>3. QED
    BY <2>1, <2>2
<1>4. SummaryOfItsSources'
  BY <1>2 DEF SummaryInv, SummaryOfItsSources
<1>5. QED
  BY <1>1, <1>2, <1>3, <1>4 DEF SummaryInv

\* A call that ends forgets what it has read.
LEMMA LeaveKeeps ==
  ASSUME SummaryInv, Fixed, NEW c \in Calls,
         NEW at \in NoSources, Leave(c, at)
  PROVE  SummaryInv'
<1> PICK w : w = [Idle EXCEPT !.at = at]
  OBVIOUS
<1>1. w \in CallType /\ w.at = at
  BY IdleCall, CallTyped DEF NoSources
<1>2. call' = [call EXCEPT ![c] = w]
  BY DEF Leave
<1>3. QED
  BY <1>1, <1>2, CallMoves DEF NoSources, HasSources

\* A call that goes on takes what it has read with it.
LEMMA GoKeeps ==
  ASSUME SummaryInv, Fixed, NEW c \in Calls, NEW at \in HasSources \cup NoSources, Go(c, at),
         at \in HasSources => call[c].at \in HasSources
  PROVE  SummaryInv'
<1> PICK w : w = [call[c] EXCEPT !.at = at]
  OBVIOUS
<1>1. call[c] \in CallType /\ Sources(c)
  BY DEF SummaryInv
<1>2. /\ w \in CallType /\ w.at = at /\ w.files = call[c].files /\ w.key = call[c].key
      /\ w.torn = call[c].torn
  BY <1>1, CallTyped
<1>3. call' = [call EXCEPT ![c] = w]
  BY DEF Go, SummaryInv
<1>4. w.at \in HasSources => w.torn \/ AtOneMoment(w)
  BY <1>1, <1>2 DEF Sources, AtOneMoment
<1>5. QED
  BY <1>2, <1>3, <1>4, CallMoves DEF NoSources, HasSources

\* The first read, of the files, and the second, of the symbols.
LEMMA ReadsKeep ==
  ASSUME SummaryInv, NEW c \in Calls, GetModuleFiles(c) \/ GetModuleSymbols(c)
  PROVE  SummaryInv'
<1>1. call[c] \in CallType /\ symbols \subseteq Rows /\ Sources(c) /\ Fixed
  BY DEF SummaryInv, GetModuleFiles, GetModuleSymbols
<1>2. FilesOf(symbols) \subseteq Files /\ KeyOf(symbols) \subseteq Rows
  BY <1>1, ReadTyped
<1>3. CASE GetModuleFiles(c)
  <2> PICK w : w = [call[c] EXCEPT !.at = "symbols", !.files = FilesOf(symbols)]
    OBVIOUS
  <2>1. w \in CallType /\ w.at = "symbols" /\ w.files = FilesOf(symbols)
    BY <1>1, <1>2 DEF CallType, HasSources
  <2>2. call' = [call EXCEPT ![c] = w]
    BY <1>3 DEF GetModuleFiles, SummaryInv
  <2>3. QED
    BY <1>1, <2>1, <2>2, CallMoves
<1>4. CASE GetModuleSymbols(c)
  <2> PICK w : w = [call[c] EXCEPT !.at = "existing", !.key = KeyOf(symbols)]
    OBVIOUS
  <2>1. /\ w \in CallType /\ w.at = "existing" /\ w.key = KeyOf(symbols)
        /\ w.files = call[c].files /\ w.torn = call[c].torn
    BY <1>1, <1>2 DEF CallType, HasSources
  <2>2. call' = [call EXCEPT ![c] = w] /\ call[c].at = "symbols"
    BY <1>4 DEF GetModuleSymbols, SummaryInv
  <2>3. w.torn \/ AtOneMoment(w)
    BY <1>1, <2>1, <2>2 DEF Sources, AtOneMoment
  <2>4. QED
    BY <1>1, <2>1, <2>2, <2>3, CallMoves
<1>5. QED
  BY <1>3, <1>4

\* The row that is stored has the hash of what its text was written about.
LEMMA UpsertSummaryKeeps ==
  ASSUME SummaryInv, NEW c \in Calls, UpsertSummary(c)
  PROVE  SummaryInv'
<1>1. /\ call[c].at = "upsert" /\ Sources(c) /\ symbols' = symbols
      /\ summary' = RowFor(c) /\ call' = [call EXCEPT ![c] = [Idle EXCEPT !.at = "stats"]]
  BY DEF SummaryInv, UpsertSummary, Leave
<1> PICK w : w = [Idle EXCEPT !.at = "stats"]
  OBVIOUS
<1>2. w \in CallType /\ w.at = "stats"
  BY IdleCall, CallTyped DEF NoSources
<1>3. /\ call' \in [Calls -> CallType] /\ call'[c] = w
      /\ \A d \in Calls : d # c => call'[d] = call[d]
  BY <1>1, <1>2 DEF SummaryInv
<1>4. \A d \in Calls : Sources(d)'
  BY <1>1, <1>2, <1>3 DEF SummaryInv, Sources, HasSources
<1>5. SummaryOfItsSources'
  <2>1. /\ RowFor(c).hash = SourceHash(RowFor(c).files, RowFor(c).key)
        /\ RowFor(c).files = call[c].files /\ RowFor(c).key = call[c].key
        /\ RowFor(c).torn = call[c].torn
    BY DEF RowFor
  <2>2. ~call[c].torn => AtOneMoment(call[c])
    BY <1>1 DEF Sources, HasSources
  <2>3. QED
    BY <1>1, <2>1, <2>2 DEF SummaryOfItsSources, AtOneMoment
<1>6. QED
  BY <1>1, <1>3, <1>4, <1>5 DEF SummaryInv

\* No other tool reads sources or stores a summary.
LEMMA ServeKeeps ==
  ASSUME SummaryInv, NEW c \in Calls, NEW found, ToolStep(c, found)
  PROVE  SummaryInv'
<1> USE DEF HasSources, NoSources
<1>1. CASE \E at \in {"stats", "idle", "narrate", "cut"} : Leave(c, at) /\ Fixed
  BY <1>1, LeaveKeeps
<1>2. CASE \E at \in {"files", "search", "rerank"} : Go(c, at) /\ Fixed
  BY <1>2, GoKeeps
<1>3. CASE \/ call[c].at = "existing" /\ Go(c, "llm") /\ Fixed
           \/ call[c].at = "llm" /\ Go(c, "upsert") /\ Fixed
  BY <1>3, GoKeeps
<1>4. \/ \E at \in {"stats", "idle", "narrate", "cut"} : Leave(c, at) /\ Fixed
      \/ \E at \in {"files", "search", "rerank"} : Go(c, at) /\ Fixed
      \/ call[c].at = "existing" /\ Go(c, "llm") /\ Fixed
      \/ call[c].at = "llm" /\ Go(c, "upsert") /\ Fixed
      \/ GetModuleFiles(c) \/ GetModuleSymbols(c) \/ UpsertSummary(c)
  <2>1. CASE HybridSearch(c, found)
    BY <2>1, Zenon DEF HybridSearch, Answer
  <2>2. CASE ~HybridSearch(c, found)
    BY <2>2, Zenon DEF ToolStep, SummaryStep, GetSummary, CheckExisting, CallLLM,
      GenerationFails, ListModules, Embed, EmbedFails, Rerank, Narrate, GetFileContext,
      Answer
  <2>3. QED
    BY <2>1, <2>2
<1>5. QED
  BY <1>1, <1>2, <1>3, <1>4, ReadsKeep, UpsertSummaryKeeps

\* A call that starts has read nothing.
LEMMA StartToolKeeps ==
  ASSUME SummaryInv, NEW c \in Calls, StartTool(c)
  PROVE  SummaryInv'
<1> PICK w : /\ call' = [call EXCEPT ![c] = w]
             /\ w \in CallType /\ w.at \in {"cached", "embed", "context"}
  <2>1. \/ call' = [call EXCEPT ![c] = [Idle EXCEPT !.at = "cached", !.tool = "summary"]]
        \/ \E t \in {"search", "explain"} :
             call' = [call EXCEPT ![c] = [Idle EXCEPT !.at = "embed", !.tool = t]]
        \/ \E r \in Ranges :
             call' = [call EXCEPT ![c] = [Idle EXCEPT !.at = "context", !.tool = "context",
                                                      !.range = r]]
    BY Zenon DEF StartTool
  <2>2. /\ [Idle EXCEPT !.at = "cached", !.tool = "summary"] \in CallType
        /\ [Idle EXCEPT !.at = "cached", !.tool = "summary"].at = "cached"
    BY DEF Idle, CallType, NoSources
  <2>3. \A t \in {"search", "explain"} :
          /\ [Idle EXCEPT !.at = "embed", !.tool = t] \in CallType
          /\ [Idle EXCEPT !.at = "embed", !.tool = t].at = "embed"
    BY DEF Idle, CallType, NoSources
  <2>4. \A r \in Ranges :
          /\ [Idle EXCEPT !.at = "context", !.tool = "context", !.range = r] \in CallType
          /\ [Idle EXCEPT !.at = "context", !.tool = "context", !.range = r].at = "context"
    BY DEF Idle, CallType, NoSources
  <2>5. QED
    BY <2>1, <2>2, <2>3, <2>4
<1>1. Fixed
  BY DEF StartTool
<1>2. QED
  BY <1>1, CallMoves DEF HasSources

\* A file that is indexed between the two reads of a generator tears what it reads.
LEMMA IndexingKeeps ==
  ASSUME SummaryInv, NEW f \in Files, IndexFile(f)
  PROVE  SummaryInv'
<1>1. PICK rows \in SUBSET RowsOf(f) : symbols' = {r \in symbols : r.file # f} \cup rows
  BY DEF IndexFile
<1>2. /\ call' = [c \in Calls |-> [call[c] EXCEPT !.torn = @ \/ call[c].at = "symbols"]]
      /\ summary' = summary
  BY DEF IndexFile
<1>3. symbols' \subseteq Rows
  BY <1>1 DEF SummaryInv, Rows
<1>4. ASSUME NEW c \in Calls
      PROVE  call'[c] \in CallType /\ Sources(c)'
  <2> PICK w, b : w = call[c] /\ b = (w.torn \/ w.at = "symbols")
    OBVIOUS
  <2>1. w \in CallType /\ w.torn \in BOOLEAN /\ Sources(c)
    BY DEF SummaryInv, CallType
  <2>2. b \in BOOLEAN /\ (w.torn => b) /\ (w.at = "symbols" => b)
    BY <2>1
  <2>3. call'[c] = [w EXCEPT !.torn = b]
    BY <1>2
  <2>4. /\ call'[c] \in CallType /\ call'[c].at = w.at /\ call'[c].files = w.files
        /\ call'[c].key = w.key /\ call'[c].torn = b
    BY <2>1, <2>2, <2>3 DEF CallType
  <2>5. Sources(c)'
    BY <2>1, <2>2, <2>4 DEF Sources, AtOneMoment, HasSources
  <2>6. QED
    BY <2>4, <2>5
<1>5. call' \in [Calls -> CallType]
  BY <1>2, <1>4
<1>6. SummaryOfItsSources'
  BY <1>2 DEF SummaryInv, SummaryOfItsSources
<1>7. QED
  BY <1>3, <1>4, <1>5, <1>6 DEF SummaryInv

\* A stored summary has the hash of the sources that were read for it, and these were
\* the module's at one moment unless a file was indexed between the two reads, however
\* many generators race and whenever the process stops.
THEOREM SummarySound == Spec => []SummaryOfItsSources
<1>1. Init => SummaryInv
  <2> SUFFICES ASSUME Init PROVE SummaryInv
    OBVIOUS
  <2>1. symbols = {} /\ summary = NoSummary /\ call = [c \in Calls |-> Idle]
    BY DEF Init, ToolsInit
  <2>2. \A c \in Calls : call[c].at = "idle"
    BY <2>1 DEF Idle
  <2>3. QED
    BY <2>1, <2>2, IdleCall DEF SummaryInv, Sources, HasSources, SummaryOfItsSources
<1>2. SummaryInv /\ [Next]_vars => SummaryInv'
  <2> SUFFICES ASSUME SummaryInv, [Next]_vars PROVE SummaryInv'
    OBVIOUS
  <2>1. CASE UNCHANGED toolVars
    <3>1. symbols' = symbols /\ summary' = summary /\ call' = call
      BY <2>1 DEF toolVars
    <3>2. QED
      BY <3>1 DEF SummaryInv, Sources, SummaryOfItsSources
  <2>2. CASE LoseCalls
    <3>1. symbols' = symbols /\ summary' = summary /\ call' = [c \in Calls |-> Idle]
      BY <2>2 DEF LoseCalls
    <3>2. \A c \in Calls : call'[c].at = "idle"
      BY <3>1 DEF Idle
    <3>3. QED
      BY <3>1, <3>2, IdleCall DEF SummaryInv, Sources, HasSources, SummaryOfItsSources
  <2>3. \/ UNCHANGED toolVars \/ LoseCalls \/ \E f \in Files : IndexFile(f)
        \/ \E c \in Calls : StartTool(c) \/ ToolStep(c, collection)
    BY Zenon DEF Next, vars, Start, ClientConnects, Post, Serve, Upload, StopServer
  <2>4. QED
    BY <2>1, <2>2, <2>3, IndexingKeeps, StartToolKeeps, ServeKeeps
<1>3. SummaryInv => SummaryOfItsSources
  BY DEF SummaryInv
<1> QED BY <1>1, <1>2, <1>3, PTL DEF Spec

-----------------------------------------------------------------------------
(* Hierarchies                                                             *)

\* A set of numbers of which none is the first is empty.
LEMMA NoFirst ==
  ASSUME NEW Bad, Bad \subseteq Nat, \A n \in Bad : n # 0 /\ n - 1 \in Bad
  PROVE  Bad = {}
<1> SUFFICES ASSUME Bad # {} PROVE FALSE
  OBVIOUS
<1>1. PICK m \in Bad : \A k \in Bad : <<k, m>> \notin OpToRel(<, Nat)
  BY WFMin, NatLessThanWellFounded, Zenon
<1>2. m \in Nat /\ m # 0 /\ m - 1 \in Bad /\ m - 1 \in Nat /\ m - 1 < m
  OBVIOUS
<1> QED BY <1>1, <1>2, Zenon DEF OpToRel

\* A non-empty set of numbers has a first.
LEMMA FirstOf ==
  ASSUME NEW S, S \subseteq Nat, S # {}
  PROVE  \E m \in S : \A k \in S : m <= k
<1>1. PICK m \in S : \A k \in S : <<k, m>> \notin OpToRel(<, Nat)
  BY WFMin, NatLessThanWellFounded, Zenon
<1>2. \A k \in S : ~(k < m)
  <2> TAKE k \in S
  <2>1. k \in Nat /\ m \in Nat
    OBVIOUS
  <2> QED BY <1>1, <2>1, Zenon DEF OpToRel
<1>3. m \in Nat /\ \A k \in S : k \in Nat
  OBVIOUS
<1> QED BY <1>2, <1>3

\* f applies g again and again, beginning with z.
Iterates(f, N, T, z, g) ==
  f \in [0..N -> T] /\ f[0] = z /\ \A n \in 1..N : f[n] = g[f[n - 1]]

\* It can, any number of times.
LEMMA Iteration ==
  ASSUME NEW N \in Nat, NEW T, NEW z \in T, NEW g \in [T -> T]
  PROVE  \E f : Iterates(f, N, T, z, g)
<1> DEFINE Bad == {m \in Nat : ~ \E f : Iterates(f, m, T, z, g)}
<1>1. ASSUME NEW m \in Bad PROVE m # 0 /\ m - 1 \in Bad
  <2>1. m \in Nat /\ ~ \E f : Iterates(f, m, T, z, g)
    OBVIOUS
  <2>2. m # 0
    <3> DEFINE f == [n \in 0..0 |-> z]
    <3>1. Iterates(f, 0, T, z, g)
      BY DEF Iterates
    <3> QED BY <2>1, <3>1
  <2>3. ASSUME m - 1 \notin Bad PROVE FALSE
    <3>1. m - 1 \in Nat
      BY <2>1, <2>2
    <3>2. PICK f : Iterates(f, m - 1, T, z, g)
      BY <2>3, <3>1
    <3>3. f[m - 1] \in T /\ g[f[m - 1]] \in T
      <4>1. m - 1 \in 0..(m - 1)
        BY <3>1
      <4>2. f[m - 1] \in T
        BY <3>2, <4>1 DEF Iterates
      <4> QED BY <4>2
    <3> DEFINE h == [n \in 0..m |-> IF n = m THEN g[f[m - 1]] ELSE f[n]]
    <3>4. \A n \in 0..m : n = m \/ n \in 0..(m - 1)
      BY <2>1
    <3>5. h \in [0..m -> T]
      BY <3>2, <3>3, <3>4 DEF Iterates
    <3>6. h[0] = z
      <4>1. 0 \in 0..m /\ 0 # m
        BY <2>1, <2>2
      <4> QED BY <3>2, <4>1 DEF Iterates
    <3>7. ASSUME NEW n \in 1..m PROVE h[n] = g[h[n - 1]]
      <4>1. n \in 0..m /\ n - 1 \in 0..m /\ n - 1 # m
        BY <2>1
      <4>2. h[n - 1] = f[n - 1]
        BY <4>1
      <4>3. CASE n = m
        BY <4>1, <4>2, <4>3
      <4>4. CASE n # m
        <5>1. n \in 1..(m - 1)
          BY <2>1, <4>4
        <5>2. f[n] = g[f[n - 1]]
          BY <3>2, <5>1 DEF Iterates
        <5> QED BY <4>1, <4>2, <4>4, <5>2
      <4> QED BY <4>3, <4>4
    <3> HIDE DEF h
    <3>8. Iterates(h, m, T, z, g)
      BY <3>5, <3>6, <3>7 DEF Iterates
    <3> QED BY <2>1, <3>8
  <2> QED BY <2>2, <2>3
<1>2. Bad \subseteq Nat
  OBVIOUS
<1>3. Bad = {}
  <2> HIDE DEF Bad
  <2> QED BY <1>1, <1>2, NoFirst
<1> QED BY <1>3

EdgesTyped == inherits \subseteq Classes \X Classes
Tags == {"self", "parent", "child"}

\* The joins with one row more lead to the classes one edge away, one tag a direction.
LEMMA AdjacentSteps ==
  ASSUME EdgesTyped, NEW a \in Classes, NEW direction \in Directions
  PROVE  /\ Adjacent(a, direction) \subseteq Classes \X Tags
         /\ \A b : (\E row \in Adjacent(a, direction) : row[1] = b)
                     <=> (b \in Classes /\ b # a /\ Step(a, b, direction))
         /\ \A row \in Adjacent(a, direction) :
              /\ direction = "parents" => row[2] = "parent"
              /\ direction = "children" => row[2] = "child"
<1> DEFINE up == IF direction = "children" THEN {}
                 ELSE {<<e[2], "parent">> : e \in {f \in inherits : f[1] = a}}
           down == IF direction = "parents" THEN {}
                   ELSE {<<e[1], "child">> : e \in {f \in inherits : f[2] = a}}
<1>1. Adjacent(a, direction) = {row \in up \cup down : row[1] # a}
  BY DEF Adjacent
<1>2. \A e \in inherits : e[1] \in Classes /\ e[2] \in Classes /\ e = <<e[1], e[2]>>
  BY DEF EdgesTyped
<1>3. \A row : row \in up <=> /\ direction # "children"
                              /\ \E b \in Classes : <<a, b>> \in inherits /\ row = <<b, "parent">>
  BY <1>2
<1>4. \A row : row \in down <=> /\ direction # "parents"
                                /\ \E b \in Classes : <<b, a>> \in inherits /\ row = <<b, "child">>
  BY <1>2
<1> HIDE DEF up, down
<1>5. ASSUME NEW row \in Adjacent(a, direction)
      PROVE  /\ row \in Classes \X Tags
             /\ direction = "parents" => row[2] = "parent"
             /\ direction = "children" => row[2] = "child"
  <2>1. CASE row \in up
    <3>1. PICK d \in Classes : row = <<d, "parent">>
      BY <1>3, <2>1
    <3>2. direction # "children"
      BY <1>3, <2>1
    <3> QED BY <3>1, <3>2 DEF Tags
  <2>2. CASE row \in down
    <3>1. PICK d \in Classes : row = <<d, "child">>
      BY <1>4, <2>2
    <3>2. direction # "parents"
      BY <1>4, <2>2
    <3> QED BY <3>1, <3>2 DEF Tags
  <2> QED BY <1>1, <2>1, <2>2
<1>6. ASSUME NEW b
      PROVE  (\E row \in Adjacent(a, direction) : row[1] = b)
               <=> (b \in Classes /\ b # a /\ Step(a, b, direction))
  <2>1. ASSUME NEW row \in Adjacent(a, direction), row[1] = b
        PROVE  b \in Classes /\ b # a /\ Step(a, b, direction)
    <3>1. CASE row \in up
      <4>1. PICK d \in Classes : <<a, d>> \in inherits /\ row = <<d, "parent">>
        BY <1>3, <3>1
      <4>2. d = b
        BY <2>1, <4>1
      <4> QED BY <1>1, <1>3, <2>1, <3>1, <4>1, <4>2 DEF Step, Directions
    <3>2. CASE row \in down
      <4>1. PICK d \in Classes : <<d, a>> \in inherits /\ row = <<d, "child">>
        BY <1>4, <3>2
      <4>2. d = b
        BY <2>1, <4>1
      <4> QED BY <1>1, <1>4, <2>1, <3>2, <4>1, <4>2 DEF Step, Directions
    <3> QED BY <1>1, <3>1, <3>2
  <2>2. ASSUME b \in Classes, b # a, Step(a, b, direction)
        PROVE  \E row \in Adjacent(a, direction) : row[1] = b
    <3>1. CASE direction # "children" /\ <<a, b>> \in inherits
      <4>1. <<b, "parent">> \in up /\ <<b, "parent">>[1] = b
        BY <1>3, <2>2, <3>1
      <4> QED BY <1>1, <2>2, <4>1
    <3>2. CASE direction # "parents" /\ <<b, a>> \in inherits
      <4>1. <<b, "child">> \in down /\ <<b, "child">>[1] = b
        BY <1>4, <2>2, <3>2
      <4> QED BY <1>1, <2>2, <4>1
    <3> QED BY <2>2, <3>1, <3>2 DEF Step
  <2> QED BY <2>1, <2>2
<1> QED BY <1>5, <1>6

\* The levels of the recursive query.
Levels(level, c, direction, depth) ==
  level = [d \in 0..depth |->
             IF d = 0 THEN {<<c, "self">>}
             ELSE UNION {Adjacent(h[1], direction) : h \in level[d - 1]}]

\* What the query takes the nearest of.
AllRows(level, depth) ==
  UNION {{[id |-> h[1], depth |-> d, direction |-> h[2]] : h \in level[d]} : d \in 0..depth}

\* The query has its levels.
LEMMA QueryLevels ==
  ASSUME EdgesTyped, NEW c \in Classes, NEW direction \in Directions, NEW depth \in Nat
  PROVE  \E level : /\ Levels(level, c, direction, depth)
                    /\ level \in [0..depth -> SUBSET (Classes \X Tags)]
                    /\ Hierarchy(c, direction, depth) = Distinct(AllRows(level, depth))
<1> DEFINE T == SUBSET (Classes \X Tags)
           g == [L \in T |-> UNION {Adjacent(h[1], direction) : h \in L}]
           z == {<<c, "self">>}
<1>1. \A L \in T : UNION {Adjacent(h[1], direction) : h \in L} \in T
  <2> SUFFICES ASSUME NEW L \in T, NEW h \in L PROVE Adjacent(h[1], direction) \subseteq Classes \X Tags
    OBVIOUS
  <2>1. h[1] \in Classes
    OBVIOUS
  <2> QED BY <2>1, AdjacentSteps
<1>2. g \in [T -> T] /\ z \in T
  BY <1>1 DEF Tags
<1>3. PICK f : Iterates(f, depth, T, z, g)
  <2> HIDE DEF T, g, z
  <2> QED BY <1>2, Iteration
<1>4. \A L \in T : g[L] = UNION {Adjacent(h[1], direction) : h \in L}
  OBVIOUS
<1> HIDE DEF T, g
<1>5. \A d \in 0..depth : f[d] = IF d = 0 THEN z
                                 ELSE UNION {Adjacent(h[1], direction) : h \in f[d - 1]}
  <2> TAKE d \in 0..depth
  <2>1. CASE d = 0
    BY <1>3, <2>1 DEF Iterates
  <2>2. CASE d # 0
    <3>1. d \in 1..depth /\ d - 1 \in 0..depth
      BY <2>2
    <3>2. f[d] = g[f[d - 1]] /\ f[d - 1] \in T
      BY <1>3, <3>1 DEF Iterates
    <3> QED BY <1>4, <2>2, <3>2
  <2> QED BY <2>1, <2>2
<1>6. f = [d \in 0..depth |-> f[d]] /\ f \in [0..depth -> T]
  BY <1>3 DEF Iterates
<1>7. Levels(f, c, direction, depth)
  BY <1>5, <1>6 DEF Levels
<1> DEFINE level == CHOOSE l : Levels(l, c, direction, depth)
<1>8. Levels(level, c, direction, depth)
  BY <1>7
<1>9. Hierarchy(c, direction, depth) = Distinct(AllRows(level, depth))
  BY DEF Hierarchy, Levels, AllRows
<1> HIDE DEF level
<1>10. \A d \in 0..depth : level[d] = IF d = 0 THEN z
                                      ELSE UNION {Adjacent(h[1], direction) : h \in level[d - 1]}
  BY <1>8 DEF Levels
<1>11. \A d \in 0..depth : level[d] \in T
  <2> DEFINE Bad == {d \in 0..depth : level[d] \notin T}
  <2>1. ASSUME NEW d \in Bad PROVE d # 0 /\ d - 1 \in Bad
    <3>1. d # 0
      BY <1>2, <1>10
    <3>2. d - 1 \in 0..depth
      BY <3>1
    <3>3. level[d] = UNION {Adjacent(h[1], direction) : h \in level[d - 1]}
      BY <1>10, <3>1
    <3>4. level[d - 1] \notin T
      BY <1>1, <3>3 DEF T
    <3> QED BY <3>1, <3>2, <3>4
  <2>2. Bad \subseteq Nat
    OBVIOUS
  <2> HIDE DEF Bad
  <2>3. Bad = {}
    BY <2>1, <2>2, NoFirst
  <2> QED BY <2>3 DEF Bad
<1>12. level \in [0..depth -> T]
  BY <1>8, <1>11 DEF Levels
<1> QED BY <1>8, <1>9, <1>12 DEF T

\* The classes on a level, and on those up to it.
Reach(level, d) == {h[1] : h \in level[d]}
ReachedBy(level, d) == UNION {Reach(level, j) : j \in 0..d}

IsQuery(level, c, direction, depth) ==
  Levels(level, c, direction, depth) /\ level \in [0..depth -> SUBSET (Classes \X Tags)]

\* A level has the classes one edge from those of the level before.
LEMMA LevelSteps ==
  ASSUME EdgesTyped, NEW c \in Classes, NEW direction \in Directions, NEW depth \in Nat,
         NEW level, IsQuery(level, c, direction, depth)
  PROVE  /\ level[0] = {<<c, "self">>} /\ Reach(level, 0) = {c}
         /\ \A d \in 0..depth : Reach(level, d) \subseteq Classes
         /\ \A d \in 1..depth :
              /\ Reach(level, d) = {b \in Classes : \E a \in Reach(level, d - 1) :
                                                      b # a /\ Step(a, b, direction)}
              /\ \A h \in level[d] : /\ direction = "parents" => h[2] = "parent"
                                     /\ direction = "children" => h[2] = "child"
<1>1. \A d \in 0..depth :
        /\ level[d] = IF d = 0 THEN {<<c, "self">>}
                      ELSE UNION {Adjacent(h[1], direction) : h \in level[d - 1]}
        /\ level[d] \subseteq Classes \X Tags
  BY DEF IsQuery, Levels
<1>2. level[0] = {<<c, "self">>} /\ Reach(level, 0) = {c}
  <2>0. 0 \in 0..depth
    OBVIOUS
  <2>1. level[0] = {<<c, "self">>}
    BY <1>1, <2>0
  <2> QED BY <2>1 DEF Reach
<1>3. ASSUME NEW d \in 0..depth PROVE Reach(level, d) \subseteq Classes
  <2>1. level[d] \subseteq Classes \X Tags
    BY <1>1
  <2>2. \A h \in level[d] : h[1] \in Classes
    BY <2>1
  <2> QED BY <2>2 DEF Reach
<1>4. ASSUME NEW d \in 1..depth
      PROVE  /\ Reach(level, d) = {b \in Classes : \E a \in Reach(level, d - 1) :
                                                     b # a /\ Step(a, b, direction)}
             /\ \A h \in level[d] : /\ direction = "parents" => h[2] = "parent"
                                    /\ direction = "children" => h[2] = "child"
  <2>1. d \in 0..depth /\ d - 1 \in 0..depth /\ d # 0
    OBVIOUS
  <2>2. level[d] = UNION {Adjacent(h[1], direction) : h \in level[d - 1]}
    BY <1>1, <2>1
  <2>3. \A h \in level[d - 1] : h[1] \in Classes
    BY <1>1, <2>1
  <2>4. \A h \in level[d] : \E k \in level[d - 1] : h \in Adjacent(k[1], direction)
    BY <2>2
  <2>5. ASSUME NEW b \in Reach(level, d)
        PROVE  b \in Classes /\ \E a \in Reach(level, d - 1) : b # a /\ Step(a, b, direction)
    <3>1. PICK h \in level[d] : h[1] = b
      BY DEF Reach
    <3>2. PICK k \in level[d - 1] : h \in Adjacent(k[1], direction)
      BY <2>4
    <3>3. b \in Classes /\ b # k[1] /\ Step(k[1], b, direction)
      BY <2>3, <3>1, <3>2, AdjacentSteps
    <3> QED BY <3>3 DEF Reach
  <2>6. ASSUME NEW b \in Classes, NEW a \in Reach(level, d - 1), b # a, Step(a, b, direction)
        PROVE  b \in Reach(level, d)
    <3>1. PICK k \in level[d - 1] : k[1] = a
      BY DEF Reach
    <3>2. PICK row \in Adjacent(a, direction) : row[1] = b
      BY <2>3, <2>6, <3>1, AdjacentSteps
    <3>3. row \in level[d]
      BY <2>2, <3>1, <3>2
    <3> QED BY <3>2, <3>3 DEF Reach
  <2>7. ASSUME NEW h \in level[d]
        PROVE  /\ direction = "parents" => h[2] = "parent"
               /\ direction = "children" => h[2] = "child"
    <3>1. PICK k \in level[d - 1] : h \in Adjacent(k[1], direction)
      BY <2>4
    <3> QED BY <2>3, <3>1, AdjacentSteps
  <2> QED BY <2>5, <2>6, <2>7
<1> QED BY <1>2, <1>3, <1>4

\* One edge further than the classes of the levels up to one are those up to the next.
LEMMA ReachedNext ==
  ASSUME EdgesTyped, NEW c \in Classes, NEW direction \in Directions, NEW depth \in Nat,
         NEW level, IsQuery(level, c, direction, depth), NEW d \in 1..depth
  PROVE  ReachedBy(level, d) =
           ReachedBy(level, d - 1)
             \cup {b \in Classes : \E a \in ReachedBy(level, d - 1) : Step(a, b, direction)}
<1>1. d \in Nat /\ d - 1 \in Nat /\ d \in 0..d
  OBVIOUS
<1>2. ASSUME NEW b \in ReachedBy(level, d), b \notin ReachedBy(level, d - 1)
      PROVE  b \in Classes /\ \E a \in ReachedBy(level, d - 1) : Step(a, b, direction)
  <2>1. PICK j \in 0..d : b \in Reach(level, j)
    BY DEF ReachedBy
  <2>2. j \notin 0..(d - 1)
    BY <1>2, <2>1 DEF ReachedBy
  <2>3. j = d
    BY <2>2
  <2>4. b \in Classes /\ \E a \in Reach(level, d - 1) : Step(a, b, direction)
    BY <2>1, <2>3, LevelSteps
  <2>5. d - 1 \in 0..(d - 1)
    BY <1>1
  <2> QED BY <2>4, <2>5 DEF ReachedBy
<1>3. ASSUME NEW b \in Classes, NEW a \in ReachedBy(level, d - 1), Step(a, b, direction)
      PROVE  b \in ReachedBy(level, d)
  <2>1. PICK j \in 0..(d - 1) : a \in Reach(level, j)
    BY DEF ReachedBy
  <2>2. CASE a = b
    <3>1. j \in 0..d
      BY <1>1
    <3> QED BY <2>1, <2>2, <3>1 DEF ReachedBy
  <2>3. CASE a # b
    <3>1. j + 1 \in 1..depth /\ j + 1 \in 0..d /\ (j + 1) - 1 = j
      BY <1>1
    <3>2. b \in Reach(level, j + 1)
      BY <1>3, <2>1, <2>3, <3>1, LevelSteps
    <3> QED BY <3>1, <3>2 DEF ReachedBy
  <2> QED BY <2>2, <2>3
<1>4. ReachedBy(level, d - 1) \subseteq ReachedBy(level, d)
  <2>1. 0..(d - 1) \subseteq 0..d
    BY <1>1
  <2> QED BY <2>1 DEF ReachedBy
<1> QED BY <1>2, <1>3, <1>4

\* The classes some chain of edges leads to are those of the levels.
LEMMA WithinReached ==
  ASSUME EdgesTyped, NEW c \in Classes, NEW direction \in Directions, NEW depth \in Nat,
         NEW level, IsQuery(level, c, direction, depth), NEW d \in 0..depth
  PROVE  Within(c, direction, d) = ReachedBy(level, d)
<1> DEFINE Further(S) == S \cup {b \in Classes : \E a \in S : Step(a, b, direction)}
           Is(w) == w = [k \in 0..d |-> IF k = 0 THEN {c} ELSE Further(w[k - 1])]
           w == CHOOSE v : Is(v)
           f == [k \in 0..d |-> ReachedBy(level, k)]
<1>1. Within(c, direction, d) = w[d]
  BY DEF Within
<1>2. d \in Nat
  OBVIOUS
<1>3. ReachedBy(level, 0) = {c}
  <2>1. 0..0 = {0}
    OBVIOUS
  <2>2. Reach(level, 0) = {c}
    BY LevelSteps
  <2> QED BY <2>1, <2>2 DEF ReachedBy
<1>4. \A k \in 1..d : ReachedBy(level, k) = Further(ReachedBy(level, k - 1))
  <2> TAKE k \in 1..d
  <2>1. k \in 1..depth
    OBVIOUS
  <2> QED BY <2>1, ReachedNext
<1> HIDE DEF Further
<1>5. Is(f)
  <2>1. ASSUME NEW k \in 0..d
        PROVE  ReachedBy(level, k) = IF k = 0 THEN {c} ELSE Further(f[k - 1])
    <3>1. CASE k = 0
      BY <1>3, <3>1
    <3>2. CASE k # 0
      <4>1. k \in 1..d /\ k - 1 \in 0..d
        BY <3>2
      <4>2. f[k - 1] = ReachedBy(level, k - 1)
        BY <4>1
      <4> QED BY <1>4, <3>2, <4>1, <4>2
    <3> QED BY <3>1, <3>2
  <2> QED BY <2>1
<1>6. Is(w)
  BY <1>5
<1> HIDE DEF w
<1>7. \A k \in 0..d : w[k] = IF k = 0 THEN {c} ELSE Further(w[k - 1])
  BY <1>6
<1> DEFINE Bad == {k \in 0..d : w[k] # ReachedBy(level, k)}
<1>8. ASSUME NEW k \in Bad PROVE k # 0 /\ k - 1 \in Bad
  <2>1. k \in 0..d /\ w[k] # ReachedBy(level, k)
    OBVIOUS
  <2>2. k # 0
    BY <1>3, <1>7, <2>1
  <2>3. k \in 1..d /\ k - 1 \in 0..d
    BY <2>1, <2>2
  <2>4. w[k] = Further(w[k - 1]) /\ ReachedBy(level, k) = Further(ReachedBy(level, k - 1))
    BY <1>4, <1>7, <2>1, <2>2, <2>3
  <2> QED BY <2>1, <2>2, <2>3, <2>4
<1>9. Bad \subseteq Nat
  OBVIOUS
<1>10. Bad = {}
  <2> HIDE DEF Bad
  <2> QED BY <1>8, <1>9, NoFirst
<1>11. d \in 0..d
  BY <1>2
<1>12. w[d] = ReachedBy(level, d)
  BY <1>10, <1>11
<1> QED BY <1>1, <1>12

\* The rows of the answer are the nearest of each class.
LEMMA RowsAreNearest ==
  ASSUME EdgesTyped, NEW c \in Classes, NEW direction \in Directions, NEW depth \in Nat
  PROVE  LET rows == Hierarchy(c, direction, depth)
         IN /\ {r.id : r \in rows} = Within(c, direction, depth)
            /\ \A r \in rows : r.depth = 0 \/ r.id \notin Within(c, direction, r.depth - 1)
            /\ direction # "both" => \A q, r \in rows : q.id = r.id => q = r
<1>1. PICK level : /\ IsQuery(level, c, direction, depth)
                   /\ Hierarchy(c, direction, depth) = Distinct(AllRows(level, depth))
  BY QueryLevels DEF IsQuery
<1> DEFINE rows == Hierarchy(c, direction, depth)
           Row(h, d) == [id |-> h[1], depth |-> d, direction |-> h[2]]
<1>2. \A r : r \in AllRows(level, depth) <=> \E d \in 0..depth : \E h \in level[d] : r = Row(h, d)
  BY DEF AllRows
<1>3. \A r : r \in rows <=> /\ r \in AllRows(level, depth)
                            /\ \A q \in AllRows(level, depth) : q.id = r.id => r.depth <= q.depth
  BY <1>1 DEF Distinct
<1>4. \A d \in 0..depth : Within(c, direction, d) = ReachedBy(level, d)
  BY <1>1, WithinReached
<1> HIDE DEF rows
<1>5. ASSUME NEW r \in rows
      PROVE  \E d \in 0..depth : \E h \in level[d] : /\ r = Row(h, d)
                                                     /\ r.id = h[1] /\ r.depth = d
                                                     /\ r.direction = h[2]
  <2>1. PICK d \in 0..depth : \E h \in level[d] : r = Row(h, d)
    BY <1>2, <1>3
  <2>2. PICK h \in level[d] : r = Row(h, d)
    BY <2>1
  <2> QED BY <2>2
<1>6. ASSUME NEW d \in 0..depth, NEW b \in Reach(level, d)
      PROVE  \E q \in AllRows(level, depth) : q.id = b /\ q.depth = d
  <2>1. PICK h \in level[d] : h[1] = b
    BY DEF Reach
  <2>2. Row(h, d) \in AllRows(level, depth)
    BY <1>2
  <2>3. Row(h, d).id = b /\ Row(h, d).depth = d
    BY <2>1
  <2> QED BY <2>2, <2>3
<1>7. {r.id : r \in rows} = Within(c, direction, depth)
  <2>1. depth \in 0..depth
    OBVIOUS
  <2>2. ASSUME NEW r \in rows PROVE r.id \in Within(c, direction, depth)
    <3>1. \E d \in 0..depth : r.id \in Reach(level, d)
      BY <1>5 DEF Reach
    <3> QED BY <1>4, <2>1, <3>1 DEF ReachedBy
  <2>3. ASSUME NEW b \in Within(c, direction, depth) PROVE \E r \in rows : r.id = b
    <3> DEFINE At == {d \in 0..depth : b \in Reach(level, d)}
    <3>1. At # {}
      BY <1>4, <2>1 DEF ReachedBy
    <3>2. At \subseteq Nat
      OBVIOUS
    <3> HIDE DEF At
    <3>3. PICK d \in At : \A k \in At : d <= k
      BY <3>1, <3>2, FirstOf
    <3>4. d \in 0..depth /\ b \in Reach(level, d)
      BY DEF At
    <3>5. PICK q \in AllRows(level, depth) : q.id = b /\ q.depth = d
      BY <1>6, <3>4
    <3>6. ASSUME NEW p \in AllRows(level, depth), p.id = q.id PROVE q.depth <= p.depth
      <4>1. PICK k \in 0..depth : \E h \in level[k] : p = Row(h, k)
        BY <1>2
      <4>2. PICK h \in level[k] : p = Row(h, k)
        BY <4>1
      <4>3. p.id = h[1] /\ p.depth = k
        BY <4>2
      <4>4. k \in At
        BY <3>5, <3>6, <4>3 DEF At, Reach
      <4> QED BY <3>3, <3>5, <4>3, <4>4
    <3> QED BY <1>3, <3>5, <3>6
  <2> QED BY <2>2, <2>3
<1>8. ASSUME NEW r \in rows, r.depth # 0 PROVE r.id \notin Within(c, direction, r.depth - 1)
  <2> SUFFICES ASSUME r.id \in Within(c, direction, r.depth - 1) PROVE FALSE
    OBVIOUS
  <2>1. PICK d \in 0..depth : r.depth = d
    BY <1>5
  <2>2. d - 1 \in 0..depth
    BY <1>8, <2>1
  <2>3. PICK j \in 0..(d - 1) : r.id \in Reach(level, j)
    BY <1>4, <2>1, <2>2 DEF ReachedBy
  <2>4. j \in 0..depth /\ j < d
    BY <2>2
  <2>5. PICK q \in AllRows(level, depth) : q.id = r.id /\ q.depth = j
    BY <1>6, <2>3, <2>4
  <2>6. r.depth <= q.depth
    BY <1>3, <2>5
  <2> QED BY <2>1, <2>4, <2>5, <2>6
<1>9. ASSUME direction # "both", NEW q \in rows, NEW r \in rows, q.id = r.id PROVE q = r
  <2>1. PICK d \in 0..depth : \E h \in level[d] : /\ q = Row(h, d) /\ q.id = h[1] /\ q.depth = d
    BY <1>5
  <2>2. PICK h \in level[d] : q = Row(h, d) /\ q.id = h[1] /\ q.depth = d
    BY <2>1
  <2>3. PICK e \in 0..depth : \E k \in level[e] : /\ r = Row(k, e) /\ r.id = k[1] /\ r.depth = e
    BY <1>5
  <2>4. PICK k \in level[e] : r = Row(k, e) /\ r.id = k[1] /\ r.depth = e
    BY <2>3
  <2>5. d = e
    <3>1. q.depth <= r.depth /\ r.depth <= q.depth
      BY <1>3, <1>9
    <3> QED BY <2>2, <2>4, <3>1
  <2>6. h[2] = k[2]
    <3>1. CASE d = 0
      BY <1>1, <2>5, <3>1, LevelSteps
    <3>2. CASE d # 0
      <4>1. d \in 1..depth /\ direction \in {"parents", "children"}
        BY <1>9, <3>2 DEF Directions
      <4>2. /\ direction = "parents" => h[2] = "parent" /\ k[2] = "parent"
            /\ direction = "children" => h[2] = "child" /\ k[2] = "child"
        BY <1>1, <2>5, <4>1, LevelSteps
      <4> QED BY <4>1, <4>2
    <3> QED BY <3>1, <3>2
  <2> QED BY <1>9, <2>2, <2>4, <2>5, <2>6
<1> QED BY <1>7, <1>8, <1>9 DEF rows

\* Whatever the edges are, every answer is right.
LEMMA TypedIsNearest == EdgesTyped => Nearest
<1> SUFFICES ASSUME EdgesTyped, NEW c \in Classes, NEW direction \in Directions,
                    NEW depth \in 1..MaxDepth
             PROVE  LET rows == Hierarchy(c, direction, depth)
                    IN /\ {r.id : r \in rows} = Within(c, direction, depth)
                       /\ \A r \in rows : \/ r.depth = 0
                                          \/ r.id \notin Within(c, direction, r.depth - 1)
                       /\ direction # "both" => \A q, r \in rows : q.id = r.id => q = r
  BY DEF Nearest
<1>1. depth \in Nat
  OBVIOUS
<1> QED BY <1>1, RowsAreNearest

\* Edges join classes.
LEMMA EdgesStep == EdgesTyped /\ [Next]_vars => EdgesTyped'
<1> SUFFICES ASSUME EdgesTyped, [Next]_vars PROVE EdgesTyped'
  OBVIOUS
<1>1. CASE StoreEdge
  BY <1>1 DEF StoreEdge, EdgesTyped
<1>2. CASE DropEdges
  BY <1>2 DEF DropEdges, EdgesTyped
<1>3. CASE UNCHANGED inherits
  BY <1>3 DEF EdgesTyped
<1>4. StoreEdge \/ DropEdges \/ UNCHANGED inherits
  <2>1. CASE Start
    BY <2>1 DEF Start
  <2>2. CASE ClientConnects
    BY <2>2 DEF ClientConnects
  <2>3. CASE Upload
    BY <2>3 DEF Upload
  <2>4. CASE StopServer
    BY <2>4 DEF StopServer
  <2>5. ASSUME NEW c \in Calls, Post(c) \/ Serve(c) PROVE UNCHANGED inherits
    BY <2>5 DEF Post, Serve
  <2>6. CASE UNCHANGED vars
    BY <2>6 DEF vars
  <2> QED BY <2>1, <2>2, <2>3, <2>4, <2>5, <2>6 DEF Next
<1> QED BY <1>1, <1>2, <1>3, <1>4

(***************************************************************************)
(* Theorem.  After every change of the edges the recursive query of        *)
(* GetClassHierarchy answers with exactly the classes that so many edges   *)
(* lead to, each at its shortest distance, for any classes, depth and      *)
(* edges, diamonds and cycles included.                                    *)
(***************************************************************************)
THEOREM HierarchyIsNearest == Spec => HierarchyNearest
<1>1. Init => EdgesTyped
  BY DEF Init, HierarchyInit, EdgesTyped
<1>2. EdgesTyped' => Nearest'
  BY TypedIsNearest, PTL
<1>3. EdgesTyped /\ [Next]_vars => EdgesTyped' /\ [inherits' # inherits => Nearest']_inherits
  BY <1>2, EdgesStep
<1> QED BY <1>1, <1>3, PTL DEF Spec, HierarchyNearest
=============================================================================
