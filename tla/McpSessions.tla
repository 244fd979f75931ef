----------------------------- MODULE McpSessions -----------------------------
(***************************************************************************)
(* Sessions of MCP clients and their SSE streams: createSession,           *)
(* getSession, handleSSE and handleDeleteSession of internal/mcp/http.go.  *)
(* sendNotification, which would write to the streams, has no caller.      *)
(***************************************************************************)
EXTENDS Sequences, SequencesExt

CONSTANTS SessionIDs, Streams, NoSession

ASSUME SessionAssumption == NoSession \notin SessionIDs

VARIABLES
  created,     \* IDs that were given out; they are random and never given twice
  sessions,    \* IDs in the map of this process
  sseClients,  \* per session struct, the channels in it, in order
  stream       \* per GET: where its handler stands and the session it found

sessionVars == <<created, sessions, sseClients, stream>>

Unopened == [at |-> "none", session |-> NoSession]

SessionsInit ==
  /\ created = {} /\ sessions = {}
  /\ sseClients = [id \in SessionIDs |-> <<>>]
  /\ stream = [s \in Streams |-> Unopened]

\* "initialize" of handlePost, which answers at once.
CreateSession(id) ==
  /\ id \notin created
  /\ created' = created \cup {id} /\ sessions' = sessions \cup {id}
  /\ UNCHANGED <<sseClients, stream>>

\* Streams of the session go on: their handlers hold the struct.
DeleteSession(id) ==
  /\ id \in sessions
  /\ sessions' = sessions \ {id}
  /\ UNCHANGED <<created, sseClients, stream>>

FindSession(s, id) ==
  /\ stream[s].at = "none" /\ id \in sessions
  /\ stream' = [stream EXCEPT ![s] = [at |-> "found", session |-> id]]
  /\ UNCHANGED <<created, sessions, sseClients>>

\* Under the lock of the session.
RegisterStream(s) ==
  LET id == stream[s].session
  IN /\ stream[s].at = "found"
     /\ stream' = [stream EXCEPT ![s].at = "open"]
     /\ sseClients' = [sseClients EXCEPT ![id] = Append(@, s)]
     /\ UNCHANGED <<created, sessions>>

\* Mutant: the slice is cut one element too late.
WithoutNext(clients, s) ==
  LET i == CHOOSE j \in DOMAIN clients : clients[j] = s
  IN IF i < Len(clients) THEN RemoveAt(clients, i + 1) ELSE Front(clients)

Without(clients, s) == RemoveFirst(clients, s)

\* The client hangs up; the deferred function removes the channel under the lock.
UnregisterStream(s) ==
  LET id == stream[s].session
  IN /\ stream[s].at = "open"
     /\ stream' = [stream EXCEPT ![s].at = "closing"]
     /\ sseClients' = [sseClients EXCEPT ![id] = Without(@, s)]
     /\ UNCHANGED <<created, sessions>>

\* close(ch), after the lock is released.
CloseStream(s) ==
  /\ stream[s].at = "closing"
  /\ stream' = [stream EXCEPT ![s] = Unopened]
  /\ UNCHANGED <<created, sessions, sseClients>>

SessionStep ==
  \/ \E id \in SessionIDs : CreateSession(id) \/ DeleteSession(id)
  \/ \E s \in Streams : \/ RegisterStream(s) \/ UnregisterStream(s) \/ CloseStream(s)
                        \/ \E id \in SessionIDs : FindSession(s, id)

\* Nothing of it is stored.
LoseSessions ==
  /\ sessions' = {}
  /\ sseClients' = [id \in SessionIDs |-> <<>>]
  /\ stream' = [s \in Streams |-> Unopened]
  /\ UNCHANGED created
=============================================================================
