----------------------------- MODULE ServerLife -----------------------------
(***************************************************************************)
(* A server process from its start to its end: initBackends of             *)
(* internal/mcp/server.go with the migrations of internal/migrations,      *)
(* RunHTTP of http.go, and whoever starts the process again.               *)
(***************************************************************************)
EXTENDS Integers

CONSTANTS MigrationFiles,  \* embedded .sql files, applied in lexical order
          MaxStops         \* bound of the model: how often a serving process ends

ASSUME LifeAssumption == MigrationFiles \in Nat /\ MaxStops \in Nat

VARIABLES
  phase,      \* "down", "starting" or "serving"
  applied,    \* files this process has applied
  schema,     \* files the database has seen, by any process
  stops       \* processes that ended while they served

lifeVars == <<phase, applied, schema, stops>>

LifeInit == phase = "down" /\ applied = 0 /\ schema = {} /\ stops = 0

\* NewStore has reached PostgreSQL; the other clients connect at their first request.
ConnectStore ==
  /\ phase = "down"
  /\ phase' = "starting" /\ applied' = 0
  /\ UNCHANGED <<schema, stops>>

\* One file is one bundle of statements in one implicit transaction, and nothing
\* records which files were applied before.
Migrate ==
  /\ phase = "starting" /\ applied < MigrationFiles
  /\ applied' = applied + 1
  /\ schema' = schema \cup {applied + 1}
  /\ UNCHANGED <<phase, stops>>

\* Mutant: a failure at the start is logged and the server goes on without.
ServeAnyway ==
  /\ phase = "starting"
  /\ phase' = "serving"
  /\ UNCHANGED <<applied, schema, stops>>

\* A migration, the environment or the pipeline fails: the process exits.
StartFails ==
  /\ phase = "starting"
  /\ phase' = "down"
  /\ UNCHANGED <<applied, schema, stops>>

Listen ==
  /\ phase = "starting" /\ applied = MigrationFiles
  /\ phase' = "serving"
  /\ UNCHANGED <<applied, schema, stops>>

LifeStep == ConnectStore \/ Migrate \/ StartFails \/ Listen

Stop ==
  /\ phase = "serving" /\ stops < MaxStops
  /\ phase' = "down" /\ stops' = stops + 1
  /\ UNCHANGED <<applied, schema>>
=============================================================================
