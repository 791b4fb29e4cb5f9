------------------------------ MODULE Startup ------------------------------
(***************************************************************************)
(* How a replica comes up: main of cmd/web/main.go up to ListenAndServe,   *)
(* with GetConfig and InitClient.  Replicas start together against one     *)
(* database.  Every error ends the process, and the container is started   *)
(* again ("restart: always" in the compose files).                         *)
(***************************************************************************)
EXTENDS Naturals

CONSTANTS
  Replicas,   \* server processes
  Required    \* the environment variables GetConfig asks for

VARIABLES
  env,        \* the environment variables the containers are given
  schema,     \* whether the schema has been created
  phase       \* how far each replica is

Phases == {"down", "config", "ping", "schema", "applying", "migrate",
           "listen", "serving"}

StartupTypeOK ==
  /\ env \subseteq Required
  /\ schema \in BOOLEAN
  /\ phase \in [Replicas -> Phases]

StartupInit ==
  /\ env \in SUBSET Required
  /\ schema = FALSE
  /\ phase = [rep \in Replicas |-> "down"]

Goes(rep, p, r) == phase[rep] = p /\ phase' = [phase EXCEPT ![rep] = r]

\* A panic, or the return of main.
Fails(rep, p) == Goes(rep, p, "down") /\ UNCHANGED <<env, schema>>

\* The container runtime.
Boot(rep) == Goes(rep, "down", "config") /\ UNCHANGED <<env, schema>>

GetConfig(rep) ==
  /\ Goes(rep, "config", IF Required \subseteq env THEN "ping" ELSE "down")
  /\ UNCHANGED <<env, schema>>

\* sql.Open, Ping and the creation of the migrator.
Ping(rep) == Goes(rep, "ping", "schema") /\ UNCHANGED <<env, schema>>

PingFails(rep) == Fails(rep, "ping")

\* Mutated FindSchema: the sentinel error is an error like any other.
FindSchema_Strict(rep) ==
  /\ Goes(rep, "schema", IF schema THEN "down" ELSE "applying")
  /\ UNCHANGED <<env, schema>>

\* ApplySchemaUp begins: ErrSchemaAlreadyInitialised is tolerated.
FindSchema(rep) ==
  /\ Goes(rep, "schema", IF schema THEN "migrate" ELSE "applying")
  /\ UNCHANGED <<env, schema>>

\* Several replicas may get here; the statements say IF NOT EXISTS.
ApplySchema(rep) ==
  /\ Goes(rep, "applying", "migrate")
  /\ schema' = TRUE
  /\ UNCHANGED env

\* Mutated ApplySchemaFails: every error of ApplySchemaUp is tolerated.
ApplySchemaFails_Ignored(rep) ==
  /\ Goes(rep, "applying", "migrate")
  /\ UNCHANGED <<env, schema>>

\* An error, before or after the schema was created.
ApplySchemaFails(rep) ==
  /\ Goes(rep, "applying", "down")
  /\ schema' \in {schema, TRUE}
  /\ UNCHANGED env

ApplyMigration(rep) == Goes(rep, "migrate", "listen") /\ UNCHANGED <<env, schema>>

ApplyMigrationFails(rep) == Fails(rep, "migrate")

Listen(rep) == Goes(rep, "listen", "serving") /\ UNCHANGED <<env, schema>>

ListenFails(rep) == Fails(rep, "listen")

StartupStep(rep) ==
  \/ Boot(rep)
  \/ GetConfig(rep)
  \/ Ping(rep)
  \/ PingFails(rep)
  \/ FindSchema(rep)
  \/ ApplySchema(rep)
  \/ ApplySchemaFails(rep)
  \/ ApplyMigration(rep)
  \/ ApplyMigrationFails(rep)
  \/ Listen(rep)
  \/ ListenFails(rep)

=============================================================================
