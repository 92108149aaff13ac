------------------------------ MODULE Startup -------------------------------
(***************************************************************************)
(* main up to the start of the server: OpenDB, RunMigrations, New, with    *)
(* the exits in between, the schema that lives on in the database, and the *)
(* container runtime that starts the process again.                        *)
(***************************************************************************)
EXTENDS Pool, Integers

CONSTANT Migrations     \* the number of migrations in the binary

ASSUME MigrationsAssumption == Migrations \in Nat

VARIABLES
    boot,       \* how far main has come
    schema      \* schema_migrations, and the last migration that was executed

Boot == {"down", "open", "driver", "migrate", "body", "clean", "wire", "serving"}
Schema == [version : 0..Migrations, dirty : BOOLEAN, applied : 0..Migrations]

Row(version, dirty, applied) == [version |-> version, dirty |-> dirty, applied |-> applied]

StartupTypeOK == boot \in Boot /\ schema \in Schema

StartupInit ==
    /\ boot = "down"
    /\ schema = Row(0, FALSE, 0)

\* restart: unless-stopped
Start ==
    /\ boot = "down"
    /\ boot' = "open"
    /\ UNCHANGED <<schema, poolVars>>

\* The ping of OpenDB takes a connection and gives it back.
OpenDB ==
    /\ boot = "open"
    /\ boot' = "driver"
    /\ UNCHANGED <<schema, poolVars>>

\* postgres.WithInstance takes a connection of its own. RunMigrations never
\* closes the driver: the pool has one connection less from here on.
WithInstance ==
    /\ boot = "driver"
    /\ boot' = "migrate"
    /\ GetConn("migrate")
    /\ UNCHANGED schema

\* Mutant of MigrateUp: the dirty flag is not looked at.
MigrateUpDirty ==
    /\ boot = "migrate"
    /\ \/ /\ schema.version < Migrations
          /\ schema' = Row(schema.version + 1, TRUE, schema.applied)
          /\ boot' = "body"
       \/ /\ schema.version = Migrations
          /\ boot' = "wire"
          /\ UNCHANGED schema
    /\ UNCHANGED poolVars

\* Mutants of MigrateUp: one version too many; ErrNoChange is an error.
MigrateUpPastEnd ==
    /\ boot = "migrate" /\ ~schema.dirty
    /\ \/ /\ schema.version <= Migrations
          /\ schema' = Row(schema.version + 1, TRUE, schema.applied)
          /\ boot' = "body"
       \/ /\ schema.version = Migrations
          /\ boot' = "wire"
          /\ UNCHANGED schema
    /\ UNCHANGED poolVars
MigrateUpNoChangeExit ==
    /\ boot = "migrate" /\ ~schema.dirty
    /\ \/ /\ schema.version < Migrations
          /\ schema' = Row(schema.version + 1, TRUE, schema.applied)
          /\ boot' = "body"
          /\ UNCHANGED poolVars
       \/ /\ schema.version = Migrations
          /\ boot' = "down"
          /\ owner' = [c \in Conn |-> Nobody] /\ waiting' = {}
          /\ UNCHANGED schema

\* m.Up: the next version is marked dirty before its statements run; without
\* a next one RunMigrations returns.
MigrateUp ==
    /\ boot = "migrate" /\ ~schema.dirty
    /\ \/ /\ schema.version < Migrations
          /\ schema' = Row(schema.version + 1, TRUE, schema.applied)
          /\ boot' = "body"
       \/ /\ schema.version = Migrations
          /\ boot' = "wire"
          /\ UNCHANGED schema
    /\ UNCHANGED poolVars

\* The statements of a migration, one transaction.
MigrateBody ==
    /\ boot = "body"
    /\ boot' = "clean"
    /\ schema' = Row(schema.version, schema.dirty, schema.version)
    /\ UNCHANGED poolVars

MigrateClean ==
    /\ boot = "clean"
    /\ boot' = "migrate"
    /\ schema' = Row(schema.version, FALSE, schema.applied)
    /\ UNCHANGED poolVars

\* New: newMinioClient finds the bucket, the routes are wired, Start runs.
NewServer ==
    /\ boot = "wire"
    /\ boot' = "serving"
    /\ UNCHANGED <<schema, poolVars>>

\* m.Up returns ErrDirty: os.Exit(1).
DirtyFound == boot = "migrate" /\ schema.dirty /\ UNCHANGED schema

\* A call fails: os.Exit(1), or the panic of New. The call may have had its
\* effect on the schema.
StartupFails ==
    /\ boot \notin {"down", "serving"}
    /\ \/ UNCHANGED schema
       \/ /\ boot = "migrate" /\ ~schema.dirty /\ schema.version < Migrations
          /\ schema' = Row(schema.version + 1, TRUE, schema.applied)
       \/ boot = "body" /\ schema' = Row(schema.version, schema.dirty, schema.version)
       \/ boot = "clean" /\ schema' = Row(schema.version, FALSE, schema.applied)

\* An operator repairs a dirty schema while the backend is down (MIGRATIONS.md):
\* complete the migration and mark it clean, or force the version before it and
\* take the changes back.
Repair ==
    /\ boot = "down" /\ schema.dirty
    /\ \/ schema' = Row(schema.version, FALSE, schema.version)
       \/ schema' = Row(schema.version - 1, FALSE, schema.version - 1)
    /\ UNCHANGED <<boot, poolVars>>

StartupNext ==
    \/ Start \/ OpenDB \/ WithInstance \/ MigrateUp \/ MigrateBody
    \/ MigrateClean \/ NewServer
=============================================================================
