----------------------------- MODULE Migration -----------------------------
(***************************************************************************)
(* The one-shot `migrate` container that runs before the backend           *)
(* (docker-compose.yml): scripts/detect_migration_baseline.ts and          *)
(* services/migration_baseline.ts say what the database holds, and under   *)
(* `sh -e` the shell goes on to `prisma migrate resolve` and `deploy`.     *)
(*                                                                         *)
(* The database is the product's tables, with what is wrong about them,    *)
(* the tables of others, and Prisma's record of the one migration.  Prisma *)
(* itself is external: it notes that the migration begins, runs the script *)
(* as one transaction, and notes that it is finished.                      *)
(***************************************************************************)
EXTENDS Naturals, FiniteSets

CONSTANT Shapes  \* databases that the product may meet

VARIABLES
  shape,   \* the product's tables, their flaws, and are there other tables?
  record,  \* of the migration in _prisma_migrations
  migrate  \* how far the container is

migrationVars == <<shape, record, migrate>>

\* What the columns, keys and checks of tables that exist can lack.
Flaws == {"column", "type", "nullable", "default", "extra", "key", "check"}
Shape ==
  {s \in [present : {"none", "some", "all"}, flaws : SUBSET Flaws, others : BOOLEAN] :
     s.present = "none" => s.flaws = {}}

ASSUME MigrationAssumption == Shapes \subseteq Shape

Complete(s) == s.present = "all" /\ s.flaws = {}

----------------------------------------------------------------------------
\* Fault: the assessment looks at the tables and their columns.
AssessColumns(s, r) ==
  CASE r = "applied"      -> "already-migrated"
    [] s.present = "none" -> "fresh"
    [] s.present = "all" /\ s.flaws \subseteq {"key", "check"} -> "compatible"
    [] OTHER              -> "incompatible"

\* Fault: a migration that was begun counts.
AssessBegun(s, r) ==
  CASE r # "none"          -> "already-migrated"
    [] s.present = "none" -> "fresh"
    [] Complete(s)        -> "compatible"
    [] OTHER              -> "incompatible"

(* assessMigrationBaseline; inspect counts the migrations that are         *)
(* finished and not rolled back.                                           *)
Assess(s, r) ==
  CASE r = "applied"      -> "already-migrated"
    [] s.present = "none" -> "fresh"
    [] Complete(s)        -> "compatible"
    [] OTHER              -> "incompatible"

\* `docker compose up`, the first or another.
Run ==
  /\ migrate \in {"new", "failed", "interrupted"}
  /\ migrate' = "detecting"
  /\ UNCHANGED <<shape, record>>

(* runBaselineDetector exits with 2 for an incompatible database and with  *)
(* 1 when it cannot read it.                                               *)
Detect ==
  /\ migrate = "detecting"
  /\ \/ migrate' = "failed"
     \/ CASE Assess(shape, record) = "incompatible" -> migrate' = "failed"
          [] Assess(shape, record) = "compatible"   -> migrate' = "resolving"
          [] OTHER                                  -> migrate' = "deploying"
  /\ UNCHANGED <<shape, record>>

\* resolve --applied takes the place of a record that was only begun.
Resolve ==
  /\ migrate = "resolving"
  /\ record' = "applied" /\ migrate' = "deploying"
  /\ UNCHANGED shape

(* deploy refuses a database with an unfinished migration (P3009), and one *)
(* with tables that nothing was ever recorded for (P3005).                 *)
Deploy ==
  /\ migrate = "deploying"
  /\ CASE record = "applied" -> migrate' = "done" /\ UNCHANGED record
       [] record = "none" /\ shape.present = "none" /\ ~shape.others
                             -> migrate' = "applying" /\ record' = "begun"
       [] OTHER              -> migrate' = "failed" /\ UNCHANGED record
  /\ UNCHANGED shape

ApplyScript ==
  /\ migrate = "applying" /\ migrate' = "applied"
  /\ shape' = [shape EXCEPT !.present = "all"]
  /\ UNCHANGED record

RecordFinished ==
  /\ migrate = "applied" /\ migrate' = "done"
  /\ record' = "applied"
  /\ UNCHANGED shape

\* The container or the database dies.
Interrupted ==
  /\ migrate \notin {"new", "done", "failed", "interrupted"}
  /\ migrate' = "interrupted"
  /\ UNCHANGED <<shape, record>>

MigrationInit ==
  /\ shape \in Shapes
  /\ record \in IF Complete(shape) THEN {"none", "applied"} ELSE {"none"}
  /\ migrate = "new"

MigrationNext ==
  \/ Run \/ Detect \/ Resolve \/ Deploy
  \/ ApplyScript \/ RecordFinished \/ Interrupted

----------------------------------------------------------------------------
(* A run that finds the tables complete ends well unless it is cut short,  *)
(* also after one that died between the script and its record.             *)
AdoptsItsTables ==
  [][(Complete(shape) /\ migrate = "deploying" /\ migrate' # migrate) =>
        migrate' \in {"done", "interrupted"}]_migrationVars
=============================================================================
