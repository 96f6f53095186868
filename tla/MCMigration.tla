------------------------------ MODULE MCMigration ------------------------------
(* A small instance of the migration for TLC. *)
EXTENDS Migration, TLC

CONSTANTS log, journals, marks

OneLog == <<log>>

\* The log may exist and grow once more.
LogGrows == log :> 2 @@ journals :> 1 @@ marks :> 1
================================================================================
