-------------------------- MODULE MCMigrationExport --------------------------
(* Two executions of an export that may be retried as often as the code has it. *)
EXTENDS MigrationExport

CONSTANTS g1, g2

ExecutionsDef == {g1, g2}

=============================================================================
