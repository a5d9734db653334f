------------------------- MODULE MCMigrationImport -------------------------
(* A package with an asset that is uploaded in parts and one that is not. *)
EXTENDS MigrationImport, TLC

CONSTANTS a1, a2, r1, r2

AssetsDef == {a1, a2}
MultipartDef == {a1}
RequestsDef == {r1, r2}

\* Requests differ in nothing, and nothing here is about liveness.
Symmetry == Permutations(RequestsDef)

=============================================================================
