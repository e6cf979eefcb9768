----------------------------- MODULE MCMigrate -----------------------------
(* An instance of Migrate for TLC.                                         *)
EXTENDS Migrate, TLC

CONSTANTS u1, u2, e1, j1, j2

Everything == {"die", "delete", "purge", "rollback", "ensureIndexes"}
=============================================================================
