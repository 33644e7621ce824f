---------------------------- MODULE MCMigrations ----------------------------
(* The migrations of the repository for TLC: 001_initial.sql creates what  *)
(* is missing on both databases; 002_decision_weights.sql says IF NOT      *)
(* EXISTS on PostgreSQL only.                                              *)
EXTENDS Migrations

Both == {"sqlite", "postgres"}
OnlySQLite == {"sqlite"}
RepeatableFiles == [b \in Backends |-> IF b = "postgres" THEN {1, 2} ELSE {1}]
=============================================================================
