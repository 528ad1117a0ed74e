---------------------------- MODULE MCMigrations ----------------------------
(***************************************************************************)
(* Model checking of Migrations.                                           *)
(***************************************************************************)
EXTENDS Migrations
=============================================================================
