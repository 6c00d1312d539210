---------------------------- MODULE MCMigrations ----------------------------
(* Model checking of Migrations: migrators of releases 2 and 3 and bridges *)
(* of the same releases.  Script 2 changes a table of script 1, as         *)
(* 0002_household_profiles.sql does; version 3 is that of a later release, *)
(* whose script stands on its own.                                         *)
EXTENDS Migrations, TLC

CONSTANTS m1, m2, m3, b1, b2

MCRelease == (m1 :> 2 @@ m2 :> 3 @@ m3 :> 3 @@ b1 :> 2 @@ b2 :> 3)
MCAlters == <<{}, {1}, {}>>
=============================================================================
