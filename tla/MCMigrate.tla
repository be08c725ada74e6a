------------------------------- MODULE MCMigrate -------------------------------
(* Migrate for TLC: the last version is the one whose script does not say  *)
(* IF NOT EXISTS, as 000009_push_subscriptions.                            *)
EXTENDS Migrate

CONSTANTS i1, i2, i3

ThreeInstances == {i1, i2, i3}
AllButLast     == 1 .. N - 1
================================================================================
