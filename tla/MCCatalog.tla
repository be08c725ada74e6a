------------------------------- MODULE MCCatalog -------------------------------
(***************************************************************************)
(* Catalog for TLC: two queues and an agent; two profiles, rooms and       *)
(* numbers.                                                                *)
(***************************************************************************)
EXTENDS Catalog, TLC

CONSTANTS q1, q2, a1, f1, f2, r1, r2, x1, x2

TwoQueues   == {q1, q2}
OneAgent    == {a1}
TwoProfiles == {f1, f2}
TwoRooms    == {r1, r2}
TwoPlaces   == {x1, x2}

\* No definition of Conference tells one name or number from another.
Renamings ==
  Permutations(TwoProfiles) \cup Permutations(TwoRooms) \cup Permutations(TwoPlaces)
================================================================================
