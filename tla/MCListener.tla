------------------------------ MODULE MCListener ------------------------------
(***************************************************************************)
(* Esl for TLC: two requests; three events and six faults.                 *)
(***************************************************************************)
EXTENDS Esl

CONSTANTS r1, r2

TwoRequests == {r1, r2}
================================================================================
