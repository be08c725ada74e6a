---------------------------- MODULE MCDialplanStore ----------------------------
(***************************************************************************)
(* Store for TLC: one extension at first and ids for two more, two writers *)
(* and a reader; two users with two passwords. In MCDialplanStoreTorn one  *)
(* extension and one writer.                                               *)
(***************************************************************************)
EXTENDS Store

CONSTANTS e1, e2, e3, w1, w2, r1, u1, u2, p1, p2

OneId        == {e1}
ThreeIds     == {e1, e2, e3}
OneWriter    == {w1}
TwoWriters   == {w1, w2}
OneReader    == {r1}
TwoUsers     == {u1, u2}
TwoPasswords == {p1, p2}
================================================================================
