--------------------------------- MODULE MCHub ---------------------------------
(***************************************************************************)
(* Server for TLC: one publisher, two subscribers, three handlers.         *)
(***************************************************************************)
EXTENDS Server

CONSTANTS p1, s1, s2, h1, h2, h3

OnePublisher   == {p1}
TwoSubscribers == {s1, s2}
ThreeHandlers  == {h1, h2, h3}
================================================================================
