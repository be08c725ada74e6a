------------------------------ MODULE MCNotifier ------------------------------
(***************************************************************************)
(* Alerts for TLC: one account and one sink; three browsers and two        *)
(* extensions.                                                             *)
(***************************************************************************)
EXTENDS Alerts

CONSTANTS a1, b1, b2, b3, x1, x2

OneAccount    == {a1}
OneSink       == {"webhook"}
ThreeBrowsers == {b1, b2, b3}
TwoExtensions == {x1, x2}
================================================================================
