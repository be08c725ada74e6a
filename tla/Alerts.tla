--------------------------------- MODULE Alerts ---------------------------------
(***************************************************************************)
(* Notifier and WebPush side by side. The notifier starts the sender of    *)
(* pushes and never hears of it again: a behaviour exercises one of them,  *)
(* "part", while the other rests.                                          *)
(***************************************************************************)
EXTENDS Notifier

CONSTANTS Browsers, Extensions, Nowhere, MaxChanges     \* of WebPush

ASSUME NowhereAssumption == Nowhere \notin Extensions

VARIABLES
  part,
  row, wanted, known, send, tried, steady, touched, changes

WP == INSTANCE WebPush

pushing == <<row, wanted, known, send, tried, steady, touched, changes>>

AlertInit == part \in {"notifier", "push"} /\ Init /\ WP!Init

AlertNext ==
  /\ part' = part
  /\ \/ part = "notifier" /\ Next /\ UNCHANGED pushing
     \/ part = "push" /\ WP!Next /\ UNCHANGED vars

AlertSpec == AlertInit /\ [][AlertNext]_<<part, vars, pushing>> /\ Fairness

\* The property of WebPush, in that module's words.
TellsTheSubscribed == WP!TellsTheSubscribed
================================================================================
