----------------------------------- MODULE Esl -----------------------------------
(***************************************************************************)
(* Listener and Runtime side by side. Events and commands take different   *)
(* connections and meet nowhere in the control plane: in a behaviour there *)
(* are either no commands, or a listener that was stopped before it        *)
(* dialled, so that the fairness of either asks nothing of the other.      *)
(***************************************************************************)
EXTENDS Runtime

CONSTANTS MaxEvents, MaxFaults     \* of Listener

ASSUME BoundsAssumption == MaxEvents \in Nat /\ MaxFaults \in Nat

VARIABLES
  part,          \* the one exercised
  phase, backoff, cancelled, conn, feed, up, asked, subscribed, raised, faults,
  published, from

LS == INSTANCE Listener

events == <<phase, backoff, cancelled, conn, feed, up, asked, subscribed, raised,
            faults, published, from>>

Stopped ==
  /\ phase = "ended" /\ backoff = 1 /\ cancelled = TRUE
  /\ conn = "none" /\ feed = <<>> /\ up = TRUE
  /\ asked = "nothing" /\ subscribed = FALSE
  /\ raised = 0 /\ faults = 0 /\ published = <<>> /\ from = 0

EslInit ==
  /\ Init
  /\ \/ part = "events" /\ LS!Init
     \/ part = "commands" /\ Stopped

EslNext ==
  /\ part' = part
  /\ \/ part = "events" /\ LS!Next /\ UNCHANGED vars
     \/ part = "commands" /\ Next /\ UNCHANGED events

EslSpec == EslInit /\ [][EslNext]_<<part, vars, events>> /\ Fairness /\ LS!Fairness

\* The properties of Listener, in that module's words.
PublishedInOrder == LS!PublishedInOrder
NoGapInSession   == LS!NoGapInSession
Reconnects       == LS!Reconnects
Stops            == LS!Stops
================================================================================
