--------------------------------- MODULE Server ---------------------------------
(***************************************************************************)
(* Hub and Shutdown side by side. A shutdown does not touch the hub, whose *)
(* channels stay open: a behaviour exercises one of them, "part", while    *)
(* the other rests.                                                        *)
(***************************************************************************)
EXTENDS Hub

CONSTANTS Handlers     \* of Shutdown

VARIABLES
  part,
  main, expired, pool, handler, left, cut

SD == INSTANCE Shutdown

process == <<main, expired, pool, handler, left, cut>>

ServerInit == part \in {"hub", "shutdown"} /\ Init /\ SD!Init

ServerNext ==
  /\ part' = part
  /\ \/ part = "hub" /\ Next /\ UNCHANGED process
     \/ part = "shutdown" /\ SD!Next /\ UNCHANGED vars

ServerSpec ==
  ServerInit /\ [][ServerNext]_<<part, vars, process>> /\ Fairness /\ SD!Fairness

\* The properties of Shutdown, in that module's words.
Exits            == SD!Exits
CutOnlyByTimeout == SD!CutOnlyByTimeout
================================================================================
