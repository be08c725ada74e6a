------------------------------- MODULE MCHistory -------------------------------
(***************************************************************************)
(* History for TLC: three calls with a uuid, the first of them the last to *)
(* be started and two of them in the same second, and one without a uuid;  *)
(* recordings on four days of two years, two of them in one month.         *)
(***************************************************************************)
EXTENDS History

FourCalls    == 1..4
TwoSlots     == 1..2
UuidOf       == <<"a", "b", "c", NoUuid>>
StartOf      == <<2, 1, 1, 3>>
AnsweredOnes == {1, 3}
AskedLimits  == {0, 2}
FourDays     == {<<1, 1, 1>>, <<1, 2, 1>>, <<2, 1, 1>>, <<2, 1, 2>>}
================================================================================
