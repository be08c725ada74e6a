-------------------------------- MODULE History --------------------------------
(***************************************************************************)
(* Cdr and Recordings side by side: the records of calls in the database   *)
(* and the recordings of calls on the file server. They share nothing, so  *)
(* a behaviour exercises one of them ("part") and the other is empty.      *)
(***************************************************************************)
EXTENDS Cdr

CONSTANTS Days, MaxChanges     \* of Recordings

\* A day of the tree is three names, all numbers: its year, month and day.
ASSUME DaysAssumption ==
  /\ IsFiniteSet(Days)
  /\ \A d \in Days : d \in Seq(Nat) /\ Len(d) = 3
  /\ MaxChanges \in Nat

VARIABLES
  part,
  tree, todo, range, out, listing, stable, ever, changes

RC == INSTANCE Recordings WITH walk <- listing

recordings == <<tree, todo, range, out, listing, stable, ever, changes>>

HistoryInit ==
  /\ Init /\ RC!Init
  /\ part \in {"records", "recordings"}
  /\ part # "recordings" =>
       LET day == CHOOSE d \in Days : TRUE
       IN  tree = {} /\ range = [from |-> day, to |-> day]

HistoryNext ==
  /\ part' = part
  /\ \/ part = "records" /\ Next /\ UNCHANGED recordings
     \/ part = "recordings" /\ RC!Next /\ UNCHANGED vars

HistorySpec == HistoryInit /\ [][HistoryNext]_<<part, vars, recordings>> /\ Fairness

\* The property of Recordings, in that module's words.
WalkShowsStable == RC!WalkShowsStable
================================================================================
