------------------------------- MODULE Recordings -------------------------------
(***************************************************************************)
(* The list of call recordings: api/recordings.go. Recordings lie in a     *)
(* year/month/day tree on a file server (external). The handler walks the  *)
(* tree, one listing per request, depth first, newest first, over          *)
(* directories only that can hold days of the range, while calls add       *)
(* recordings and old ones are removed. One recording stands for those of  *)
(* its day; the filter by extension and what is said of a file are left    *)
(* out.                                                                    *)
(***************************************************************************)
EXTENDS Integers, Sequences, FiniteSets

CONSTANTS
  Days,          \* the days on which calls are recorded, <<year, month, day>>
  MaxChanges     \* bound: recordings added or removed

VARIABLES
  tree,          \* the days recorded on the server
  todo,          \* directories still to be listed, the next one first
  range,         \* [from, to]: the range asked for
  out,           \* recordings found so far
  walk,          \* "idle", "walking", "done", "failed"
  stable,        \* history: recordings there since the walk began
  ever,          \* history: recordings there at some time since it began
  changes

vars == <<tree, todo, range, out, walk, stable, ever, changes>>

Earlier(d, e) ==
  \/ d[1] < e[1]
  \/ d[1] = e[1] /\ d[2] < e[2]
  \/ d[1] = e[1] /\ d[2] = e[2] /\ d[3] < e[3]

\* Mutant: the last day is left out.
InRangeExclusive(d) == ~Earlier(d, range.from) /\ Earlier(d, range.to)

InRange(d) == ~Earlier(d, range.from) /\ ~Earlier(range.to, d)

Init ==
  /\ tree \in SUBSET Days
  /\ todo = <<>> /\ out = <<>>
  /\ range \in [from: Days, to: Days]
  /\ walk = "idle"
  /\ stable = {} /\ ever = {}
  /\ changes = 0

--------------------------------------------------------------------------------
(* The file server.                                                        *)

Change ==
  /\ changes < MaxChanges
  /\ changes' = changes + 1
  /\ \/ \E d \in Days \ tree : tree' = tree \cup {d}
     \/ \E d \in tree : tree' = tree \ {d}
  /\ stable' = stable \cap tree'
  /\ ever' = ever \cup tree'
  /\ UNCHANGED <<todo, range, out, walk>>

Under(path) == {d \in tree : SubSeq(d, 1, Len(path)) = path}

--------------------------------------------------------------------------------
(* The handler.                                                            *)

\* The two dates are taken in either order.
Begin ==
  /\ walk = "idle"
  /\ walk' = "walking"
  /\ todo' = << <<>> >>
  /\ range' = IF Earlier(range.to, range.from)
                THEN [from |-> range.to, to |-> range.from] ELSE range
  /\ stable' = tree /\ ever' = tree
  /\ UNCHANGED <<tree, out, changes>>

\* Directories of a listing that are worth a visit: years of the range, any
\* month, days of the range.
Worth(path) ==
  CASE Len(path) = 1 -> range.from[1] <= path[1] /\ path[1] <= range.to[1]
    [] Len(path) = 2 -> TRUE
    [] Len(path) = 3 -> InRange(path)

\* Directories of a listing that are visited.
Dirs(path) == {d \in {SubSeq(f, 1, Len(path) + 1) : f \in Under(path)} : Worth(d)}

Above(path, d) == {e \in Dirs(path) : e[Len(e)] > d[Len(d)]}

\* They are visited by falling name: the i-th has i - 1 of them above it.
descendingDirs(path) ==
  [i \in 1 .. Cardinality(Dirs(path)) |->
     CHOOSE d \in Dirs(path) : Cardinality(Above(path, d)) = i - 1]

\* One listing. A directory that is gone by now is an empty one.
List ==
  /\ walk = "walking" /\ todo # <<>>
  /\ LET path == Head(todo)
     IN  IF Len(path) = 3
           THEN /\ todo' = Tail(todo)
                /\ out' = IF path \in tree THEN Append(out, path) ELSE out
           ELSE /\ todo' = descendingDirs(path) \o Tail(todo)
                /\ out' = out
  /\ UNCHANGED <<tree, range, walk, stable, ever, changes>>

ListFails ==
  /\ walk = "walking" /\ todo # <<>>
  /\ walk' = "failed"
  /\ UNCHANGED <<tree, todo, range, out, stable, ever, changes>>

Answer ==
  /\ walk = "walking" /\ todo = <<>>
  /\ walk' = "done"
  /\ UNCHANGED <<tree, todo, range, out, stable, ever, changes>>

Next == Change \/ Begin \/ List \/ ListFails \/ Answer

Spec == Init /\ [][Next]_vars

--------------------------------------------------------------------------------
(* Properties.                                                             *)

Asked == {d \in Days : ~(Earlier(d, range.from) \/ Earlier(range.to, d))}

\* A list that is answered holds every recording of the range, both its days
\* included, that was there throughout the walk, none that never was, none
\* twice, and newer days before older ones, however the tree changed meanwhile
\* (recordings.go:78-81, 132-134).
WalkShowsStable ==
  walk = "done" =>
    LET found == {out[i] : i \in 1 .. Len(out)}
    IN  /\ stable \cap Asked \subseteq found
        /\ found \subseteq ever \cap Asked
        /\ \A i, j \in 1 .. Len(out) : i < j => out[i] # out[j] /\ ~Earlier(out[i], out[j])
================================================================================
