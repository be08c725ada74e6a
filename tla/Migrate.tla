-------------------------------- MODULE Migrate --------------------------------
(***************************************************************************)
(* Schema migration at start-up: internal/db/migrate.go, called by         *)
(* cmd/api/main.go before the server listens.                              *)
(*                                                                         *)
(* Every instance of the control plane migrates the shared database when   *)
(* it starts. For each version, in order, it asks whether the version is   *)
(* recorded in schema_migrations and, if not, runs the version's script    *)
(* and records it in one transaction. Nothing but PostgreSQL keeps two     *)
(* instances apart: the question is asked outside the transaction. Any     *)
(* error ends the process, which its supervisor starts again               *)
(* (docker-compose.yml: restart: unless-stopped).                          *)
(*                                                                         *)
(* PostgreSQL (external): a script's DDL locks what it creates until its   *)
(* transaction ends. Whoever waited for it then finds the object there: a  *)
(* plain CREATE fails, CREATE ... IF NOT EXISTS does nothing or, if it had *)
(* looked before the other committed, fails on the catalog's unique index. *)
(***************************************************************************)
EXTENDS Naturals

CONSTANTS
  Instances,     \* processes of the control plane
  N,             \* number of versions; 9 in internal/db/migrations
  Idempotent,    \* versions whose script says IF NOT EXISTS throughout
  MaxCrashes,    \* bound: processes killed
  None           \* no instance

Versions == 1 .. N

ASSUME NAssumption == N \in Nat
ASSUME IdempotentAssumption == Idempotent \subseteq Versions
ASSUME NoneAssumption == None \notin Instances

VARIABLES
  tracking,      \* does table schema_migrations exist?
  schema,        \* versions whose objects exist (committed)
  tracked,       \* versions recorded in schema_migrations (committed)
  holder,        \* which open transaction holds a version's objects locked
  pc,            \* where each instance is
  at,            \* position in the loop over the sorted names
  crashes,       \* processes killed so far
  commits        \* history: transactions that committed a version

vars == <<tracking, schema, tracked, holder, pc, at, crashes, commits>>
db   == <<tracking, schema, tracked, holder, commits>>

\* The version at position k of the sorted names.
Version(k) == k

\* A database that never was migrated, or was by an earlier release.
Init ==
  /\ \E k \in 0 .. N :
       /\ tracked = 1 .. k
       /\ tracking \in BOOLEAN
       /\ k > 0 => tracking
  /\ schema = tracked
  /\ holder = [v \in Versions |-> None]
  /\ pc = [i \in Instances |-> "start"]
  /\ at = [i \in Instances |-> 1]
  /\ crashes = 0
  /\ commits = [v \in Versions |-> IF v \in tracked THEN 1 ELSE 0]

Goto(i, from, to) ==
  /\ pc[i] = from
  /\ pc' = [pc EXCEPT ![i] = to]

\* What i's connection held is released: rolled back, or committed.
Release(i) == holder' = [v \in Versions |-> IF holder[v] = i THEN None ELSE holder[v]]

\* Mutant: an instance that cannot migrate serves all the same.
FatalServes(i, from) ==
  /\ Goto(i, from, "serving")
  /\ Release(i)
  /\ UNCHANGED <<tracking, schema, tracked, at, crashes, commits>>

\* An error: the transaction is rolled back and the process exits.
Fatal(i, from) ==
  /\ Goto(i, from, "exited")
  /\ Release(i)
  /\ UNCHANGED <<tracking, schema, tracked, at, crashes, commits>>

--------------------------------------------------------------------------------
\* CREATE TABLE IF NOT EXISTS schema_migrations: the table is looked for ...
LookForTable(i) ==
  /\ Goto(i, "start", IF tracking THEN "check" ELSE "create")
  /\ UNCHANGED <<db, at, crashes>>

\* ... and created. It can have been created meanwhile, which is an error.
CreateTable(i) ==
  \/ /\ ~tracking
     /\ Goto(i, "create", "check")
     /\ tracking' = TRUE
     /\ UNCHANGED <<schema, tracked, holder, at, crashes, commits>>
  \/ tracking /\ Fatal(i, "create")

\* SELECT EXISTS: a recorded version is skipped; after the last one, serve.
CheckUpTo(i, last, recorded) ==
  /\ pc[i] = "check"
  /\ IF at[i] > last
       THEN Goto(i, "check", "serving") /\ at' = at
     ELSE IF recorded
       THEN at' = [at EXCEPT ![i] = @ + 1] /\ pc' = pc
     ELSE Goto(i, "check", "body") /\ at' = at
  /\ UNCHANGED <<db, crashes>>

\* Mutant: the question is answered no whatever is recorded.
CheckBlind(i) == CheckUpTo(i, N, FALSE)

Check(i) == CheckUpTo(i, N, Version(at[i]) \in tracked)

\* Begin and the script. It waits for a transaction that holds its objects.
BodyCommitting(i, done) ==
  LET v == Version(at[i])
  IN  /\ pc[i] = "body"
      /\ holder[v] = None
      /\ \/ /\ v \notin schema
            /\ Goto(i, "body", "insert")
            /\ holder' = [holder EXCEPT ![v] = i]
            /\ schema' = schema \cup done
            /\ UNCHANGED <<tracking, tracked, at, crashes, commits>>
         \/ v \in schema /\ Fatal(i, "body")
         \/ /\ v \in schema /\ v \in Idempotent
            /\ Goto(i, "body", "insert")
            /\ UNCHANGED <<db, at, crashes>>

\* Mutant: the script runs outside the transaction.
BodyOutside(i) == BodyCommitting(i, {Version(at[i])})

Body(i) == BodyCommitting(i, {})

\* INSERT INTO schema_migrations: waits for another transaction's row of the
\* same version; a duplicate key is an error.
Inserting(v) == {i \in Instances : pc[i] = "commit" /\ Version(at[i]) = v}

\* Mutant: ON CONFLICT DO NOTHING.
InsertIgnoring(i) ==
  /\ Inserting(Version(at[i])) = {}
  /\ Goto(i, "insert", "commit")
  /\ UNCHANGED <<db, at, crashes>>

Insert(i) ==
  /\ Inserting(Version(at[i])) = {}
  /\ \/ /\ Version(at[i]) \notin tracked
        /\ Goto(i, "insert", "commit")
        /\ UNCHANGED <<db, at, crashes>>
     \/ Version(at[i]) \in tracked /\ Fatal(i, "insert")

Commit(i) ==
  LET v == Version(at[i])
  IN  /\ Goto(i, "commit", "check")
      /\ schema' = schema \cup {v}
      /\ tracked' = tracked \cup {v}
      /\ commits' = [commits EXCEPT ![v] = @ + 1]
      /\ Release(i)
      /\ at' = [at EXCEPT ![i] = @ + 1]
      /\ UNCHANGED <<tracking, crashes>>

\* The process, or its connection, dies at any moment.
Crash(i) ==
  /\ pc[i] # "exited"
  /\ crashes < MaxCrashes
  /\ crashes' = crashes + 1
  /\ pc' = [pc EXCEPT ![i] = "exited"]
  /\ Release(i)
  /\ UNCHANGED <<tracking, schema, tracked, at, commits>>

Restart(i) ==
  /\ Goto(i, "exited", "start")
  /\ at' = [at EXCEPT ![i] = 1]
  /\ UNCHANGED <<db, crashes>>

Step(i) ==
  \/ LookForTable(i) \/ CreateTable(i)
  \/ Check(i) \/ Body(i) \/ Insert(i) \/ Commit(i)
  \/ Restart(i)

Next == \E i \in Instances : Step(i) \/ Crash(i)

\* Instances run and are restarted when they exit.
Fairness == \A i \in Instances : WF_vars(Step(i))

Spec == Init /\ [][Next]_vars /\ Fairness

--------------------------------------------------------------------------------
(* Properties.                                                             *)

TypeOK ==
  /\ tracking \in BOOLEAN
  /\ schema \subseteq Versions
  /\ tracked \subseteq Versions
  /\ holder \in [Versions -> Instances \cup {None}]
  /\ pc \in [Instances -> {"start", "create", "check", "body", "insert", "commit",
                           "serving", "exited"}]
  /\ at \in [Instances -> 1 .. N + 1]
  /\ \A i \in Instances : pc[i] \in {"body", "insert", "commit"} => at[i] <= N
  /\ crashes \in Nat
  /\ commits \in [Versions -> Nat]

\* However many instances start together and wherever one dies, each version
\* is committed by one transaction only.
CommittedOnce ==
  \A v \in Versions : commits[v] = IF v \in tracked THEN 1 ELSE 0

\* The ledger tells the truth: a version is recorded exactly when its objects
\* exist. A crash between the script and the record leaves neither.
LedgerTrue == schema = tracked

\* No version is ever in place before the ones it builds on.
AppliedInOrder == \A v \in tracked : 1 .. v \subseteq tracked

\* No instance serves requests on a schema it does not know in full.
ServesMigrated ==
  \A i \in Instances : pc[i] = "serving" => tracked = Versions

\* The losers of a race exit, are restarted and find the work done: in the end
\* everybody serves.
EverybodyServes == \A i \in Instances : <>[](pc[i] = "serving")
================================================================================
