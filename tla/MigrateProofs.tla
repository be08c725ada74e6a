----------------------------- MODULE MigrateProofs -----------------------------
(***************************************************************************)
(* Safety of start-up migration for any number of instances, versions and  *)
(* crashes.                                                                *)
(***************************************************************************)
EXTENDS Migrate, TLAPS

(***************************************************************************)
(* Type correctness.                                                       *)
(***************************************************************************)
LEMMA InitTypeOK == Init => TypeOK
<1> SUFFICES ASSUME Init
             PROVE  TypeOK
  OBVIOUS
<1>1. tracked \subseteq Versions
  BY NAssumption DEF Init, Versions
<1>2. commits \in [Versions -> Nat]
  BY DEF Init
<1>3. at \in [Instances -> 1 .. N + 1]
  BY NAssumption DEF Init
<1>4. QED
  BY <1>1, <1>2, <1>3 DEF Init, TypeOK

\* Releasing locks and going somewhere outside the transaction keeps the types.
LEMMA FatalTypeOK ==
  ASSUME TypeOK, NEW i \in Instances, NEW from, Fatal(i, from)
  PROVE  TypeOK'
  BY DEF TypeOK, Fatal, Goto, Release

LEMMA NextTypeOK == TypeOK /\ [Next]_vars => TypeOK'
<1> SUFFICES ASSUME TypeOK, [Next]_vars
             PROVE  TypeOK'
  OBVIOUS
<1> USE NAssumption DEF db, Goto
<1>1. ASSUME NEW i \in Instances, LookForTable(i)
      PROVE  TypeOK'
  BY <1>1 DEF LookForTable, TypeOK
<1>2. ASSUME NEW i \in Instances, CreateTable(i)
      PROVE  TypeOK'
  <2>1. CASE tracking
    BY <1>2, <2>1, FatalTypeOK DEF CreateTable
  <2>2. CASE ~tracking
    BY <1>2, <2>2 DEF CreateTable, TypeOK
  <2>3. QED
    BY <2>1, <2>2
<1>3. ASSUME NEW i \in Instances, Check(i)
      PROVE  TypeOK'
  <2>1. CASE at[i] > N
    BY <1>3, <2>1 DEF Check, CheckUpTo, TypeOK
  <2>2. CASE ~(at[i] > N) /\ Version(at[i]) \in tracked
    BY <1>3, <2>2 DEF Check, CheckUpTo, TypeOK
  <2>3. CASE ~(at[i] > N) /\ Version(at[i]) \notin tracked
    BY <1>3, <2>3 DEF Check, CheckUpTo, TypeOK
  <2>4. QED
    BY <2>1, <2>2, <2>3
<1>4. ASSUME NEW i \in Instances, Body(i)
      PROVE  TypeOK'
  <2>1. at[i] \in Versions
    BY <1>4 DEF Body, BodyCommitting, TypeOK, Versions
  <2>2. CASE Fatal(i, "body")
    BY <2>2, FatalTypeOK
  <2>3. CASE ~Fatal(i, "body")
    BY <1>4, <2>1, <2>3 DEF Body, BodyCommitting, Version, TypeOK
  <2>4. QED
    BY <2>2, <2>3
<1>5. ASSUME NEW i \in Instances, Insert(i)
      PROVE  TypeOK'
  <2>1. CASE Fatal(i, "insert")
    BY <2>1, FatalTypeOK
  <2>2. CASE ~Fatal(i, "insert")
    BY <1>5, <2>2 DEF Insert, TypeOK
  <2>3. QED
    BY <2>1, <2>2
<1>6. ASSUME NEW i \in Instances, Commit(i)
      PROVE  TypeOK'
  <2>1. at[i] \in 1 .. N
    BY <1>6 DEF Commit, TypeOK
  <2>2. at' \in [Instances -> 1 .. N + 1]
    BY <1>6, <2>1 DEF Commit, TypeOK
  <2>3. commits' \in [Versions -> Nat]
    BY <1>6, <2>1 DEF Commit, Version, Versions, TypeOK
  <2>4. /\ schema' \subseteq Versions /\ tracked' \subseteq Versions
        /\ holder' \in [Versions -> Instances \cup {None}]
    BY <1>6, <2>1 DEF Commit, Release, Version, Versions, TypeOK
  <2>5. /\ pc' = [pc EXCEPT ![i] = "check"]
        /\ at' = [at EXCEPT ![i] = @ + 1]
        /\ UNCHANGED <<tracking, crashes>>
    BY <1>6 DEF Commit
  <2>6. \A j \in Instances : pc'[j] \in {"body", "insert", "commit"} => at'[j] <= N
    BY <2>5 DEF TypeOK
  <2>7. QED
    BY <2>2, <2>3, <2>4, <2>5, <2>6 DEF TypeOK
<1>7. ASSUME NEW i \in Instances, Crash(i)
      PROVE  TypeOK'
  BY <1>7 DEF Crash, Release, TypeOK
<1>8. ASSUME NEW i \in Instances, Restart(i)
      PROVE  TypeOK'
  BY <1>8 DEF Restart, TypeOK
<1>9. CASE UNCHANGED vars
  BY <1>9 DEF vars, TypeOK
<1>10. QED
  BY <1>1, <1>2, <1>3, <1>4, <1>5, <1>6, <1>7, <1>8, <1>9 DEF Next, Step

--------------------------------------------------------------------------------
(***************************************************************************)
(* The inductive invariant. CommittedOnce needs to know that whoever is    *)
(* about to commit a version is alone with it and that it is not recorded  *)
(* (the primary key of schema_migrations sees to that, not the question    *)
(* asked before). AppliedInOrder and ServesMigrated need that everything   *)
(* below an instance's position has been recorded.                         *)
(***************************************************************************)
AloneAtCommit ==
  \A i \in Instances : pc[i] = "commit" =>
    /\ at[i] \notin tracked
    /\ \A j \in Instances : pc[j] = "commit" /\ at[j] = at[i] => j = i

RecordedBelow == \A i \in Instances : \A v \in Versions : v < at[i] => v \in tracked

Ledger == CommittedOnce /\ LedgerTrue /\ AppliedInOrder

IInv == TypeOK /\ Ledger /\ ServesMigrated /\ AloneAtCommit /\ RecordedBelow

LEMMA InitIInv == Init => IInv
<1> SUFFICES ASSUME Init
             PROVE  IInv
  OBVIOUS
<1>1. TypeOK
  BY InitTypeOK
<1>2. CommittedOnce /\ LedgerTrue /\ AppliedInOrder
  BY NAssumption DEF Init, CommittedOnce, LedgerTrue, AppliedInOrder, Versions
<1>3. ServesMigrated /\ AloneAtCommit /\ RecordedBelow
  BY DEF Init, ServesMigrated, AloneAtCommit, RecordedBelow, Versions
<1>4. QED
  BY <1>1, <1>2, <1>3 DEF IInv, Ledger

\* A step that leaves the ledger alone, sends one instance somewhere other than
\* to "commit" or "serving" and no position up keeps the invariant.
LEMMA LeaveKeepsIInv ==
  ASSUME IInv, TypeOK', NEW i \in Instances, NEW to,
         to \notin {"commit", "serving"},
         pc' = [pc EXCEPT ![i] = to],
         at' = at \/ at' = [at EXCEPT ![i] = 1],
         UNCHANGED <<schema, tracked, commits>>
  PROVE  IInv'
<1>1. \A j \in Instances :
        pc'[j] \in {"commit", "serving"} => pc'[j] = pc[j] /\ at'[j] = at[j]
  BY DEF IInv, TypeOK
<1>2. Ledger'
  BY DEF IInv, Ledger, CommittedOnce, LedgerTrue, AppliedInOrder
<1>3. ServesMigrated'
  BY <1>1 DEF IInv, ServesMigrated
<1>4. AloneAtCommit'
  BY <1>1 DEF IInv, AloneAtCommit
<1>5. RecordedBelow'
  <2>1. CASE at' = at
    BY <2>1 DEF IInv, RecordedBelow
  <2>2. CASE at' = [at EXCEPT ![i] = 1]
    BY <2>2, NAssumption DEF IInv, RecordedBelow, TypeOK, Versions
  <2>3. QED
    BY <2>1, <2>2
<1>6. QED
  BY <1>2, <1>3, <1>4, <1>5 DEF IInv

LEMMA NextIInv == IInv /\ [Next]_vars => IInv'
<1> SUFFICES ASSUME IInv, [Next]_vars
             PROVE  IInv'
  OBVIOUS
<1>0. TypeOK /\ TypeOK'
  BY NextTypeOK DEF IInv
<1>a. \A j \in Instances : at[j] \in Nat
  BY <1>0, NAssumption DEF TypeOK
<1> USE <1>0 DEF db, Goto
<1>1. ASSUME NEW i \in Instances, LookForTable(i)
      PROVE  IInv'
  <2>1. CASE tracking
    BY <1>1, <2>1, LeaveKeepsIInv DEF LookForTable
  <2>2. CASE ~tracking
    BY <1>1, <2>2, LeaveKeepsIInv DEF LookForTable
  <2>3. QED
    BY <2>1, <2>2
\* An error sends the instance to "exited".
<1>f. ASSUME NEW i \in Instances, NEW from, Fatal(i, from)
      PROVE  IInv'
  BY <1>f, LeaveKeepsIInv DEF Fatal
<1>2. ASSUME NEW i \in Instances, CreateTable(i)
      PROVE  IInv'
  <2>1. CASE tracking
    BY <1>2, <1>f, <2>1 DEF CreateTable
  <2>2. CASE ~tracking
    BY <1>2, <2>2, LeaveKeepsIInv DEF CreateTable
  <2>3. QED
    BY <2>1, <2>2
<1>3. ASSUME NEW i \in Instances, Check(i)
      PROVE  IInv'
  <2>0. UNCHANGED <<schema, tracked, commits>>
    BY <1>3 DEF Check, CheckUpTo
  <2>1. CASE at[i] > N
    <3>1. pc' = [pc EXCEPT ![i] = "serving"] /\ at' = at
      BY <1>3, <2>1 DEF Check, CheckUpTo
    <3>0. \A v \in Versions : v < at[i]
      BY <1>a, <2>1, NAssumption DEF Versions
    <3>2. tracked = Versions
      BY <3>0 DEF IInv, RecordedBelow, TypeOK
    <3>3. ServesMigrated' /\ AloneAtCommit'
      BY <2>0, <3>1, <3>2 DEF IInv, ServesMigrated, AloneAtCommit, TypeOK
    <3>4. QED
      BY <2>0, <3>1, <3>3
         DEF IInv, Ledger, CommittedOnce, LedgerTrue, AppliedInOrder, RecordedBelow
  <2>2. CASE ~(at[i] > N) /\ Version(at[i]) \in tracked
    <3>1. pc' = pc /\ at' = [at EXCEPT ![i] = @ + 1] /\ at[i] \in tracked
      BY <1>3, <2>2 DEF Check, CheckUpTo, Version
    <3>2. RecordedBelow'
      BY <1>a, <2>0, <3>1 DEF IInv, RecordedBelow, TypeOK, Versions
    <3>3. AloneAtCommit'
      BY <1>3, <2>0, <3>1 DEF IInv, AloneAtCommit, TypeOK, Check, CheckUpTo
    <3>4. QED
      BY <2>0, <3>1, <3>2, <3>3
         DEF IInv, Ledger, CommittedOnce, LedgerTrue, AppliedInOrder, ServesMigrated
  <2>3. CASE ~(at[i] > N) /\ Version(at[i]) \notin tracked
    BY <1>3, <2>3, LeaveKeepsIInv DEF Check, CheckUpTo
  <2>4. QED
    BY <2>1, <2>2, <2>3
<1>4. ASSUME NEW i \in Instances, Body(i)
      PROVE  IInv'
  <2>1. CASE Fatal(i, "body")
    BY <1>f, <2>1
  <2>2. CASE ~Fatal(i, "body")
    <3>1. pc' = [pc EXCEPT ![i] = "insert"] /\ UNCHANGED <<schema, tracked, commits, at>>
      BY <1>4, <2>2 DEF Body, BodyCommitting
    <3>2. QED
      BY <3>1, LeaveKeepsIInv
  <2>3. QED
    BY <2>1, <2>2
<1>5. ASSUME NEW i \in Instances, Insert(i)
      PROVE  IInv'
  <2>1. CASE Fatal(i, "insert")
    BY <1>f, <2>1
  <2>2. CASE ~Fatal(i, "insert")
    <3>1. /\ pc' = [pc EXCEPT ![i] = "commit"]
          /\ at[i] \notin tracked
          /\ \A j \in Instances : ~(pc[j] = "commit" /\ at[j] = at[i])
          /\ UNCHANGED <<schema, tracked, commits, at>>
      BY <1>5, <2>2 DEF Insert, Inserting, Version
    <3>2. AloneAtCommit' /\ ServesMigrated'
      BY <3>1 DEF IInv, AloneAtCommit, ServesMigrated, TypeOK
    <3>3. QED
      BY <3>1, <3>2
         DEF IInv, Ledger, CommittedOnce, LedgerTrue, AppliedInOrder, RecordedBelow
  <2>3. QED
    BY <2>1, <2>2
<1>6. ASSUME NEW i \in Instances, Commit(i)
      PROVE  IInv'
  <2>1. /\ pc[i] = "commit" /\ at[i] \in Versions
        /\ pc' = [pc EXCEPT ![i] = "check"]
        /\ at' = [at EXCEPT ![i] = @ + 1]
        /\ schema' = schema \cup {at[i]}
        /\ tracked' = tracked \cup {at[i]}
        /\ commits' = [commits EXCEPT ![at[i]] = @ + 1]
    BY <1>6 DEF Commit, Version, Versions, TypeOK
  <2>2. at[i] \notin tracked
    BY <2>1 DEF IInv, AloneAtCommit
  <2>3. CommittedOnce' /\ LedgerTrue'
    BY <2>1, <2>2 DEF IInv, Ledger, CommittedOnce, LedgerTrue, TypeOK
  <2>4. AppliedInOrder'
    <3>1. \A v \in Versions : v < at[i] => v \in tracked
      BY DEF IInv, RecordedBelow
    <3>2. 1 .. at[i] \subseteq tracked'
      BY <1>a, <2>1, <3>1, NAssumption DEF Versions
    <3>3. QED
      BY <2>1, <3>2 DEF IInv, Ledger, AppliedInOrder
  <2>5. ServesMigrated'
    BY <2>1 DEF IInv, ServesMigrated, TypeOK
  <2>6. AloneAtCommit'
    BY <2>1 DEF IInv, AloneAtCommit, TypeOK
  <2>7. RecordedBelow'
    BY <1>a, <2>1 DEF IInv, RecordedBelow, TypeOK, Versions
  <2>8. QED
    BY <2>3, <2>4, <2>5, <2>6, <2>7 DEF IInv, Ledger
<1>7. ASSUME NEW i \in Instances, Crash(i)
      PROVE  IInv'
  BY <1>7, LeaveKeepsIInv DEF Crash
<1>8. ASSUME NEW i \in Instances, Restart(i)
      PROVE  IInv'
  BY <1>8, LeaveKeepsIInv DEF Restart
<1>9. CASE UNCHANGED vars
  BY <1>9 DEF vars, IInv, Ledger, CommittedOnce, LedgerTrue, AppliedInOrder,
              ServesMigrated, AloneAtCommit, RecordedBelow
<1>10. QED
  BY <1>1, <1>2, <1>3, <1>4, <1>5, <1>6, <1>7, <1>8, <1>9 DEF Next, Step

LEMMA IInvAlways == Spec => []IInv
<1>1. QED
  BY InitIInv, NextIInv, PTL DEF Spec

\* Every reachable state is well typed.
THEOREM Typing == Spec => []TypeOK
<1>1. IInv => TypeOK
  BY DEF IInv
<1>2. QED
  BY <1>1, IInvAlways, PTL

\* Instances racing and dying at any moment, every version is committed by one
\* transaction.
THEOREM EachVersionOnce == Spec => []CommittedOnce
<1>1. IInv => CommittedOnce
  BY DEF IInv, Ledger
<1>2. QED
  BY <1>1, IInvAlways, PTL

\* The versions in place are always the recorded ones, with no hole below.
THEOREM LedgerSound == Spec => [](LedgerTrue /\ AppliedInOrder)
<1>1. IInv => LedgerTrue /\ AppliedInOrder
  BY DEF IInv, Ledger
<1>2. QED
  BY <1>1, IInvAlways, PTL

\* Whoever serves does so on the complete schema.
THEOREM ServingMeansMigrated == Spec => []ServesMigrated
<1>1. IInv => ServesMigrated
  BY DEF IInv
<1>2. QED
  BY <1>1, IInvAlways, PTL
================================================================================
