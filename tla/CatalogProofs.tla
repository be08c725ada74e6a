----------------------------- MODULE CatalogProofs -----------------------------
(***************************************************************************)
(* What holds of the call centre and of the conferences for any queues,    *)
(* agents, profiles, rooms, numbers and number of writes.                  *)
(*                                                                         *)
(* The call centre. Soundness of the tables is inductive together with     *)
(* their types: a deletion takes with it the tiers that would refer to     *)
(* nothing, and a creation looks for its key and its references in the     *)
(* same statement. What the document shows rests on Snapshots: each table  *)
(* it has read is the table of one of the states the read went through.    *)
(***************************************************************************)
EXTENDS Catalog, TLAPS

Answers == {"none", "ok", "already_exists", "not_found"}

Inv == TypeOK /\ TiersResolve

\* Rows that a write may leave behind.
Fits(Q, A, T) ==
  /\ Q \subseteq QueueRow /\ A \subseteq AgentRow /\ T \subseteq TierRow
  /\ \A t \in T : (\E q \in Q : q.name = t.queue) /\ (\E a \in A : a.name = t.agent)
  /\ \A q, r \in Q : q.name = r.name => q = r
  /\ \A a, b \in A : a.name = b.name => a = b
  /\ \A t, u \in T : t.queue = u.queue /\ t.agent = u.agent => t = u

LEMMA FitsSound ==
  ASSUME NEW Q, NEW A, NEW T, Fits(Q, A, T)
  PROVE  LET d == [queues |-> Q, agents |-> A, tiers |-> T]
         IN  d \in Tables /\ Sound(d)
BY DEF Fits, Tables, Sound, HasQueue, HasAgent

LEMMA InvFits == Inv => Fits(db.queues, db.agents, db.tiers)
BY DEF Inv, TypeOK, TiersResolve, Fits, Tables, Sound, HasQueue, HasAgent

LEMMA InitInv == Init => Inv
<1> SUFFICES ASSUME Init PROVE Inv
  OBVIOUS
<1> PICK Q \in SUBSET QueueNames, A \in SUBSET AgentNames :
      \E T \in SUBSET (Q \X A) :
        db = [queues |-> {[name |-> q, by |-> 0] : q \in Q},
              agents |-> {[name |-> a, by |-> 0] : a \in A},
              tiers  |-> {[queue |-> t[1], agent |-> t[2], by |-> 0] : t \in T}]
  BY DEF Init
<1> PICK T \in SUBSET (Q \X A) :
      db = [queues |-> {[name |-> q, by |-> 0] : q \in Q},
            agents |-> {[name |-> a, by |-> 0] : a \in A},
            tiers  |-> {[queue |-> t[1], agent |-> t[2], by |-> 0] : t \in T}]
  OBVIOUS
<1> DEFINE QQ == {[name |-> q, by |-> 0] : q \in Q}
           AA == {[name |-> a, by |-> 0] : a \in A}
           TT == {[queue |-> t[1], agent |-> t[2], by |-> 0] : t \in T}
<1>1. Fits(QQ, AA, TT)
  <2>1. /\ QQ \subseteq QueueRow /\ AA \subseteq AgentRow /\ TT \subseteq TierRow
    BY DEF QueueRow, AgentRow, TierRow, Writer
  <2>2. \A t \in TT : (\E q \in QQ : q.name = t.queue) /\ (\E a \in AA : a.name = t.agent)
    <3> SUFFICES ASSUME NEW u \in T
                 PROVE  /\ \E q \in QQ : q.name = u[1]
                        /\ \E a \in AA : a.name = u[2]
      OBVIOUS
    <3>1. [name |-> u[1], by |-> 0] \in QQ /\ [name |-> u[2], by |-> 0] \in AA
      OBVIOUS
    <3> HIDE DEF QQ, AA
    <3>2. QED
      BY <3>1
  <2>3. \A q, r \in QQ : q.name = r.name => q = r
    OBVIOUS
  <2>4. \A a, b \in AA : a.name = b.name => a = b
    OBVIOUS
  <2>5. \A t, u \in TT : t.queue = u.queue /\ t.agent = u.agent => t = u
    OBVIOUS
  <2>6. QED
    BY <2>1, <2>2, <2>3, <2>4, <2>5 DEF Fits
<1>2. db \in Tables /\ Sound(db)
  BY <1>1, FitsSound
<1>3. QED
  BY <1>2 DEF Init, Inv, TypeOK, TiersResolve, Tables, Nothing, Writer

LEMMA ByType == Inv => By \in Writer
<1>1. Inv => writes \in Nat
  BY DEF Inv, TypeOK, Writer
<1>2. QED
  BY <1>1 DEF By, Writer

\* A write that leaves rows that fit keeps the invariant, and so does a refusal.
LEMMA CommitKeeps ==
  ASSUME Inv, NEW Q, NEW A, NEW T, Fits(Q, A, T), Commit(Q, A, T)
  PROVE  Inv'
<1>1. db' \in Tables /\ Sound(db')
  BY FitsSound DEF Commit
<1>2. seen' \subseteq Tables
  BY <1>1 DEF Commit, Inv, TypeOK
<1>3. writes' \in Writer
  BY ByType DEF Commit, By
<1>4. TypeOK'
  BY <1>1, <1>2, <1>3 DEF Commit, Inv, TypeOK
<1>5. QED
  BY <1>1, <1>4 DEF Inv, TiersResolve

LEMMA RefuseKeeps ==
  ASSUME Inv, NEW why \in Answers, Refuse(why)
  PROVE  Inv'
BY DEF Inv, TypeOK, TiersResolve, Refuse, reader, Answers

\* What each write leaves fits.
LEMMA QueuesFit ==
  ASSUME Inv, NEW n \in QueueNames
  PROVE  /\ ~HasQueue(db, n) =>
              Fits(db.queues \cup {[name |-> n, by |-> By]}, db.agents, db.tiers)
         /\ \A q \in db.queues : q.name = n =>
              Fits((db.queues \ {q}) \cup {[q EXCEPT !.by = By]}, db.agents, db.tiers)
         /\ Fits({q \in db.queues : q.name # n}, db.agents,
                 {t \in db.tiers : t.queue # n})
<1> USE InvFits DEF Fits
<1>0. By \in Writer
  BY ByType
<1>1. ASSUME ~HasQueue(db, n)
      PROVE  Fits(db.queues \cup {[name |-> n, by |-> By]}, db.agents, db.tiers)
  BY <1>0, <1>1 DEF HasQueue, QueueRow
<1>2. ASSUME NEW q \in db.queues, q.name = n
      PROVE  Fits((db.queues \ {q}) \cup {[q EXCEPT !.by = By]}, db.agents, db.tiers)
  <2> DEFINE new == [name |-> n, by |-> By]
  <2>1. [q EXCEPT !.by = By] = new /\ new \in QueueRow
    BY <1>0, <1>2 DEF QueueRow
  <2>2. \A r \in db.queues \ {q} : r.name # n
    BY <1>2
  <2>3. ASSUME NEW t \in db.tiers
        PROVE  \E r \in (db.queues \ {q}) \cup {new} : r.name = t.queue
    <3>1. PICK r \in db.queues : r.name = t.queue
      OBVIOUS
    <3>2. CASE r = q
      <4>1. new.name = t.queue
        BY <1>2, <3>1, <3>2
      <4>2. QED
        BY <4>1
    <3>3. CASE r # q
      BY <3>1, <3>3
    <3>4. QED
      BY <3>2, <3>3
  <2>4. QED
    BY <2>1, <2>2, <2>3
<1>3. Fits({q \in db.queues : q.name # n}, db.agents, {t \in db.tiers : t.queue # n})
  OBVIOUS
<1>4. QED
  BY <1>1, <1>2, <1>3

LEMMA AgentsFit ==
  ASSUME Inv, NEW n \in AgentNames
  PROVE  /\ ~HasAgent(db, n) =>
              Fits(db.queues, db.agents \cup {[name |-> n, by |-> By]}, db.tiers)
         /\ \A a \in db.agents : a.name = n =>
              Fits(db.queues, (db.agents \ {a}) \cup {[a EXCEPT !.by = By]}, db.tiers)
         /\ Fits(db.queues, {a \in db.agents : a.name # n},
                 db.tiers \ {t \in db.tiers : t.agent = n})
<1> USE InvFits DEF Fits
<1>0. By \in Writer
  BY ByType
<1>1. ASSUME ~HasAgent(db, n)
      PROVE  Fits(db.queues, db.agents \cup {[name |-> n, by |-> By]}, db.tiers)
  BY <1>0, <1>1 DEF HasAgent, AgentRow
<1>2. ASSUME NEW a \in db.agents, a.name = n
      PROVE  Fits(db.queues, (db.agents \ {a}) \cup {[a EXCEPT !.by = By]}, db.tiers)
  <2> DEFINE new == [name |-> n, by |-> By]
  <2>1. [a EXCEPT !.by = By] = new /\ new \in AgentRow
    BY <1>0, <1>2 DEF AgentRow
  <2>2. \A b \in db.agents \ {a} : b.name # n
    BY <1>2
  <2>3. ASSUME NEW t \in db.tiers
        PROVE  \E b \in (db.agents \ {a}) \cup {new} : b.name = t.agent
    <3>1. PICK b \in db.agents : b.name = t.agent
      OBVIOUS
    <3>2. CASE b = a
      <4>1. new.name = t.agent
        BY <1>2, <3>1, <3>2
      <4>2. QED
        BY <4>1
    <3>3. CASE b # a
      BY <3>1, <3>3
    <3>4. QED
      BY <3>2, <3>3
  <2>4. QED
    BY <2>1, <2>2, <2>3
<1>3. Fits(db.queues, {a \in db.agents : a.name # n},
           db.tiers \ {t \in db.tiers : t.agent = n})
  OBVIOUS
<1>4. QED
  BY <1>1, <1>2, <1>3

LEMMA TiersFit ==
  ASSUME Inv, NEW q \in QueueNames, NEW a \in AgentNames
  PROVE  /\ HasQueue(db, q) /\ HasAgent(db, a) /\ Tier(q, a) = {} =>
              Fits(db.queues, db.agents,
                   db.tiers \cup {[queue |-> q, agent |-> a, by |-> By]})
         /\ \A t \in Tier(q, a) :
              Fits(db.queues, db.agents, (db.tiers \ {t}) \cup {[t EXCEPT !.by = By]})
         /\ Fits(db.queues, db.agents, db.tiers \ Tier(q, a))
<1> USE InvFits DEF Fits
<1> DEFINE new == [queue |-> q, agent |-> a, by |-> By]
<1>0. new \in TierRow
  BY ByType DEF TierRow
<1>1. ASSUME HasQueue(db, q), HasAgent(db, a), Tier(q, a) = {}
      PROVE  Fits(db.queues, db.agents, db.tiers \cup {new})
  BY <1>0, <1>1 DEF HasQueue, HasAgent, Tier
<1>2. ASSUME NEW t \in Tier(q, a)
      PROVE  Fits(db.queues, db.agents, (db.tiers \ {t}) \cup {[t EXCEPT !.by = By]})
  <2>1. t \in db.tiers /\ t.queue = q /\ t.agent = a
    BY DEF Tier
  <2>2. [t EXCEPT !.by = By] = new
    BY <2>1 DEF TierRow
  <2>3. QED
    BY <1>0, <2>1, <2>2
<1>3. Fits(db.queues, db.agents, db.tiers \ Tier(q, a))
  OBVIOUS
<1>4. QED
  BY <1>1, <1>2, <1>3

LEMMA NextInv == Inv /\ [Next]_vars => Inv'
<1> SUFFICES ASSUME Inv, [Next]_vars PROVE Inv'
  OBVIOUS
<1>1. ASSUME NEW n \in QueueNames,
             CreateCCQueue(n) \/ UpdateCCQueue(n) \/ DeleteCCQueue(n)
      PROVE  Inv'
  BY <1>1, CommitKeeps, RefuseKeeps, QueuesFit
     DEF CreateCCQueue, UpdateCCQueue, DeleteCCQueue, Answers
<1>2. ASSUME NEW n \in AgentNames,
             CreateCCAgent(n) \/ UpdateCCAgent(n) \/ DeleteCCAgent(n)
      PROVE  Inv'
  BY <1>2, CommitKeeps, RefuseKeeps, AgentsFit
     DEF CreateCCAgent, UpdateCCAgent, DeleteCCAgent, DeleteCCAgentAnd, Answers
<1>3. ASSUME NEW q \in QueueNames, NEW a \in AgentNames,
             CreateCCTier(q, a) \/ UpdateCCTier(q, a) \/ DeleteCCTier(q, a)
      PROVE  Inv'
  BY <1>3, CommitKeeps, RefuseKeeps, TiersFit
     DEF CreateCCTier, UpdateCCTier, DeleteCCTier, Answers
<1>4. CASE Begin
  BY <1>4 DEF Begin, After, Inv, TypeOK, TiersResolve, Sound, HasQueue, HasAgent
<1>5. CASE Query
  <2>1. pc \in {"queues", "agents", "tiers"}
    BY <1>5 DEF Query, Reading, Inv, TypeOK
  <2>2. Listed(pc) = db[pc]
    BY <2>1 DEF Listed, ListCCQueues, ListCCAgents, ListCCTiers
  <2>3. document' \in Tables
    BY <1>5, <2>1, <2>2 DEF Query, Inv, TypeOK, Tables
  <2>4. pc' \in {"agents", "tiers", "served"}
    BY <1>5, <2>1 DEF Query, After
  <2>5. QED
    BY <1>5, <2>3, <2>4 DEF Query, Inv, TypeOK, TiersResolve
<1>6. CASE QueryFails
  BY <1>6 DEF QueryFails, Nothing, Inv, TypeOK, TiersResolve, Tables
<1>7. CASE UNCHANGED vars
  BY <1>7 DEF vars, Inv, TypeOK, TiersResolve
<1>8. QED
  BY <1>1, <1>2, <1>3, <1>4, <1>5, <1>6, <1>7 DEF Next, Write

LEMMA Invariance == Spec => []Inv
BY InitInv, NextInv, PTL DEF Spec

\* The tables, the answers and the document keep their types.
THEOREM Typing == Spec => []TypeOK
<1>1. Inv => TypeOK
  BY DEF Inv
<1>2. QED
  BY <1>1, Invariance, PTL

\* In every state each tier binds an agent to a queue, both of which exist, and
\* keys are unique: store/callcenter.go, with the keys of 000002_callcenter.
THEOREM References == Spec => []TiersResolve
<1>1. Inv => TiersResolve
  BY DEF Inv
<1>2. QED
  BY <1>1, Invariance, PTL

\* A document of serveCallcenterConf lacks the queue or the agent of one of its
\* tiers only when that one is there by then.
THEOREM Newborn == Spec => DanglingIsNewborn
<1> DEFINE Step ==
      pc # "served" /\ pc' = "served" =>
        \A t \in document'.tiers :
          /\ HasQueue(document', t.queue) \/ HasQueue(db, t.queue)
          /\ HasAgent(document', t.agent) \/ HasAgent(db, t.agent)
<1>1. ASSUME Inv, [Next]_vars, pc # "served", pc' = "served",
             NEW t \in document'.tiers
      PROVE  /\ HasQueue(document', t.queue) \/ HasQueue(db, t.queue)
             /\ HasAgent(document', t.agent) \/ HasAgent(db, t.agent)
  <2>1. Query
    <3>1. ASSUME NEW Q, NEW A, NEW T, Commit(Q, A, T) PROVE pc' = pc
      BY <3>1 DEF Commit
    <3>2. ASSUME NEW why, Refuse(why) PROVE pc' = pc
      BY <3>2 DEF Refuse, reader
    <3>3. ~Write
      BY <1>1, <3>1, <3>2
         DEF Write, CreateCCQueue, UpdateCCQueue, DeleteCCQueue, CreateCCAgent,
             UpdateCCAgent, DeleteCCAgent, DeleteCCAgentAnd, CreateCCTier,
             UpdateCCTier, DeleteCCTier
    <3>4. ~Begin /\ ~QueryFails /\ ~UNCHANGED vars
      BY <1>1 DEF Begin, After, QueryFails, vars
    <3>5. QED
      BY <1>1, <3>3, <3>4 DEF Next
  <2>2. pc = "tiers"
    <3>1. pc \in {"queues", "agents", "tiers"} /\ After[pc] = "served"
      BY <1>1, <2>1 DEF Query, Reading, Inv, TypeOK
    <3>2. After["queues"] = "agents" /\ After["agents"] = "tiers"
      BY DEF After
    <3>3. QED
      BY <3>1, <3>2
  <2>3. document'.tiers = db.tiers
    BY <1>1, <2>1, <2>2 DEF Query, Listed, ListCCTiers, Inv, TypeOK, Tables
  <2>4. QED
    BY <1>1, <2>3 DEF Inv, TiersResolve, Sound
<1>2. Inv /\ [Next]_vars => [Step]_vars
  BY <1>1
<1>3. QED
  BY <1>2, Invariance, PTL DEF Spec, DanglingIsNewborn
--------------------------------------------------------------------------------
(* What the document shows of a table that changes while it is read.       *)

TableNames == {"queues", "agents", "tiers"}

\* The queries are over that come before the one at pc.
Queried(table) ==
  \/ pc = "served"
  \/ pc = "agents" /\ table = "queues"
  \/ pc = "tiers" /\ table \in {"queues", "agents"}

\* Each table read is that of one of the states since the read began, of which
\* the present one is the last.
Snapshots ==
  /\ Reading => db \in seen
  /\ \A table \in TableNames :
       Queried(table) => \E d \in seen : document[table] = d[table]

\* A write adds the state it leaves to those of a read under way.
LEMMA WriteSeen ==
  ASSUME Write
  PROVE  /\ UNCHANGED <<pc, document>>
         /\ \/ db' = db /\ seen' = seen
            \/ seen' = IF Reading THEN seen \cup {db'} ELSE seen
<1>1. ASSUME NEW Q, NEW A, NEW T, Commit(Q, A, T)
      PROVE  /\ UNCHANGED <<pc, document>>
             /\ seen' = IF Reading THEN seen \cup {db'} ELSE seen
  BY <1>1 DEF Commit
<1>2. ASSUME NEW why, Refuse(why)
      PROVE  UNCHANGED <<pc, document, db, seen>>
  BY <1>2 DEF Refuse, reader
<1>3. QED
  BY <1>1, <1>2
     DEF Write, CreateCCQueue, UpdateCCQueue, DeleteCCQueue, CreateCCAgent,
         UpdateCCAgent, DeleteCCAgent, DeleteCCAgentAnd, CreateCCTier,
         UpdateCCTier, DeleteCCTier

LEMMA SnapshotsStep == Inv /\ Snapshots /\ [Next]_vars => Snapshots'
<1> SUFFICES ASSUME Inv, Snapshots, [Next]_vars PROVE Snapshots'
  OBVIOUS
<1>1. CASE Write
  <2>1. UNCHANGED <<pc, document>> /\ seen \subseteq seen' /\ (Reading => db' \in seen')
    BY <1>1, WriteSeen DEF Snapshots
  <2>2. QED
    BY <2>1 DEF Snapshots, Queried, Reading
<1>2. CASE Begin
  BY <1>2 DEF Begin, After, Snapshots, Queried, Reading, TableNames
<1>3. CASE Query
  <2>1. pc \in TableNames
    BY <1>3 DEF Query, Reading, Inv, TypeOK, TableNames
  <2>2. Listed(pc) = db[pc]
    BY <2>1 DEF Listed, ListCCQueues, ListCCAgents, ListCCTiers, TableNames
  <2>3. UNCHANGED <<db, seen>> /\ db \in seen /\ pc' = After[pc]
    BY <1>3 DEF Query, Snapshots
  <2>4. /\ document'[pc] = db[pc]
        /\ \A table \in TableNames \ {pc} : document'[table] = document[table]
    <3>1. document \in Tables
      BY DEF Inv, TypeOK
    <3>2. document' = [document EXCEPT ![pc] = db[pc]]
      BY <1>3, <2>2 DEF Query
    <3>3. QED
      BY <2>1, <3>1, <3>2 DEF Tables, TableNames
  <2>5. \A table \in TableNames : Queried(table)' => Queried(table) \/ table = pc
    BY <2>1, <2>3 DEF Queried, After, TableNames
  <2>6. QED
    BY <2>3, <2>4, <2>5 DEF Snapshots
<1>4. CASE QueryFails
  BY <1>4 DEF QueryFails, Snapshots, Queried, Reading
<1>5. CASE UNCHANGED vars
  BY <1>5 DEF vars, Snapshots, Queried, Reading
<1>6. QED
  BY <1>1, <1>2, <1>3, <1>4, <1>5 DEF Next

\* A document of serveCallcenterConf holds each row that was there throughout
\* its three queries and none that never was, whatever was written meanwhile.
THEOREM Stable == Spec => []StableRowsServed
<1>1. Init => Snapshots
  BY DEF Init, Snapshots, Queried, Reading
<1>2. Snapshots => StableRowsServed
  <2> SUFFICES ASSUME Snapshots, pc = "served", NEW table \in TableNames
               PROVE  LET ever == UNION {d[table] : d \in seen}
                      IN  /\ document[table] \subseteq ever
                          /\ {row \in ever : \A d \in seen : row \in d[table]}
                                \subseteq document[table]
    BY DEF StableRowsServed, TableNames
  <2>1. PICK d \in seen : document[table] = d[table]
    BY DEF Snapshots, Queried
  <2>2. QED
    BY <2>1
<1>3. QED
  BY <1>1, <1>2, SnapshotsStep, Invariance, PTL DEF Spec
--------------------------------------------------------------------------------
(* The conferences. That a call finds its profile rests on two facts that  *)
(* are inductive together: rooms refer to profiles that exist, and while   *)
(* the call is between its two requests a room that was not touched is     *)
(* still a row.                                                            *)

CallAnswers == {"none", "ok", "already_exists", "not_found", "conflict",
                "internal_error"}

\* Between the requests, an untouched room is still there.
RoomStays == callPc = "conference.conf" /\ kept => room \subseteq rooms

CallInv == CF!TypeOK /\ CF!RoomsResolve /\ RoomStays /\ CF!CallFindsProfile

\* Rows that a write may leave behind.
RoomsFitIn(P, R) ==
  /\ P \subseteq CF!ProfileRow /\ R \subseteq CF!RoomRow
  /\ \A r \in R : \E p \in P : p.name = r.profile
  /\ \A p, q \in P : p.name = q.name => p = q
  /\ \A r, q \in R : r.name = q.name \/ r.place = q.place => r = q

LEMMA CallInvFits == CallInv => RoomsFitIn(profiles, rooms)
BY DEF CallInv, CF!TypeOK, CF!RoomsResolve, RoomsFitIn, CF!HasProfile

LEMMA CallByType == CallInv => CF!By \in CF!Writer
<1>1. CallInv => roomWrites \in Nat
  BY DEF CallInv, CF!TypeOK, CF!Writer
<1>2. QED
  BY <1>1 DEF CF!By, CF!Writer

LEMMA CallInitInv == CF!Init => CallInv
<1> SUFFICES ASSUME CF!Init PROVE CallInv
  OBVIOUS
<1> PICK P \in SUBSET ProfileNames :
      /\ profiles = {[name |-> p, by |-> 0] : p \in P}
      /\ rooms \in SUBSET [name: RoomNames, place: Places, profile: P,
                           enabled: BOOLEAN, by: {0}]
  BY DEF CF!Init
<1>1. profiles \subseteq CF!ProfileRow /\ rooms \subseteq CF!RoomRow
  BY DEF CF!ProfileRow, CF!RoomRow, CF!Writer
<1>2. \A r \in rooms : CF!HasProfile(r.profile)
  <2> SUFFICES ASSUME NEW r \in rooms PROVE CF!HasProfile(r.profile)
    OBVIOUS
  <2>1. [name |-> r.profile, by |-> 0] \in profiles
    OBVIOUS
  <2>2. QED
    BY <2>1 DEF CF!HasProfile
<1>3. \A p, q \in profiles : p.name = q.name => p = q
  OBVIOUS
<1>4. CF!RoomsResolve
  BY <1>2, <1>3 DEF CF!RoomsResolve, CF!Init
<1>5. CF!TypeOK
  <2>1. roomWrites \in CF!Writer
    BY DEF CF!Init, CF!Writer
  <2>2. QED
    BY <1>1, <2>1 DEF CF!Init, CF!TypeOK
<1>6. QED
  BY <1>4, <1>5 DEF CF!Init, CallInv, RoomStays, CF!CallFindsProfile

\* A write that leaves rows that fit keeps the invariant, and so does a refusal.
LEMMA CallCommitKeeps ==
  ASSUME CallInv, NEW P, NEW R, RoomsFitIn(P, R), CF!Commit(P, R)
  PROVE  CallInv'
<1>1. /\ profiles' = P /\ rooms' = R /\ UNCHANGED CF!caller
      /\ kept' = (kept /\ room \subseteq R)
  BY DEF CF!Commit
<1>2. CF!RoomsResolve'
  BY <1>1 DEF RoomsFitIn, CF!RoomsResolve, CF!HasProfile
<1>3. roomWrites' \in CF!Writer
  BY CallByType DEF CF!Commit, CF!By
<1>4. roomAnswer' \in CallAnswers
  BY DEF CF!Commit, CallAnswers
<1>5. kept' \in BOOLEAN
  BY <1>1
<1>6. CF!TypeOK'
  BY <1>1, <1>3, <1>4, <1>5 DEF RoomsFitIn, CallInv, CF!TypeOK, CF!caller, CallAnswers
<1>7. RoomStays' /\ CF!CallFindsProfile'
  BY <1>1 DEF CallInv, RoomStays, CF!CallFindsProfile, CF!caller
<1>8. QED
  BY <1>2, <1>6, <1>7 DEF CallInv

LEMMA CallRefuseKeeps ==
  ASSUME CallInv,
         NEW why \in {"already_exists", "not_found", "conflict", "internal_error"},
         CF!Refuse(why)
  PROVE  CallInv'
<1>1. UNCHANGED <<profiles, rooms, roomWrites, callPc, room, conf, kept>>
  BY DEF CF!Refuse, CF!tables, CF!caller
<1>2. roomAnswer' \in CallAnswers
  BY DEF CF!Refuse, CallAnswers
<1>3. QED
  BY <1>1, <1>2
     DEF CallInv, CF!TypeOK, CF!RoomsResolve, CF!HasProfile, RoomStays,
         CF!CallFindsProfile, CallAnswers

\* What each write leaves fits.
LEMMA ProfilesFit ==
  ASSUME CallInv, NEW n \in ProfileNames
  PROVE  /\ ~CF!HasProfile(n) =>
              RoomsFitIn(profiles \cup {[name |-> n, by |-> CF!By]}, rooms)
         /\ \A p \in profiles : p.name = n =>
              RoomsFitIn((profiles \ {p}) \cup {[p EXCEPT !.by = CF!By]}, rooms)
         /\ ~CF!Used(n) => RoomsFitIn({p \in profiles : p.name # n}, rooms)
<1> USE CallInvFits DEF RoomsFitIn
<1> DEFINE new == [name |-> n, by |-> CF!By]
<1>0. new \in CF!ProfileRow
  BY CallByType DEF CF!ProfileRow
<1>1. ASSUME ~CF!HasProfile(n)
      PROVE  RoomsFitIn(profiles \cup {new}, rooms)
  BY <1>0, <1>1 DEF CF!HasProfile
<1>2. ASSUME NEW p \in profiles, p.name = n
      PROVE  RoomsFitIn((profiles \ {p}) \cup {[p EXCEPT !.by = CF!By]}, rooms)
  <2>1. [p EXCEPT !.by = CF!By] = new
    BY <1>2 DEF CF!ProfileRow
  <2>2. \A q \in profiles \ {p} : q.name # n
    BY <1>2
  <2>3. ASSUME NEW r \in rooms
        PROVE  \E q \in (profiles \ {p}) \cup {new} : q.name = r.profile
    <3>1. PICK q \in profiles : q.name = r.profile
      OBVIOUS
    <3>2. CASE q = p
      <4>1. new.name = r.profile
        BY <1>2, <3>1, <3>2
      <4>2. QED
        BY <4>1
    <3>3. CASE q # p
      BY <3>1, <3>3
    <3>4. QED
      BY <3>2, <3>3
  <2>4. QED
    BY <1>0, <2>1, <2>2, <2>3
<1>3. ASSUME ~CF!Used(n)
      PROVE  RoomsFitIn({p \in profiles : p.name # n}, rooms)
  BY <1>3 DEF CF!Used
<1>4. QED
  BY <1>1, <1>2, <1>3

LEMMA RoomsFit ==
  ASSUME CallInv, NEW n \in RoomNames, NEW b \in CF!Body
  PROVE  /\ CF!HasProfile(b.profile) /\ CF!Room(n) = {} /\ CF!At(b.place) = {} =>
              RoomsFitIn(profiles, rooms \cup {CF!RowOf(n, b)})
         /\ CF!HasProfile(b.profile) /\ CF!At(b.place) \ CF!Room(n) = {} =>
              RoomsFitIn(profiles, (rooms \ CF!Room(n)) \cup {CF!RowOf(n, b)})
         /\ RoomsFitIn(profiles, rooms \ CF!Room(n))
<1> USE CallInvFits DEF RoomsFitIn
<1>1. /\ CF!RowOf(n, b) \in CF!RoomRow
      /\ CF!RowOf(n, b).name = n
      /\ CF!RowOf(n, b).place = b.place
      /\ CF!RowOf(n, b).profile = b.profile
  BY CallByType DEF CF!RowOf, CF!RoomRow, CF!Body
<1>2. RoomsFitIn(profiles, rooms \ CF!Room(n))
  OBVIOUS
<1>3. ASSUME CF!HasProfile(b.profile), CF!At(b.place) \ CF!Room(n) = {}
      PROVE  RoomsFitIn(profiles, (rooms \ CF!Room(n)) \cup {CF!RowOf(n, b)})
  <2>1. \A r \in rooms \ CF!Room(n) : r.name # n /\ r.place # b.place
    BY <1>3 DEF CF!Room, CF!At
  <2>2. QED
    BY <1>1, <1>3, <2>1 DEF CF!HasProfile
<1>4. ASSUME CF!Room(n) = {}
      PROVE  /\ rooms \ CF!Room(n) = rooms
             /\ CF!At(b.place) \ CF!Room(n) = CF!At(b.place)
  BY <1>4
<1>5. QED
  BY <1>2, <1>3, <1>4

LEMMA CallNextInv == CallInv /\ [CF!Next]_CF!vars => CallInv'
<1> SUFFICES ASSUME CallInv, [CF!Next]_CF!vars PROVE CallInv'
  OBVIOUS
<1>1. ASSUME NEW n \in ProfileNames,
             \/ CF!CreateConferenceProfile(n) \/ CF!UpdateConferenceProfile(n)
             \/ CF!DeleteConferenceProfile(n)
      PROVE  CallInv'
  BY <1>1, CallCommitKeeps, CallRefuseKeeps, ProfilesFit
     DEF CF!CreateConferenceProfile, CF!UpdateConferenceProfile,
         CF!DeleteConferenceProfile,
         CF!DeleteProfileUnless
<1>2. ASSUME NEW n \in RoomNames, NEW b \in CF!Body, CF!CreateConferenceRoom(n, b)
      PROVE  CallInv'
  BY <1>2, CallCommitKeeps, CallRefuseKeeps, RoomsFit DEF CF!CreateConferenceRoom
<1>3. ASSUME NEW n \in RoomNames, NEW b \in CF!Body, CF!UpdateConferenceRoom(n, b)
      PROVE  CallInv'
  BY <1>3, CallCommitKeeps, CallRefuseKeeps, RoomsFit DEF CF!UpdateConferenceRoom
<1>4. ASSUME NEW n \in RoomNames, CF!DeleteConferenceRoom(n)
      PROVE  CallInv'
  <2>1. RoomsFitIn(profiles, rooms \ CF!Room(n))
    BY CallInvFits DEF RoomsFitIn
  <2>2. QED
    BY <1>4, <2>1, CallCommitKeeps, CallRefuseKeeps DEF CF!DeleteConferenceRoom
<1>5. ASSUME NEW p \in Places, CF!Dial(p)
      PROVE  CallInv'
  <2>1. /\ UNCHANGED <<profiles, rooms, roomWrites, roomAnswer, conf, kept>>
        /\ room' \subseteq rooms
        /\ callPc' \in {"elsewhere", "conference.conf"}
    BY <1>5 DEF CF!Dial, CF!Extensions, CF!At, CF!tables
  <2>2. QED
    BY <2>1
       DEF CallInv, CF!TypeOK, CF!RoomsResolve, CF!HasProfile, RoomStays,
           CF!CallFindsProfile
<1>6. CASE CF!FetchConf
  <2>1. /\ UNCHANGED <<profiles, rooms, roomWrites, roomAnswer, room, kept>>
        /\ conf' = profiles
        /\ callPc = "conference.conf" /\ callPc' \in {"files", "served"}
    BY <1>6 DEF CF!FetchConf, CF!tables
  <2>2. CF!CallFindsProfile'
    BY <2>1
       DEF CallInv, RoomStays, CF!CallFindsProfile, CF!RoomsResolve, CF!HasProfile
  <2>3. QED
    BY <2>1, <2>2 DEF CallInv, CF!TypeOK, CF!RoomsResolve, CF!HasProfile, RoomStays
<1>7. CASE CF!QueryFails
  <2>1. /\ UNCHANGED <<profiles, rooms, roomWrites, roomAnswer, room, conf, kept>>
        /\ callPc' \in {"elsewhere", "failed"}
    BY <1>7 DEF CF!QueryFails, CF!tables
  <2>2. QED
    BY <2>1
       DEF CallInv, CF!TypeOK, CF!RoomsResolve, CF!HasProfile, RoomStays,
           CF!CallFindsProfile
<1>8. CASE UNCHANGED CF!vars
  BY <1>8
     DEF CF!vars, CallInv, CF!TypeOK, CF!RoomsResolve, CF!HasProfile, RoomStays,
         CF!CallFindsProfile
<1>9. QED
  BY <1>1, <1>2, <1>3, <1>4, <1>5, <1>6, <1>7, <1>8 DEF CF!Next, CF!Write, CF!Call

LEMMA CallInvariance == CF!Spec => []CallInv
BY CallInitInv, CallNextInv, PTL DEF CF!Spec

\* The tables, the answers and the call keep their types.
THEOREM CallTyping == CF!Spec => []CF!TypeOK
<1>1. CallInv => CF!TypeOK
  BY DEF CallInv
<1>2. QED
  BY <1>1, CallInvariance, PTL

\* In every state each room has its profile, and no two share a name or a number
\* of a context: store/conference.go, with the keys of 000003_conference.
THEOREM RoomReferences == CF!Spec => []CF!RoomsResolve
<1>1. CallInv => CF!RoomsResolve
  BY DEF CallInv
<1>2. QED
  BY <1>1, CallInvariance, PTL

\* A call that handleXMLDialplan sent to a room finds the room's profile in the
\* answer of serveConferenceConf, unless the room was changed or deleted.
THEOREM ProfileFound == CF!Spec => []CallFindsProfile
<1>1. CallInv => CallFindsProfile
  BY DEF CallInv, CallFindsProfile
<1>2. QED
  BY <1>1, CallInvariance, PTL
--------------------------------------------------------------------------------
(* The two of them, as they are run together.                              *)

\* A behaviour of Catalog is one of each part, so that what is proved of a part
\* holds of what the run checks.
THEOREM Together ==
  CatalogSpec => /\ [](TiersResolve /\ StableRowsServed /\ CallFindsProfile)
                 /\ DanglingIsNewborn
<1>1. CatalogInit => Init /\ CF!Init
  BY DEF CatalogInit
<1>2. [CatalogNext]_<<part, vars, conference>>
        => [Next]_vars /\ [CF!Next]_CF!vars
  BY DEF CatalogNext, conference, CF!vars
<1>3. CatalogSpec => Spec /\ CF!Spec
  BY <1>1, <1>2, PTL DEF CatalogSpec, Spec, CF!Spec
<1>4. QED
  BY <1>3, References, Stable, Newborn, ProfileFound, PTL
================================================================================
