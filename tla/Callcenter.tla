------------------------------- MODULE Callcenter -------------------------------
(***************************************************************************)
(* Queues, agents and tiers of the call centre, and the document           *)
(* callcenter.conf that FreeSWITCH fetches: internal/store/callcenter.go   *)
(* and serveCallcenterConf of internal/api/xml.go.                         *)
(*                                                                         *)
(* Each write is one statement, with the answer its error is given by      *)
(* writeStoreError; the audit row that follows it is left to Accounts. The *)
(* document is put together from three queries, each with its own          *)
(* snapshot, and writes commit between them.                               *)
(*                                                                         *)
(* PostgreSQL (external): a statement is atomic; unique and foreign keys   *)
(* hold; deleting a queue or an agent cascades to its tiers.               *)
(***************************************************************************)
EXTENDS Naturals

CONSTANTS
  QueueNames,
  AgentNames,
  MaxWrites,     \* bound: writes
  AnyQueue       \* the empty filter, which is no queue's name

\* Rows. "by" is the write that made the row what it is, 0 for those that were
\* there before.
Writer   == Nat
QueueRow == [name: QueueNames, by: Writer]
AgentRow == [name: AgentNames, by: Writer]
TierRow  == [queue: QueueNames, agent: AgentNames, by: Writer]
Tables   == [queues: SUBSET QueueRow, agents: SUBSET AgentRow, tiers: SUBSET TierRow]
Nothing  == [queues |-> {}, agents |-> {}, tiers |-> {}]

VARIABLES
  db,            \* the tables
  writes,        \* writes made
  answer,        \* of the last write
  pc,            \* the table the reader is about to query
  document,      \* what it has read
  seen           \* history: the tables in each state of the read

vars   == <<db, writes, answer, pc, document, seen>>
reader == <<pc, document, seen>>

HasQueue(d, n) == \E q \in d.queues : q.name = n
HasAgent(d, n) == \E a \in d.agents : a.name = n
Tier(q, a)     == {t \in db.tiers : t.queue = q /\ t.agent = a}

\* Every reference leads to a row and no two rows share a key.
Sound(d) ==
  /\ \A t \in d.tiers : HasQueue(d, t.queue) /\ HasAgent(d, t.agent)
  /\ \A q, r \in d.queues : q.name = r.name => q = r
  /\ \A a, b \in d.agents : a.name = b.name => a = b
  /\ \A t, u \in d.tiers : t.queue = u.queue /\ t.agent = u.agent => t = u

Init ==
  /\ \E Q \in SUBSET QueueNames, A \in SUBSET AgentNames : \E T \in SUBSET (Q \X A) :
       db = [queues |-> {[name |-> q, by |-> 0] : q \in Q},
             agents |-> {[name |-> a, by |-> 0] : a \in A},
             tiers  |-> {[queue |-> t[1], agent |-> t[2], by |-> 0] : t \in T}]
  /\ writes = 0
  /\ answer = "none"
  /\ pc = "idle"
  /\ document = Nothing
  /\ seen = {}

--------------------------------------------------------------------------------
(* Writes.                                                                 *)

Reading == pc \notin {"idle", "served", "not found"}

Refuse(why) ==
  /\ answer' = why
  /\ UNCHANGED <<db, writes, reader>>

\* The statement leaves these rows.
Commit(Q, A, T) ==
  /\ writes < MaxWrites
  /\ db' = [queues |-> Q, agents |-> A, tiers |-> T]
  /\ writes' = writes + 1
  /\ answer' = "ok"
  /\ seen' = IF Reading THEN seen \cup {db'} ELSE seen
  /\ UNCHANGED <<pc, document>>

By == writes + 1

CreateCCQueue(n) ==
  \/ HasQueue(db, n) /\ Refuse("already_exists")
  \/ ~HasQueue(db, n) /\ Commit(db.queues \cup {[name |-> n, by |-> By]}, db.agents, db.tiers)

\* The name stays; a queue that is not there is not found.
UpdateCCQueue(n) ==
  \/ ~HasQueue(db, n) /\ Refuse("not_found")
  \/ \E q \in db.queues :
       /\ q.name = n
       /\ Commit((db.queues \ {q}) \cup {[q EXCEPT !.by = By]}, db.agents, db.tiers)

DeleteCCQueue(n) ==
  \/ ~HasQueue(db, n) /\ Refuse("not_found")
  \/ /\ HasQueue(db, n)
     /\ Commit({q \in db.queues : q.name # n}, db.agents,
               {t \in db.tiers : t.queue # n})

CreateCCAgent(n) ==
  \/ HasAgent(db, n) /\ Refuse("already_exists")
  \/ ~HasAgent(db, n) /\ Commit(db.queues, db.agents \cup {[name |-> n, by |-> By]}, db.tiers)

UpdateCCAgent(n) ==
  \/ ~HasAgent(db, n) /\ Refuse("not_found")
  \/ \E a \in db.agents :
       /\ a.name = n
       /\ Commit(db.queues, (db.agents \ {a}) \cup {[a EXCEPT !.by = By]}, db.tiers)

DeleteCCAgentAnd(n, lost) ==
  \/ ~HasAgent(db, n) /\ Refuse("not_found")
  \/ /\ HasAgent(db, n)
     /\ Commit(db.queues, {a \in db.agents : a.name # n}, db.tiers \ lost)

\* Mutant: no ON DELETE CASCADE, and no reference to enforce.
DeleteCCAgentAlone(n) == DeleteCCAgentAnd(n, {})

DeleteCCAgent(n) == DeleteCCAgentAnd(n, {t \in db.tiers : t.agent = n})

\* The unique key is looked at before the foreign keys.
CreateCCTier(q, a) ==
  \/ Tier(q, a) # {} /\ Refuse("already_exists")
  \/ ~(HasQueue(db, q) /\ HasAgent(db, a)) /\ Refuse("not_found")
  \/ /\ HasQueue(db, q) /\ HasAgent(db, a) /\ Tier(q, a) = {}
     /\ Commit(db.queues, db.agents,
               db.tiers \cup {[queue |-> q, agent |-> a, by |-> By]})

UpdateCCTier(q, a) ==
  \/ Tier(q, a) = {} /\ Refuse("not_found")
  \/ \E t \in Tier(q, a) :
       Commit(db.queues, db.agents, (db.tiers \ {t}) \cup {[t EXCEPT !.by = By]})

DeleteCCTier(q, a) ==
  \/ Tier(q, a) = {} /\ Refuse("not_found")
  \/ Tier(q, a) # {} /\ Commit(db.queues, db.agents, db.tiers \ Tier(q, a))

--------------------------------------------------------------------------------
(* The document.                                                           *)

\* Mutant: tiers first.
TiersBeforeRest ==
  [idle |-> "tiers", tiers |-> "queues", queues |-> "agents", agents |-> "served"]

\* The order of the queries.
After == [idle |-> "queues", queues |-> "agents", agents |-> "tiers", tiers |-> "served"]

ListCCQueues == db.queues
ListCCAgents == db.agents
ListCCTiers(filter) == {t \in db.tiers : filter = AnyQueue \/ t.queue = filter}

\* Mutant: the tiers of one queue.
ListedOfOneQueue(table) ==
  CASE table = "queues" -> ListCCQueues
    [] table = "agents" -> ListCCAgents
    [] table = "tiers"  -> ListCCTiers(CHOOSE n \in QueueNames : TRUE)

Listed(table) ==
  CASE table = "queues" -> ListCCQueues
    [] table = "agents" -> ListCCAgents
    [] table = "tiers"  -> ListCCTiers(AnyQueue)

Begin ==
  /\ pc = "idle"
  /\ pc' = After.idle
  /\ seen' = {db}
  /\ UNCHANGED <<db, writes, answer, document>>

Query ==
  /\ Reading
  /\ document' = [document EXCEPT ![pc] = Listed(pc)]
  /\ pc' = After[pc]
  /\ UNCHANGED <<db, writes, answer, seen>>

\* A query fails: FreeSWITCH is told to use its files.
QueryFails ==
  /\ Reading
  /\ pc' = "not found"
  /\ document' = Nothing
  /\ UNCHANGED <<db, writes, answer, seen>>

Write ==
  \/ \E n \in QueueNames : CreateCCQueue(n) \/ UpdateCCQueue(n) \/ DeleteCCQueue(n)
  \/ \E n \in AgentNames : CreateCCAgent(n) \/ UpdateCCAgent(n) \/ DeleteCCAgent(n)
  \/ \E q \in QueueNames, a \in AgentNames :
       CreateCCTier(q, a) \/ UpdateCCTier(q, a) \/ DeleteCCTier(q, a)

Next == Write \/ Begin \/ Query \/ QueryFails

Spec == Init /\ [][Next]_vars

--------------------------------------------------------------------------------
(* Properties.                                                             *)

TypeOK ==
  /\ db \in Tables
  /\ writes \in Writer
  /\ answer \in {"none", "ok", "already_exists", "not_found"}
  /\ pc \in {"idle", "queues", "agents", "tiers", "served", "not found"}
  /\ document \in Tables
  /\ seen \subseteq Tables

\* However creations and deletions of queues, agents and tiers cross, each tier
\* binds an agent that exists to a queue that exists, and keys are unique.
TiersResolve == Sound(db)

\* A document put together while tables change holds each row that was there
\* throughout, and none that never was.
StableRowsServed ==
  pc = "served" =>
    \A table \in {"queues", "agents", "tiers"} :
      LET ever == UNION {d[table] : d \in seen}
      IN  /\ document[table] \subseteq ever
          /\ {row \in ever : \A d \in seen : row \in d[table]} \subseteq document[table]

\* A tier may be served whose queue or agent is not: only because that one was
\* created meanwhile, so that the next load of the document is right; never
\* because it was deleted, with the tier left behind.
DanglingIsNewborn ==
  [][pc # "served" /\ pc' = "served" =>
       \A t \in document'.tiers :
         /\ HasQueue(document', t.queue) \/ HasQueue(db, t.queue)
         /\ HasAgent(document', t.agent) \/ HasAgent(db, t.agent)]_vars
================================================================================
