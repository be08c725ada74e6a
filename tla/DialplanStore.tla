----------------------------- MODULE DialplanStore -----------------------------
(***************************************************************************)
(* The dialplan in the store: internal/store/dialplan.go.                  *)
(*                                                                         *)
(* An extension is a header row, its conditions and their actions, in      *)
(* three tables. Writers change all three in one transaction. Readers (GET *)
(* and the mod_xml_curl dialplan document) put an extension together from  *)
(* one query for the headers, one per extension for its conditions and one *)
(* per condition for its actions, each on its own connection and with its  *)
(* own snapshot.                                                           *)
(*                                                                         *)
(* A write replaces the conditions with rows of fresh ids, so the rows of  *)
(* a request are named by the request: condition <<w, k>> is the k-th that *)
(* request w inserted. What the rows say plays no part.                    *)
(*                                                                         *)
(* PostgreSQL (external): READ COMMITTED; a transaction's changes appear   *)
(* when it commits; UPDATE and DELETE wait for the row's lock; an insert   *)
(* that refers to a domain keeps the domain from being deleted. Requests   *)
(* share a pool of PoolSize connections and wait for a free one.           *)
(***************************************************************************)
EXTENDS Naturals, FiniteSets

CONSTANTS
  Ids,           \* extension ids
  Initial,       \* extensions that exist at first
  Writers,       \* one create, update or delete request each
  Readers,       \* one GET or dialplan document request each
  Conditions,    \* conditions per extension
  PoolSize,      \* db.Connect's MaxConns
  None           \* no request, no version

ASSUME ConditionsAssumption == Conditions \in Nat \ {0}
ASSUME PoolAssumption == PoolSize \in Nat \ {0}
ASSUME InitialAssumption == Initial \subseteq Ids
ASSUME NamesAssumption == None \notin Writers \cup Ids /\ Writers \cap Ids = {}

\* A version of an extension is named by the request that wrote it; that of an
\* extension that was there before, by its id.
Versions == Writers \cup Initial
Rows(v)  == {v} \X (1 .. Conditions)
AllRows  == UNION {Rows(v) : v \in Versions}

VARIABLES
  domain,        \* does the extensions' domain exist?
  header,        \* committed: version of each extension's header, or None
  conds,         \* committed: condition rows of each extension
  acts,          \* committed: condition rows that have their actions
  used,          \* ids that were ever given out
  lock,          \* row lock on each extension
  wpc,           \* where each writer is
  op,            \* its operation
  target,        \* the extension it is about
  status,        \* its HTTP status, 0 before
  rpc,           \* where each reader is
  todo,          \* extensions whose conditions it has yet to query
  seen,          \* header version it read of each extension, or None
  rows,          \* condition rows it read of each extension
  loaded,        \* condition rows it has queried the actions of
  full,          \* those it found actions of
  touched        \* history: extensions committed to since a reader began

database == <<domain, header, conds, acts, used>>
writers  == <<lock, wpc, op, target, status>>
readers  == <<rpc, todo, seen, rows, loaded, full>>
vars     == <<database, writers, readers, touched>>

Init ==
  /\ domain = TRUE
  /\ header = [e \in Ids |-> IF e \in Initial THEN e ELSE None]
  /\ conds = [e \in Ids |-> IF e \in Initial THEN Rows(e) ELSE {}]
  /\ acts = conds
  /\ used = Initial
  /\ lock = [e \in Ids |-> None]
  /\ wpc = [w \in Writers |-> "new"]
  /\ op = [w \in Writers |-> "none"]
  /\ target = [w \in Writers |-> None]
  /\ status = [w \in Writers |-> 0]
  /\ rpc = [r \in Readers |-> "new"]
  /\ todo = [r \in Readers |-> {}]
  /\ seen = [r \in Readers |-> [e \in Ids |-> None]]
  /\ rows = [r \in Readers |-> [e \in Ids |-> {}]]
  /\ loaded = [r \in Readers |-> {}]
  /\ full = [r \in Readers |-> {}]
  /\ touched = [r \in Readers |-> {}]

--------------------------------------------------------------------------------
(* The connection pool. A writer holds a connection from Begin, or from    *)
(* the start of its one statement, to the end; a reader's query takes one  *)
(* and gives it back, its rows being closed before the next query.         *)

InTransaction == {w \in Writers : wpc[w] \in {"header", "clear", "insert", "commit",
                                              "delete", "drop"}}

\* Mutant: a transaction that fails is never rolled back.
HoldingLeaked == InTransaction \cup {w \in Writers : status[w] \in {409, 500}}

Holding == InTransaction

FreeConnection == Cardinality(Holding) < PoolSize

--------------------------------------------------------------------------------
(* Writers.                                                                *)

Goto(w, from, to) ==
  /\ wpc[w] = from
  /\ wpc' = [wpc EXCEPT ![w] = to]

Unlocked == [e \in Ids |-> None]
Release(w) == lock' = [e \in Ids |-> IF lock[e] = w THEN None ELSE lock[e]]

\* The handler answers; a transaction still open is rolled back and the
\* connection goes back to the pool.
Finish(w, from, code) ==
  /\ Goto(w, from, "done")
  /\ status' = [status EXCEPT ![w] = code]
  /\ Release(w)
  /\ UNCHANGED <<op, target>>

\* A request arrives.
Start(w, operation, e) ==
  /\ Goto(w, "new", IF operation = "create" THEN "lookup" ELSE "begin")
  /\ op' = [op EXCEPT ![w] = operation]
  /\ target' = [target EXCEPT ![w] = e]
  /\ UNCHANGED <<database, lock, status, readers, touched>>

\* Create finds its domain with a query of its own, before the transaction.
Lookup(w) ==
  /\ FreeConnection
  /\ IF domain
       THEN Goto(w, "lookup", "begin") /\ UNCHANGED <<lock, op, target, status>>
       ELSE Finish(w, "lookup", 404)
  /\ UNCHANGED <<database, readers, touched>>

\* Begin, or the start of a single statement.
Begin(w) ==
  /\ FreeConnection
  /\ Goto(w, "begin", CASE op[w] = "delete" -> "delete"
                        [] op[w] = "drop" -> "drop"
                        [] OTHER -> "header")
  /\ UNCHANGED <<database, lock, op, target, status, readers, touched>>

\* Create: INSERT of the header under a fresh id. The unique key may be taken
\* (409); the domain may have been deleted since the lookup, and the foreign
\* key's violation is an error like any other (500).
InsertReferring(w, exists) ==
  /\ op[w] = "create"
  /\ wpc[w] = "header"
  /\ \/ /\ exists
        /\ \E e \in Ids \ used :
             /\ Goto(w, "header", "insert")
             /\ target' = [target EXCEPT ![w] = e]
             /\ lock' = [lock EXCEPT ![e] = w]
             /\ used' = used \cup {e}
        /\ UNCHANGED <<domain, header, conds, acts, op, status>>
     \/ exists /\ Finish(w, "header", 409) /\ UNCHANGED database
     \/ ~exists /\ Finish(w, "header", 500) /\ UNCHANGED database
  /\ UNCHANGED <<readers, touched>>

\* Mutant: no foreign key; the earlier lookup is believed.
InsertBelieving(w) == InsertReferring(w, TRUE)

InsertHeader(w) == InsertReferring(w, domain)

\* Update: UPDATE of the header waits for the row, which may be gone (404).
UpdateHeader(w) ==
  /\ op[w] = "update"
  /\ wpc[w] = "header"
  /\ lock[target[w]] = None
  /\ IF header[target[w]] = None
       THEN Finish(w, "header", 404)
       ELSE /\ Goto(w, "header", "clear")
            /\ lock' = [lock EXCEPT ![target[w]] = w]
            /\ UNCHANGED <<op, target, status>>
  /\ UNCHANGED <<database, readers, touched>>

Touch(es) == touched' = [r \in Readers |-> IF rpc[r] = "new" THEN {}
                                                            ELSE touched[r] \cup es]

\* DELETE of the old conditions; nobody else sees it before the commit.
Clear(w) ==
  /\ Goto(w, "clear", "insert")
  /\ UNCHANGED <<database, lock, op, target, status, readers, touched>>

\* Mutant: the conditions are inserted outside the transaction.
InsertAtOnce(w) ==
  /\ Goto(w, "insert", "commit")
  /\ conds' = [conds EXCEPT ![target[w]] = @ \cup Rows(w)]
  /\ UNCHANGED <<domain, header, acts, used, lock, op, target, status, readers,
                 touched>>

\* insertConditions: likewise.
InsertConditions(w) ==
  /\ Goto(w, "insert", "commit")
  /\ UNCHANGED <<database, lock, op, target, status, readers, touched>>

CommitRows(w, inserted) ==
  /\ Finish(w, "commit", IF op[w] = "create" THEN 201 ELSE 200)
  /\ header' = [header EXCEPT ![target[w]] = w]
  /\ conds' = [conds EXCEPT ![target[w]] = inserted]
  /\ acts' = [acts EXCEPT ![target[w]] = inserted]
  /\ Touch({target[w]})
  /\ UNCHANGED <<domain, used, readers>>

\* Mutant: the old conditions are kept beside the new ones.
CommitKeepingOld(w) == CommitRows(w, conds[target[w]] \cup Rows(w))

Commit(w) == CommitRows(w, Rows(w))

\* Any statement of a transaction may fail: an error, the client gone, a unique
\* key taken by an update. The deferred Rollback undoes it all.
Abort(w) ==
  /\ wpc[w] \in {"header", "clear", "insert", "commit"}
  /\ Finish(w, wpc[w], 500)
  /\ UNCHANGED <<database, readers, touched>>

\* DELETE of an extension waits for its row and cascades to the other tables.
Delete(w) ==
  LET e == target[w]
  IN  /\ wpc[w] = "delete"
      /\ lock[e] = None
      /\ IF header[e] = None
           THEN Finish(w, "delete", 404) /\ UNCHANGED <<database, touched>>
           ELSE /\ Finish(w, "delete", 204)
                /\ header' = [header EXCEPT ![e] = None]
                /\ conds' = [conds EXCEPT ![e] = {}]
                /\ acts' = [acts EXCEPT ![e] = {}]
                /\ Touch({e})
                /\ UNCHANGED <<domain, used>>
      /\ UNCHANGED readers

\* DELETE of the domain waits for every row that refers to it, committed or
\* not, and cascades to them.
Drop(w) ==
  /\ wpc[w] = "drop"
  /\ lock = Unlocked
  /\ Finish(w, "drop", IF domain THEN 204 ELSE 404)
  /\ domain' = FALSE
  /\ header' = [e \in Ids |-> None]
  /\ conds' = [e \in Ids |-> {}]
  /\ acts' = [e \in Ids |-> {}]
  /\ Touch({e \in Ids : header[e] # None})
  /\ UNCHANGED <<used, readers>>

--------------------------------------------------------------------------------
(* Readers.                                                                *)

\* The headers: all of them (ListDialplanExtensions) or one (GET).
QueryHeaders(r, scope) ==
  LET found == {e \in scope : header[e] # None}
  IN  /\ rpc[r] = "new"
      /\ FreeConnection
      /\ rpc' = [rpc EXCEPT ![r] = "load"]
      /\ seen' = [seen EXCEPT ![r] = [e \in Ids |-> IF e \in found THEN header[e] ELSE None]]
      /\ todo' = [todo EXCEPT ![r] = found]
      /\ UNCHANGED <<database, writers, rows, loaded, full, touched>>

\* Condition rows a reader has read and not yet queried the actions of.
Unloaded(r) == (UNION {rows[r][e] : e \in Ids}) \ loaded[r]

\* loadConditions: the conditions of the next extension ...
QueryConditions(r, e) ==
  /\ rpc[r] = "load"
  /\ FreeConnection
  /\ Unloaded(r) = {}
  /\ e \in todo[r]
  /\ todo' = [todo EXCEPT ![r] = @ \ {e}]
  /\ rows' = [rows EXCEPT ![r][e] = conds[e]]
  /\ UNCHANGED <<database, writers, rpc, seen, loaded, full, touched>>

\* Mutant: the actions of two conditions are mixed up.
QueryActionsAny(r, c) ==
  /\ FreeConnection
  /\ c \in Unloaded(r)
  /\ loaded' = [loaded EXCEPT ![r] = @ \cup {c}]
  /\ full' = [full EXCEPT ![r] = @ \cup {d \in Unloaded(r) \ {c} : \E e \in Ids : d \in acts[e]}]
  /\ UNCHANGED <<database, writers, rpc, todo, seen, rows, touched>>

\* ... and the actions of each, found by the condition's id.
QueryActions(r, c) ==
  /\ FreeConnection
  /\ c \in Unloaded(r)
  /\ loaded' = [loaded EXCEPT ![r] = @ \cup {c}]
  /\ full' = IF \E e \in Ids : c \in acts[e]
               THEN [full EXCEPT ![r] = @ \cup {c}] ELSE full
  /\ UNCHANGED <<database, writers, rpc, todo, seen, rows, touched>>

Respond(r) ==
  /\ rpc[r] = "load"
  /\ todo[r] = {} /\ Unloaded(r) = {}
  /\ rpc' = [rpc EXCEPT ![r] = "done"]
  /\ UNCHANGED <<database, writers, todo, seen, rows, loaded, full, touched>>

--------------------------------------------------------------------------------
Write(w) ==
  \/ Lookup(w) \/ Begin(w) \/ InsertHeader(w) \/ UpdateHeader(w) \/ Clear(w)
  \/ InsertConditions(w) \/ Commit(w) \/ Abort(w) \/ Delete(w) \/ Drop(w)

Load(r) ==
  \/ \E e \in Ids : QueryConditions(r, e)
  \/ \E c \in Unloaded(r) : QueryActions(r, c)
  \/ Respond(r)

Arrive ==
  \/ \E w \in Writers, operation \in {"create", "update", "delete", "drop"}, e \in Ids :
       Start(w, operation, e)
  \/ \E r \in Readers : QueryHeaders(r, Ids) \/ \E e \in Ids : QueryHeaders(r, {e})

Next ==
  \/ Arrive
  \/ \E w \in Writers : Write(w)
  \/ \E r \in Readers : Load(r)

(* A request that has arrived is served: pgxpool grants connections and    *)
(* PostgreSQL grants row locks in the order they were asked for.           *)
Fairness ==
  /\ \A w \in Writers : SF_vars(Write(w))
  /\ \A r \in Readers : SF_vars(Load(r))

Spec == Init /\ [][Next]_vars /\ Fairness

--------------------------------------------------------------------------------
(* Properties.                                                             *)

TypeOK ==
  /\ domain \in BOOLEAN
  /\ header \in [Ids -> Versions \cup {None}]
  /\ conds \in [Ids -> SUBSET AllRows]
  /\ acts \in [Ids -> SUBSET AllRows]
  /\ used \subseteq Ids
  /\ lock \in [Ids -> Writers \cup {None}]
  /\ wpc \in [Writers -> {"new", "lookup", "begin", "header", "clear", "insert",
                          "commit", "delete", "drop", "done"}]
  /\ op \in [Writers -> {"none", "create", "update", "delete", "drop"}]
  /\ target \in [Writers -> Ids \cup {None}]
  /\ status \in [Writers -> {0, 200, 201, 204, 404, 409, 500}]
  /\ rpc \in [Readers -> {"new", "load", "done"}]
  /\ todo \in [Readers -> SUBSET Ids]
  /\ seen \in [Readers -> [Ids -> Versions \cup {None}]]
  /\ rows \in [Readers -> [Ids -> SUBSET AllRows]]
  /\ loaded \in [Readers -> SUBSET AllRows]
  /\ full \in [Readers -> SUBSET AllRows]
  /\ touched \in [Readers -> SUBSET Ids]

\* What is committed is whole: every extension has exactly the conditions of
\* the request that wrote its header, each with its actions, whatever requests
\* overlap or fail half way.
CommittedWhole ==
  \A e \in Ids :
    /\ conds[e] = IF header[e] = None THEN {} ELSE Rows(header[e])
    /\ acts[e] = conds[e]

\* No extension outlives its domain, not even one whose creation had already
\* found the domain when it was deleted.
NoOrphans == ~domain => \A e \in Ids : header[e] = None

\* A reader shows an extension that nobody wrote meanwhile exactly as it is.
QuietReadWhole ==
  \A r \in Readers : rpc[r] = "done" =>
    \A e \in Ids \ touched[r] :
      seen[r][e] # None =>
        /\ seen[r][e] = header[e]
        /\ rows[r][e] = Rows(header[e])
        /\ rows[r][e] \subseteq full[r]

\* Whatever is written meanwhile, the conditions a reader shows of an extension
\* are all those of one version, never a mixture of two.
ReadsOneVersion ==
  \A r \in Readers, e \in Ids :
    rows[r][e] # {} => \E v \in Versions : rows[r][e] = Rows(v)

\* Every request that arrived is answered, however small the pool.
AllAnswered ==
  /\ \A w \in Writers : wpc[w] # "new" ~> wpc[w] = "done"
  /\ \A r \in Readers : rpc[r] # "new" ~> rpc[r] = "done"

\* What validateExtension demands of every extension, "each condition requires
\* at least one action" (internal/api/dialplan.go:36-37), of what is rendered.
RenderedConditionsHaveActions ==
  \A r \in Readers : rpc[r] = "done" =>
    \A e \in Ids : rows[r][e] \subseteq full[r]
================================================================================
