-------------------------------- MODULE Accounts --------------------------------
(***************************************************************************)
(* Domains and their users, the changelog, and the directory served to     *)
(* FreeSWITCH: internal/api/domains.go, users.go and xml.go,               *)
(* internal/store/domains.go, users.go and directory.go, internal/audit.   *)
(*                                                                         *)
(* A request is a goroutine that runs SQL statements one after another,    *)
(* each on its own and with its own snapshot:                              *)
(*                                                                         *)
(*   change of a domain    statement, audit                                *)
(*   create a user         look the domain's id up, statement, audit       *)
(*   change of a user      statement, audit                                *)
(*   directory, one user   get the user, get the domain                    *)
(*   directory, browse     list the domains, list each one's users         *)
(*                                                                         *)
(* Any statement may fail: the client goes away, which cancels the         *)
(* request's context, the database cannot be reached, or the process is    *)
(* killed. A statement that commits and is reported as failed is one that  *)
(* commits in a request that fails right after.                            *)
(*                                                                         *)
(* PostgreSQL (external): each statement is atomic; unique and foreign     *)
(* keys hold; deleting a domain cascades to its users.                     *)
(***************************************************************************)
EXTENDS Naturals, Sequences, FiniteSets

CONSTANTS
  Names,         \* domain names
  Numbers,       \* user numbers
  MaxRequests,   \* bound: requests
  None           \* no number: the request is about the domain

ASSUME MaxRequestsAssumption == MaxRequests \in Nat
ASSUME NoneAssumption == None \notin Numbers

Requests == 1 .. MaxRequests
Changes  == {"create", "update", "delete"}
Reads    == {"user", "browse"}

\* A request: what it does, to which row, and the "enabled" it writes.
Call == [verb: Changes \cup Reads, name: Names, number: Numbers \cup {None},
         enabled: BOOLEAN]

\* Rows. "by" is the request that wrote the row last, 0 for those that were
\* there before; it stands for what the row says. A domain's id is a fresh
\* uuid: its name and the request that created it.
Writer    == 0 .. MaxRequests
DomainId  == Names \X Writer
DomainRow == [id: DomainId, name: Names, enabled: BOOLEAN, by: Writer]
UserRow   == [domain: DomainId, number: Numbers, enabled: BOOLEAN, by: Writer]

\* A document lists domains, each with users.
Entry == [domain: DomainRow, users: SUBSET UserRow]

VARIABLES
  domains,       \* table domains
  users,         \* table users
  log,           \* table audit_logs: requests, in order
  call,          \* what each request asks
  pc,            \* where it is
  id,            \* the domain id it looked up: a set of at most one
  found,         \* the user row it got: a set of at most one
  todo,          \* domain rows whose users it has yet to list
  doc,           \* the document it has built
  status,        \* its answer
  commits,       \* history: requests in the order of their commits
  unlogged,      \* history: changes answered 2xx with a failed audit
  after,         \* history: changes answered 2xx before each change began
  since          \* history: commits when each read began

vars == <<domains, users, log, call, pc, id, found, todo, doc, status,
          commits, unlogged, after, since>>
tables == <<domains, users>>
local  == <<id, found, todo>>
past   == <<unlogged, after, since>>

Named(n)     == {d \in domains : d.name = n}
UsersOf(n)   == {u \in users : \E d \in Named(n) : u.domain = d.id}
Matching(c)  == {u \in UsersOf(c.name) : u.number = c.number}
AboutUser(c) == c.number # None

Init ==
  /\ \E present \in SUBSET Names :
     \E population \in SUBSET (present \X Numbers) :
     \E on \in SUBSET present, active \in SUBSET population :
       /\ domains = {[id |-> <<n, 0>>, name |-> n, enabled |-> n \in on, by |-> 0] :
                       n \in present}
       /\ users = {[domain |-> <<p[1], 0>>, number |-> p[2],
                    enabled |-> p \in active, by |-> 0] : p \in population}
  /\ log = <<>>
  /\ call = <<>>
  /\ pc = [r \in Requests |-> "none"]
  /\ id = [r \in Requests |-> {}]
  /\ found = [r \in Requests |-> {}]
  /\ todo = [r \in Requests |-> {}]
  /\ doc = [r \in Requests |-> {}]
  /\ status = [r \in Requests |-> "none"]
  /\ unlogged = {}
  /\ commits = <<>>
  /\ after = [r \in Requests |-> {}]
  /\ since = [r \in Requests |-> 0]

Goto(r, from, to) ==
  /\ pc[r] = from
  /\ pc' = [pc EXCEPT ![r] = to]

Steps == {"look up", "statement", "audit", "get user", "get domain",
          "list domains", "list users"}

\* The handler returns.
Answer(r, from, s) ==
  /\ Goto(r, from, "done")
  /\ status' = [status EXCEPT ![r] = s]
  /\ id' = [id EXCEPT ![r] = {}]
  /\ found' = [found EXCEPT ![r] = {}]
  /\ todo' = [todo EXCEPT ![r] = {}]

IsChange(c) == c.verb \in Changes

--------------------------------------------------------------------------------
(* The client.                                                             *)

FirstStep(c) ==
  CASE c.verb = "user"                        -> "get user"
    [] c.verb = "browse"                      -> "list domains"
    [] c.verb = "create" /\ AboutUser(c)      -> "look up"
    [] OTHER                                  -> "statement"

Sensible(c) ==
  /\ c.verb = "user" => AboutUser(c)
  /\ c.verb = "browse" => ~AboutUser(c) /\ c.name = CHOOSE n \in Names : TRUE
  /\ c.verb \in Reads \cup {"delete"} => c.enabled

Begin(c) ==
  LET r == Len(call) + 1
  IN  /\ r \in Requests
      /\ Sensible(c)
      /\ call' = Append(call, c)
      /\ pc' = [pc EXCEPT ![r] = FirstStep(c)]
      /\ after' = [after EXCEPT ![r] =
                     IF IsChange(c) THEN {q \in Requests : status[q] = "ok"} ELSE {}]
      /\ since' = [since EXCEPT ![r] = IF IsChange(c) THEN 0 ELSE Len(commits)]
      /\ UNCHANGED <<tables, log, local, doc, status, commits, unlogged>>

\* A statement fails, and the request with it. (A failed audit is ignored, but
\* nobody is answered when it is the client that has gone.)
Fail(r) ==
  /\ \E from \in Steps : Answer(r, from, "failed")
  /\ UNCHANGED <<tables, log, call, doc, commits, past>>

--------------------------------------------------------------------------------
(* Changes.                                                                *)

Refuse(r, from, s) ==
  /\ Answer(r, from, s)
  /\ UNCHANGED <<tables, log, call, doc, commits, past>>

\* A statement that changed a row; the audit row is written next.
Committed(r) ==
  /\ Goto(r, "statement", "audit")
  /\ commits' = Append(commits, r)
  /\ UNCHANGED <<log, call, local, doc, status, past>>

CreateDomain(r) ==
  LET c == call[r]
  IN  /\ c.verb = "create" /\ ~AboutUser(c)
      /\ \/ Named(c.name) # {} /\ Refuse(r, "statement", "already_exists")
         \/ /\ Named(c.name) = {}
            /\ domains' = domains \cup {[id |-> <<c.name, r>>, name |-> c.name,
                                         enabled |-> c.enabled, by |-> r]}
            /\ users' = users
            /\ Committed(r)

UpdateDomain(r) ==
  LET c == call[r]
  IN  /\ c.verb = "update" /\ ~AboutUser(c)
      /\ \/ Named(c.name) = {} /\ Refuse(r, "statement", "not_found")
         \/ \E d \in Named(c.name) :
              /\ domains' = (domains \ {d})
                              \cup {[d EXCEPT !.enabled = c.enabled, !.by = r]}
              /\ users' = users
              /\ Committed(r)

DeleteDomainAnd(r, lost) ==
  LET c == call[r]
  IN  /\ c.verb = "delete" /\ ~AboutUser(c)
      /\ \/ Named(c.name) = {} /\ Refuse(r, "statement", "not_found")
         \/ /\ Named(c.name) # {}
            /\ domains' = domains \ Named(c.name)
            /\ users' = users \ lost
            /\ Committed(r)

\* Mutant: no ON DELETE CASCADE, and no reference to enforce.
DeleteDomainAlone(r) == DeleteDomainAnd(r, {})

\* The users' rows go with their domain's.
DeleteDomain(r) == DeleteDomainAnd(r, UsersOf(call[r].name))

\* store.domainID
LookUp(r) ==
  \/ Named(call[r].name) = {} /\ Refuse(r, "look up", "not_found")
  \/ \E d \in Named(call[r].name) :
       /\ Goto(r, "look up", "statement")
       /\ id' = [id EXCEPT ![r] = {d.id}]
       /\ UNCHANGED <<tables, log, call, found, todo, doc, status, commits, past>>

\* The INSERT of CreateUser. A domain that has gone meanwhile violates the
\* foreign key, which the store passes on and the API answers with 500.
InsertUserChecking(r, taken, gone) ==
  LET c == call[r]
  IN  /\ c.verb = "create" /\ AboutUser(c)
      /\ \E d \in id[r] :
           \/ ~gone /\ taken /\ Refuse(r, "statement", "already_exists")
           \/ gone /\ Refuse(r, "statement", "internal_error")
           \/ /\ ~gone /\ ~taken
              /\ users' = users \cup {[domain |-> d, number |-> c.number,
                                       enabled |-> c.enabled, by |-> r]}
              /\ domains' = domains
              /\ Committed(r)

Gone(r)  == id[r] \cap {d.id : d \in domains} = {}
Taken(r) == \E u \in users : u.domain \in id[r] /\ u.number = call[r].number

\* Mutant: no UNIQUE (domain_id, number).
InsertUserTwice(r) == InsertUserChecking(r, FALSE, Gone(r))

InsertUser(r) == InsertUserChecking(r, Taken(r), Gone(r))

UpdateUser(r) ==
  LET c == call[r]
  IN  /\ c.verb = "update" /\ AboutUser(c)
      /\ \/ Matching(c) = {} /\ Refuse(r, "statement", "not_found")
         \/ \E u \in Matching(c) :
              /\ users' = (users \ {u}) \cup {[u EXCEPT !.enabled = c.enabled, !.by = r]}
              /\ domains' = domains
              /\ Committed(r)

DeleteUser(r) ==
  LET c == call[r]
  IN  /\ c.verb = "delete" /\ AboutUser(c)
      /\ \/ Matching(c) = {} /\ Refuse(r, "statement", "not_found")
         \/ /\ Matching(c) # {}
            /\ users' = users \ Matching(c)
            /\ domains' = domains
            /\ Committed(r)

Statement(r) ==
  /\ pc[r] = "statement"
  /\ \/ CreateDomain(r) \/ UpdateDomain(r) \/ DeleteDomain(r)
     \/ InsertUser(r) \/ UpdateUser(r) \/ DeleteUser(r)

\* audit.Log, whose failure nobody hears of, then the answer.
AuditWriting(r, entries) ==
  \/ /\ Answer(r, "audit", "ok")
     /\ log' = log \o entries
     /\ UNCHANGED <<tables, call, doc, commits, past>>
  \/ /\ Answer(r, "audit", "ok")
     /\ unlogged' = unlogged \cup {r}
     /\ UNCHANGED <<tables, log, call, doc, commits, after, since>>

Logged(r) == \E i \in 1 .. Len(log) : log[i] = r

\* Mutant: the audit row is written by a goroutine the answer does not await.
AuditLater(r) ==
  \/ AuditWriting(r, <<>>)
  \/ /\ status[r] = "ok" /\ ~Logged(r)
     /\ log' = Append(log, r)
     /\ UNCHANGED <<tables, call, pc, local, doc, status, commits, past>>

\* Mutant: the audit row is written before the change is made.
AuditFirst(r) ==
  \/ AuditWriting(r, <<>>)
  \/ /\ pc[r] = "statement" /\ ~Logged(r)
     /\ log' = Append(log, r)
     /\ UNCHANGED <<tables, call, pc, local, doc, status, commits, past>>

Audit(r) == AuditWriting(r, <<r>>)

--------------------------------------------------------------------------------
(* The directory.                                                          *)

NotFoundDocument(r, from) ==
  /\ Answer(r, from, "not found document")
  /\ UNCHANGED <<tables, log, call, doc, commits, past>>

Document(r, from, entries) ==
  /\ Answer(r, from, "document")
  /\ doc' = [doc EXCEPT ![r] = entries]
  /\ UNCHANGED <<tables, log, call, commits, past>>

GetUser(r) ==
  \/ Matching(call[r]) = {} /\ NotFoundDocument(r, "get user")
  \/ \E u \in Matching(call[r]) :
       /\ Goto(r, "get user", "get domain")
       /\ found' = [found EXCEPT ![r] = {u}]
       /\ UNCHANGED <<tables, log, call, id, todo, doc, status, commits, past>>

\* Neither the user's "enabled" nor the domain's is looked at.
GetDomain(r) ==
  \/ Named(call[r].name) = {} /\ NotFoundDocument(r, "get domain")
  \/ \E d \in Named(call[r].name) :
       Document(r, "get domain", {[domain |-> d, users |-> found[r]]})

ListDomains(r) ==
  /\ Goto(r, "list domains", "list users")
  /\ todo' = [todo EXCEPT ![r] = {d \in domains : d.enabled}]
  /\ UNCHANGED <<tables, log, call, id, found, doc, status, commits, past>>

\* The users of one more domain, by the domain's name.
ListUsersWhere(r, d, wanted) ==
  /\ pc[r] = "list users"
  /\ todo' = [todo EXCEPT ![r] = @ \ {d}]
  /\ doc' = [doc EXCEPT ![r] = @ \cup {[domain |-> d,
                                        users |-> UsersOf(d.name) \cap wanted]}]
  /\ UNCHANGED <<tables, log, call, pc, id, found, status, commits, past>>

\* Mutant: disabled users too.
ListUsersAll(r, d) == ListUsersWhere(r, d, users)

ListUsers(r, d) == ListUsersWhere(r, d, {u \in users : u.enabled})

Listed(r) ==
  /\ todo[r] = {}
  /\ Answer(r, "list users", "document")
  /\ UNCHANGED <<tables, log, call, doc, commits, past>>

Next ==
  \/ \E c \in Call : Begin(c)
  \/ \E r \in 1 .. Len(call) :
       \/ Fail(r) \/ LookUp(r) \/ Statement(r) \/ Audit(r)
       \/ GetUser(r) \/ GetDomain(r) \/ ListDomains(r) \/ Listed(r)
       \/ \E d \in todo[r] : ListUsers(r, d)

Spec == Init /\ [][Next]_vars

--------------------------------------------------------------------------------
(* Properties.                                                             *)

TypeOK ==
  /\ domains \subseteq DomainRow
  /\ users \subseteq UserRow
  /\ log \in Seq(Requests)
  /\ call \in Seq(Call) /\ Len(call) <= MaxRequests
  /\ pc \in [Requests -> Steps \cup {"none", "done"}]
  /\ id \in [Requests -> SUBSET DomainId]
  /\ found \in [Requests -> SUBSET UserRow]
  /\ todo \in [Requests -> SUBSET DomainRow]
  /\ doc \in [Requests -> SUBSET Entry]
  /\ status \in [Requests -> {"none", "ok", "already_exists", "not_found",
                              "internal_error", "document", "not found document",
                              "failed"}]
  /\ unlogged \subseteq Requests
  /\ commits \in Seq(Requests)
  /\ after \in [Requests -> SUBSET Requests]
  /\ since \in [Requests -> Nat]

\* However creations and deletions of a domain and of its users cross, each
\* user belongs to a domain that exists and no two share a number in it.
RowsConsistent ==
  /\ \A u \in users : \E d \in domains : d.id = u.domain
  /\ \A u, v \in users : u.domain = v.domain /\ u.number = v.number => u = v
  /\ \A d, e \in domains : d.name = e.name => d = e

\* The changelog records only changes that took place, each at most once and
\* after it did.
LogTruthful ==
  /\ \A i \in 1 .. Len(log) : \E k \in 1 .. Len(commits) : commits[k] = log[i]
  /\ \A i, j \in 1 .. Len(log) : log[i] = log[j] => i = j

\* By the time a client has its 2xx, the change is in the changelog, and after
\* every change that was answered before the client asked for this one; unless
\* the audit's INSERT failed.
LogKeepsUp ==
  \A r \in Requests :
    status[r] = "ok" /\ r \notin unlogged =>
      \E i \in 1 .. Len(log) :
        /\ log[i] = r
        /\ \A q \in after[r] \ unlogged : \E j \in 1 .. i - 1 : log[j] = q

\* A directory document put together while nothing changes is the directory:
\* the user asked for, in its domain; or the enabled users of each enabled
\* domain.
Directory(c) ==
  IF c.verb = "user"
    THEN {[domain |-> d, users |-> Matching(c)] : d \in Named(c.name)}
    ELSE {[domain |-> d, users |-> {u \in UsersOf(d.name) : u.enabled}] :
            d \in {e \in domains : e.enabled}}

QuietDocument ==
  \A r \in 1 .. Len(call) :
    status[r] = "document" /\ since[r] = Len(commits) => doc[r] = Directory(call[r])

\* docs/api.md:644: every create, update and delete is recorded; here only of
\* those that were answered 2xx.
EveryChangeRecorded ==
  \A r \in Requests : status[r] = "ok" => Logged(r)
================================================================================
