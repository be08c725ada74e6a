----------------------------- MODULE AccountsProofs -----------------------------
(***************************************************************************)
(* What holds of the domains, the users, the changelog and the directory   *)
(* for any names, numbers and number of requests.                          *)
(*                                                                         *)
(* The rows are consistent because each statement looks, as it runs, at    *)
(* what it relies on. The changelog is true because a request that audits  *)
(* has committed and has not audited before, and orderly because whatever  *)
(* was answered before a request began is logged or lost by then. The      *)
(* directory is right if nothing was committed since a read began, because *)
(* what the read has so far is then what it would get now.                 *)
(***************************************************************************)
EXTENDS Accounts, TLAPS

(***************************************************************************)
(* The invariant.                                                          *)
(***************************************************************************)

\* A request asks about one domain id, has not started before it arrives, and
\* has no answer before it is done.
Stages ==
  \A r \in Requests :
    /\ \A d, e \in id[r] : d = e
    /\ pc[r] = "none" <=> r > Len(call)
    /\ pc[r] # "done" => status[r] = "none"

InCommits(r) == \E k \in 1 .. Len(commits) : commits[k] = r

\* Who audits has committed; who is in the changelog is done.
Audits ==
  /\ \A r \in Requests : pc[r] = "audit" => InCommits(r)
  /\ \A i \in 1 .. Len(log) : pc[log[i]] = "done"
  /\ \A r \in Requests : \A q \in after[r] : status[q] = "ok"

\* The enabled domains, and what a document shows of one.
On         == {d \in domains : d.enabled}
EntryOf(d) == [domain |-> d, users |-> {u \in UsersOf(d.name) : u.enabled}]

\* The reads: which request is where, and what it has so far if nothing was
\* committed since it began.
Reading(r) ==
  /\ since[r] <= Len(commits)
  /\ pc[r] \in {"get user", "get domain"} => call[r].verb = "user"
  /\ pc[r] \in {"list domains", "list users"} => call[r].verb = "browse"
  /\ pc[r] \notin {"list users", "done"} => doc[r] = {}
  /\ since[r] = Len(commits) =>
       /\ pc[r] = "get domain" => found[r] = Matching(call[r])
       /\ pc[r] = "list users" =>
            todo[r] \subseteq On /\ doc[r] = {EntryOf(d) : d \in On \ todo[r]}
       /\ status[r] = "document" => doc[r] = Directory(call[r])

Logs == LogTruthful /\ LogKeepsUp /\ Audits
Inv  == TypeOK /\ RowsConsistent /\ Stages /\ Logs /\ \A r \in Requests : Reading(r)

LEMMA InitInv == Init => Inv
<1> SUFFICES ASSUME Init PROVE Inv
  OBVIOUS
<1>1. PICK present \in SUBSET Names :
        \E population \in SUBSET (present \X Numbers) :
          \E on \in SUBSET present, active \in SUBSET population :
            /\ domains = {[id |-> <<n, 0>>, name |-> n, enabled |-> n \in on,
                            by |-> 0] : n \in present}
            /\ users = {[domain |-> <<p[1], 0>>, number |-> p[2],
                         enabled |-> p \in active, by |-> 0] : p \in population}
  BY DEF Init
<1>2. PICK population \in SUBSET (present \X Numbers) :
        \E on \in SUBSET present, active \in SUBSET population :
          /\ domains = {[id |-> <<n, 0>>, name |-> n, enabled |-> n \in on,
                          by |-> 0] : n \in present}
          /\ users = {[domain |-> <<p[1], 0>>, number |-> p[2],
                       enabled |-> p \in active, by |-> 0] : p \in population}
  BY <1>1
<1>3. PICK on \in SUBSET present, active \in SUBSET population :
        /\ domains = {[id |-> <<n, 0>>, name |-> n, enabled |-> n \in on,
                        by |-> 0] : n \in present}
        /\ users = {[domain |-> <<p[1], 0>>, number |-> p[2],
                     enabled |-> p \in active, by |-> 0] : p \in population}
  BY <1>2
<1> DEFINE Domain(n) == [id |-> <<n, 0>>, name |-> n, enabled |-> n \in on, by |-> 0]
           User(p)   == [domain |-> <<p[1], 0>>, number |-> p[2],
                         enabled |-> p \in active, by |-> 0]
<1>4. /\ \A n \in present : <<n, 0>> \in DomainId /\ n \in Names
      /\ \A p \in population : /\ p[1] \in present /\ p[2] \in Numbers
                               /\ p = <<p[1], p[2]>>
  <2>1. 0 \in Writer
    BY MaxRequestsAssumption DEF Writer
  <2>2. QED
    BY <2>1 DEF DomainId
<1>5. TypeOK
  <2>1. domains \subseteq DomainRow
    <3>1. \A n \in present : (n \in on) \in BOOLEAN
      OBVIOUS
    <3>2. ASSUME NEW n \in present
          PROVE  Domain(n) \in DomainRow
      <4>1. <<n, 0>> \in DomainId /\ n \in Names /\ (n \in on) \in BOOLEAN /\ 0 \in Writer
        BY <1>4, <3>1, MaxRequestsAssumption DEF Writer
      <4>2. QED
        BY <4>1 DEF DomainRow
    <3>3. QED
      BY <1>3, <3>2
  <2>2. users \subseteq UserRow
    <3>1. \A p \in population : (p \in active) \in BOOLEAN
      OBVIOUS
    <3>2. \A p \in population : User(p) \in UserRow
      BY <1>4, <3>1, MaxRequestsAssumption DEF UserRow, Writer
    <3>3. QED
      BY <1>3, <3>2
  <2>3. QED
    BY <2>1, <2>2, MaxRequestsAssumption DEF Init, TypeOK, Requests
<1>6. RowsConsistent
  <2>1. \A u \in users : \E d \in domains : d.id = u.domain
    <3>1. \A n \in present : Domain(n) \in domains /\ Domain(n).id = <<n, 0>>
      BY <1>3
    <3>2. \A u \in users : \E n \in present : u.domain = <<n, 0>>
      BY <1>3, <1>4
    <3>3. QED
      BY <3>1, <3>2
  <2>2. \A u, v \in users : u.domain = v.domain /\ u.number = v.number => u = v
    BY <1>3, <1>4
  <2>3. \A d, e \in domains : d.name = e.name => d = e
    BY <1>3
  <2>4. QED
    BY <2>1, <2>2, <2>3 DEF RowsConsistent
<1>7. Stages
  BY DEF Init, Stages, Requests
<1>8. Logs
  BY DEF Init, Logs, LogTruthful, LogKeepsUp, Audits
<1>9. \A r \in Requests : Reading(r)
  BY DEF Init, Reading
<1>10. QED
  BY <1>5, <1>6, <1>7, <1>8, <1>9 DEF Inv

--------------------------------------------------------------------------------
(***************************************************************************)
(* The kinds of steps, and their types.                                    *)
(***************************************************************************)

\* A request ends with nothing done; finds the domain's id; changes a row;
\* finds the user it is to render, or the domain.
Refusals == {"already_exists", "not_found", "internal_error", "not found document",
             "failed"}

Refused(r) ==
  /\ \E from \in Steps, s \in Refusals : Answer(r, from, s)
  /\ UNCHANGED <<tables, log, call, doc, commits, past>>

FoundId(r) ==
  \E d \in Named(call[r].name) :
    /\ Goto(r, "look up", "statement")
    /\ id' = [id EXCEPT ![r] = {d.id}]
    /\ UNCHANGED <<tables, log, call, found, todo, doc, status, commits, past>>

Changed(r) == Statement(r) /\ Committed(r)

FoundUser(r) ==
  \E u \in Matching(call[r]) :
    /\ Goto(r, "get user", "get domain")
    /\ found' = [found EXCEPT ![r] = {u}]
    /\ UNCHANGED <<tables, log, call, id, todo, doc, status, commits, past>>

FoundDomain(r) ==
  \E d \in Named(call[r].name) :
    Document(r, "get domain", {[domain |-> d, users |-> found[r]]})

Moves(r) ==
  \/ Refused(r) \/ FoundId(r) \/ Changed(r) \/ Audit(r)
  \/ FoundUser(r) \/ FoundDomain(r) \/ ListDomains(r) \/ Listed(r)
  \/ \E d \in todo[r] : ListUsers(r, d)

LEMMA Kinds ==
  ASSUME NEW r \in 1 .. Len(call),
         \/ Fail(r) \/ LookUp(r) \/ Statement(r) \/ Audit(r)
         \/ GetUser(r) \/ GetDomain(r) \/ ListDomains(r) \/ Listed(r)
         \/ \E d \in todo[r] : ListUsers(r, d)
  PROVE  Moves(r)
<1>1. \A from \in Steps, s \in Refusals : Refuse(r, from, s) => Refused(r)
  BY DEF Refuse, Refused
<1>2. CASE Fail(r)
  BY <1>2 DEF Fail, Refused, Refusals, Moves
<1>3. CASE LookUp(r)
  BY <1>1, <1>3 DEF LookUp, FoundId, Refusals, Steps, Moves
<1>4. CASE Statement(r)
  <2>1. Committed(r) \/ \E s \in Refusals : Refuse(r, "statement", s)
    BY <1>4 DEF Statement, CreateDomain, UpdateDomain, DeleteDomain, DeleteDomainAnd,
                InsertUser, InsertUserChecking, UpdateUser, DeleteUser, Refusals
  <2>2. QED
    BY <1>1, <1>4, <2>1 DEF Changed, Steps, Moves
<1>5. CASE GetUser(r) \/ GetDomain(r)
  BY <1>5 DEF GetUser, GetDomain, NotFoundDocument, FoundUser, FoundDomain, Refused,
              Refusals, Steps, Moves
<1>6. QED
  BY <1>2, <1>3, <1>4, <1>5 DEF Moves

\* Rows keep to their tables' types, whatever a statement does.
LEMMA RowTypes ==
  ASSUME TypeOK, NEW r \in 1 .. Len(call), Changed(r)
  PROVE  domains' \subseteq DomainRow /\ users' \subseteq UserRow
<1> DEFINE c == call[r]
<1>1. c \in Call /\ r \in Writer /\ id[r] \subseteq DomainId
  <2>1. r \in Requests /\ r \in Writer
    <3>1. call \in Seq(Call) /\ Len(call) <= MaxRequests
      BY DEF TypeOK
    <3>2. QED
      BY <3>1, MaxRequestsAssumption DEF Requests, Writer
  <2>2. call \in Seq(Call) /\ id \in [Requests -> SUBSET DomainId]
    BY DEF TypeOK
  <2>3. QED
    BY <2>1, <2>2
<1>2. CASE CreateDomain(r)
  <2>1. domains' \subseteq domains \cup {[id |-> <<c.name, r>>, name |-> c.name,
                                          enabled |-> c.enabled, by |-> r]}
        /\ users' = users
    BY <1>2 DEF CreateDomain, Changed, Refuse, Answer, Goto, Committed, tables
  <2>2. [id |-> <<c.name, r>>, name |-> c.name, enabled |-> c.enabled, by |-> r]
           \in DomainRow
    BY <1>1 DEF Call, DomainRow, DomainId
  <2>3. QED
    BY <2>1, <2>2 DEF TypeOK
<1>3. CASE UpdateDomain(r)
  <2>1. users' = users
        /\ (domains' = domains \/ \E d \in domains :
              domains' \subseteq domains \cup {[d EXCEPT !.enabled = c.enabled, !.by = r]})
    BY <1>3 DEF UpdateDomain, Refuse, Named, tables
  <2>2. \A d \in DomainRow : [d EXCEPT !.enabled = c.enabled, !.by = r] \in DomainRow
    BY <1>1 DEF Call, DomainRow
  <2>3. QED
    BY <2>1, <2>2 DEF TypeOK
<1>4. CASE DeleteDomain(r) \/ DeleteUser(r)
  BY <1>4 DEF DeleteDomain, DeleteDomainAnd, DeleteUser, Refuse, tables, TypeOK
<1>5. CASE InsertUser(r)
  <2>1. domains' = domains
        /\ (users' = users \/ \E d \in id[r] :
              users' = users \cup {[domain |-> d, number |-> c.number,
                                    enabled |-> c.enabled, by |-> r]})
        /\ c.number \in Numbers
    BY <1>1, <1>5 DEF InsertUser, InsertUserChecking, Refuse, tables, AboutUser, Call
  <2>2. \A d \in id[r] : [domain |-> d, number |-> c.number, enabled |-> c.enabled,
                          by |-> r] \in UserRow
    BY <1>1, <2>1 DEF Call, UserRow
  <2>3. QED
    BY <2>1, <2>2 DEF TypeOK
<1>6. CASE UpdateUser(r)
  <2>1. domains' = domains
        /\ (users' = users \/ \E u \in users :
              users' \subseteq users \cup {[u EXCEPT !.enabled = c.enabled, !.by = r]})
    BY <1>6 DEF UpdateUser, Refuse, tables, Matching, UsersOf
  <2>2. \A u \in UserRow : [u EXCEPT !.enabled = c.enabled, !.by = r] \in UserRow
    BY <1>1 DEF Call, UserRow
  <2>3. QED
    BY <2>1, <2>2 DEF TypeOK
<1>7. QED
  BY <1>2, <1>3, <1>4, <1>5, <1>6 DEF Changed, Statement

LEMMA Bounds ==
  ASSUME TypeOK
  PROVE  /\ call \in Seq(Call) /\ log \in Seq(Requests) /\ commits \in Seq(Requests)
         /\ Len(call) \in Nat /\ Len(log) \in Nat /\ Len(commits) \in Nat
         /\ 1 .. Len(call) \subseteq Requests
<1>1. /\ call \in Seq(Call) /\ Len(call) <= MaxRequests
      /\ log \in Seq(Requests) /\ commits \in Seq(Requests)
  BY DEF TypeOK
<1>2. QED
  BY <1>1, MaxRequestsAssumption DEF Requests

LEMMA OneMore ==
  ASSUME NEW S, NEW s \in Seq(S), NEW e \in S
  PROVE  s \o <<e>> = Append(s, e)
OBVIOUS

\* An answer's part of the types.
LEMMA AnswerTypes ==
  ASSUME TypeOK, NEW r \in Requests, NEW from \in Steps,
         NEW s \in Refusals \cup {"ok", "document"}, Answer(r, from, s)
  PROVE  /\ pc' \in [Requests -> Steps \cup {"none", "done"}]
         /\ id' \in [Requests -> SUBSET DomainId]
         /\ found' \in [Requests -> SUBSET UserRow]
         /\ todo' \in [Requests -> SUBSET DomainRow]
         /\ status' \in [Requests -> {"none", "ok", "already_exists", "not_found",
                              "internal_error", "document", "not found document",
                              "failed"}]
BY DEF TypeOK, Answer, Goto, Refusals

LEMMA BeginTypes ==
  ASSUME TypeOK, NEW c \in Call, Begin(c)
  PROVE  TypeOK'
<1> DEFINE r == Len(call) + 1
<1>1. /\ r \in Requests
      /\ call' = Append(call, c)
      /\ pc' = [pc EXCEPT ![r] = FirstStep(c)]
      /\ after' = [after EXCEPT ![r] =
                     IF IsChange(c) THEN {q \in Requests : status[q] = "ok"} ELSE {}]
      /\ since' = [since EXCEPT ![r] = IF IsChange(c) THEN 0 ELSE Len(commits)]
      /\ UNCHANGED <<tables, log, local, doc, status, commits, unlogged>>
  BY DEF Begin
<1>2. call' \in Seq(Call) /\ Len(call') <= MaxRequests
  <2>1. call \in Seq(Call)
    BY DEF TypeOK
  <2>2. QED
    BY <1>1, <2>1, MaxRequestsAssumption DEF Requests
<1>3. FirstStep(c) \in Steps
  BY DEF FirstStep, Steps
<1>4. Len(commits) \in Nat
  BY Bounds
<1>5. pc' \in [Requests -> Steps \cup {"none", "done"}]
  BY <1>1, <1>3 DEF TypeOK
<1>6. after' \in [Requests -> SUBSET Requests] /\ since' \in [Requests -> Nat]
  BY <1>1, <1>4 DEF TypeOK
<1>7. QED
  BY <1>1, <1>2, <1>5, <1>6 DEF TypeOK, tables, local

LEMMA MoveTypes ==
  ASSUME TypeOK, NEW r \in 1 .. Len(call), Moves(r)
  PROVE  TypeOK'
<1>1. r \in Requests
  BY Bounds
<1> USE <1>1 DEF tables, local, past
<1>2. CASE Refused(r) \/ Listed(r)
  <2>1. /\ \E from \in Steps, s \in Refusals \cup {"document"} : Answer(r, from, s)
        /\ UNCHANGED <<tables, log, call, doc, commits, past>>
    BY <1>2 DEF Refused, Listed, Steps
  <2>2. QED
    BY <2>1, AnswerTypes DEF TypeOK
<1>3. CASE FoundId(r)
  <2>1. PICK d \in domains :
          /\ Goto(r, "look up", "statement")
          /\ id' = [id EXCEPT ![r] = {d.id}]
          /\ UNCHANGED <<tables, log, call, found, todo, doc, status, commits, past>>
    BY <1>3 DEF FoundId, Named
  <2>2. d.id \in DomainId
    BY DEF TypeOK, DomainRow
  <2>3. id' \in [Requests -> SUBSET DomainId]
    BY <2>1, <2>2 DEF TypeOK
  <2>4. pc' \in [Requests -> Steps \cup {"none", "done"}]
    BY <2>1 DEF TypeOK, Goto, Steps
  <2>5. QED
    BY <2>1, <2>3, <2>4 DEF TypeOK
<1>4. CASE Changed(r)
  <2>1. domains' \subseteq DomainRow /\ users' \subseteq UserRow
    BY <1>4, RowTypes
  <2>2. /\ Goto(r, "statement", "audit")
        /\ commits' = Append(commits, r)
        /\ UNCHANGED <<log, call, local, doc, status, past>>
    BY <1>4 DEF Changed, Committed
  <2>3. commits' \in Seq(Requests)
    BY <2>2, Bounds
  <2>4. pc' \in [Requests -> Steps \cup {"none", "done"}]
    BY <2>2 DEF TypeOK, Goto, Steps
  <2>5. QED
    BY <2>1, <2>2, <2>3, <2>4 DEF TypeOK
<1>5. CASE Audit(r)
  <2>1. /\ Answer(r, "audit", "ok")
        /\ \/ log' = log \o <<r>> /\ unlogged' = unlogged
           \/ log' = log /\ unlogged' = unlogged \cup {r}
        /\ UNCHANGED <<tables, call, doc, commits, after, since>>
    BY <1>5 DEF Audit, AuditWriting
  <2>2. log' \in Seq(Requests) /\ unlogged' \subseteq Requests
    <3>1. log \in Seq(Requests) /\ log \o <<r>> = Append(log, r)
      BY Bounds, OneMore
    <3>2. unlogged \subseteq Requests
      BY DEF TypeOK
    <3>3. /\ log' = log \/ log' = Append(log, r)
          /\ unlogged' = unlogged \/ unlogged' = unlogged \cup {r}
      BY <2>1, <3>1
    <3>4. Append(log, r) \in Seq(Requests)
      BY Bounds
    <3>5. QED
      BY <3>1, <3>2, <3>3, <3>4
  <2>3. QED
    BY <2>1, <2>2, AnswerTypes DEF TypeOK, Steps
<1>6. CASE FoundUser(r)
  <2>1. PICK u \in users :
          /\ Goto(r, "get user", "get domain")
          /\ found' = [found EXCEPT ![r] = {u}]
          /\ UNCHANGED <<tables, log, call, id, todo, doc, status, commits, past>>
    BY <1>6 DEF FoundUser, Matching, UsersOf
  <2>2. found' \in [Requests -> SUBSET UserRow]
    BY <2>1 DEF TypeOK
  <2>3. pc' \in [Requests -> Steps \cup {"none", "done"}]
    BY <2>1 DEF TypeOK, Goto, Steps
  <2>4. QED
    BY <2>1, <2>2, <2>3 DEF TypeOK
<1>7. CASE FoundDomain(r)
  <2>1. PICK d \in domains : Document(r, "get domain", {[domain |-> d, users |-> found[r]]})
    BY <1>7 DEF FoundDomain, Named
  <2>2. [domain |-> d, users |-> found[r]] \in Entry
    BY DEF TypeOK, Entry
  <2>3. doc' \in [Requests -> SUBSET Entry]
    BY <2>1, <2>2 DEF Document, TypeOK
  <2>4. QED
    BY <2>1, <2>3, AnswerTypes DEF Document, TypeOK, Steps
<1>8. CASE ListDomains(r)
  <2>1. todo' \in [Requests -> SUBSET DomainRow]
    BY <1>8 DEF ListDomains, TypeOK
  <2>2. pc' \in [Requests -> Steps \cup {"none", "done"}]
    BY <1>8 DEF ListDomains, TypeOK, Goto, Steps
  <2>3. QED
    BY <1>8, <2>1, <2>2 DEF ListDomains, TypeOK
<1>9. ASSUME NEW d \in todo[r], ListUsers(r, d)
      PROVE  TypeOK'
  <2>1. d \in DomainRow /\ UsersOf(d.name) \subseteq UserRow
    BY DEF TypeOK, UsersOf
  <2>2. [domain |-> d, users |-> UsersOf(d.name) \cap {u \in users : u.enabled}] \in Entry
    BY <2>1 DEF Entry
  <2>3. doc' \in [Requests -> SUBSET Entry]
    BY <1>9, <2>2 DEF ListUsers, ListUsersWhere, TypeOK
  <2>4. todo' \in [Requests -> SUBSET DomainRow]
    BY <1>9 DEF ListUsers, ListUsersWhere, TypeOK
  <2>5. QED
    BY <1>9, <2>3, <2>4 DEF ListUsers, ListUsersWhere, TypeOK
<1>10. QED
  BY <1>2, <1>3, <1>4, <1>5, <1>6, <1>7, <1>8, <1>9 DEF Moves

LEMMA RowsStep ==
  ASSUME TypeOK, RowsConsistent, Stages, NEW r \in 1 .. Len(call), Changed(r)
  PROVE  RowsConsistent'
<1> DEFINE c == call[r]
<1>1. r \in Requests /\ c \in Call
  BY Bounds
<1>2. CASE CreateDomain(r)
  <2>1. \/ domains' = domains
        \/ Named(c.name) = {} /\ domains' = domains \cup {[id |-> <<c.name, r>>,
             name |-> c.name, enabled |-> c.enabled, by |-> r]}
    BY <1>2 DEF CreateDomain, Refuse, tables
  <2>2. users' = users
    BY <1>2 DEF CreateDomain, Refuse, tables
  <2>3. QED
    BY <2>1, <2>2 DEF RowsConsistent, Named
<1>3. CASE UpdateDomain(r)
  <2>1. users' = users
        /\ (domains' = domains \/ \E d \in domains :
              domains' = (domains \ {d}) \cup {[d EXCEPT !.enabled = c.enabled, !.by = r]})
    BY <1>3 DEF UpdateDomain, Refuse, Named, tables
  <2>2. ASSUME NEW d \in domains, users' = users,
               domains' = (domains \ {d}) \cup {[d EXCEPT !.enabled = c.enabled, !.by = r]}
        PROVE  RowsConsistent'
    <3> DEFINE e == [d EXCEPT !.enabled = c.enabled, !.by = r]
    <3>1. e.id = d.id /\ e.name = d.name
      BY DEF TypeOK, DomainRow
    <3> HIDE DEF e
    <3>2. domains' = (domains \ {d}) \cup {e}
      BY <2>2 DEF e
    <3>3. QED
      BY <2>2, <3>1, <3>2 DEF RowsConsistent
  <2>3. QED
    BY <2>1, <2>2 DEF RowsConsistent
<1>4. CASE DeleteDomain(r)
  <2>1. \/ domains' = domains /\ users' = users
        \/ domains' = domains \ Named(c.name) /\ users' = users \ UsersOf(c.name)
    BY <1>4 DEF DeleteDomain, DeleteDomainAnd, Refuse, tables
  <2>2. QED
    BY <2>1 DEF RowsConsistent, Named, UsersOf
<1>5. CASE InsertUser(r)
  <2>1. domains' = domains
    BY <1>5 DEF InsertUser, InsertUserChecking, Refuse, tables
  <2>2. \/ users' = users
        \/ \E d \in id[r] : ~Gone(r) /\ ~Taken(r)
             /\ users' = users \cup {[domain |-> d, number |-> c.number,
                                      enabled |-> c.enabled, by |-> r]}
    BY <1>5 DEF InsertUser, InsertUserChecking, Refuse, tables
  <2>3. \A d, e \in id[r] : d = e
    BY <1>1 DEF Stages
  <2>4. QED
    BY <2>1, <2>2, <2>3 DEF RowsConsistent, Gone, Taken
<1>6. CASE UpdateUser(r)
  <2>1. domains' = domains
        /\ (users' = users \/ \E u \in users :
              users' = (users \ {u}) \cup {[u EXCEPT !.enabled = c.enabled, !.by = r]})
    BY <1>6 DEF UpdateUser, Refuse, tables, Matching, UsersOf
  <2>2. ASSUME NEW u \in users, domains' = domains,
               users' = (users \ {u}) \cup {[u EXCEPT !.enabled = c.enabled, !.by = r]}
        PROVE  RowsConsistent'
    <3> DEFINE v == [u EXCEPT !.enabled = c.enabled, !.by = r]
    <3>1. v.domain = u.domain /\ v.number = u.number
      BY DEF TypeOK, UserRow
    <3> HIDE DEF v
    <3>2. users' = (users \ {u}) \cup {v}
      BY <2>2 DEF v
    <3>3. QED
      BY <2>2, <3>1, <3>2 DEF RowsConsistent
  <2>3. QED
    BY <2>1, <2>2 DEF RowsConsistent
<1>7. CASE DeleteUser(r)
  BY <1>7 DEF DeleteUser, Refuse, tables, RowsConsistent
<1>8. QED
  BY <1>2, <1>3, <1>4, <1>5, <1>6, <1>7 DEF Changed, Statement

LEMMA StagesBegin ==
  ASSUME TypeOK, Stages, NEW c \in Call, Begin(c)
  PROVE  Stages'
<1> DEFINE n == Len(call) + 1
<1>1. n \in Requests /\ call' = Append(call, c)
      /\ pc' = [pc EXCEPT ![n] = FirstStep(c)] /\ id' = id /\ status' = status
  BY DEF Begin, local
<1>2. Len(call) \in Nat /\ Len(call') = n
  BY <1>1, Bounds
<1>3. FirstStep(c) \in Steps /\ "none" \notin Steps /\ "done" \notin Steps
  BY DEF FirstStep, Steps
<1>4. pc[n] = "none" /\ pc \in [Requests -> Steps \cup {"none", "done"}]
  <2>1. n > Len(call)
    BY <1>2
  <2>2. pc[n] = "none"
    BY <1>1, <2>1 DEF Stages
  <2>3. QED
    BY <2>2 DEF TypeOK
<1>5. ASSUME NEW q \in Requests
      PROVE  /\ \A d, e \in id'[q] : d = e
             /\ pc'[q] = "none" <=> q > n
             /\ pc'[q] # "done" => status'[q] = "none"
  <2>1. q \in Nat
    BY DEF Requests
  <2>2. CASE q = n
    BY <1>1, <1>2, <1>3, <1>4, <2>2 DEF Stages
  <2>3. CASE q # n
    BY <1>1, <1>2, <1>4, <2>1, <2>3 DEF Stages
  <2>4. QED
    BY <2>2, <2>3
<1>6. QED
  BY <1>2, <1>5 DEF Stages

LEMMA StagesMove ==
  ASSUME TypeOK, Stages, NEW r \in 1 .. Len(call), Moves(r)
  PROVE  Stages'
<1>1. r \in Requests /\ Len(call) \in Nat /\ r <= Len(call) /\ r \in Nat
  BY Bounds DEF Requests
<1>2. call' = call
  BY DEF Moves, Refused, FoundId, Changed, Committed, Audit, AuditWriting, FoundUser,
         FoundDomain, Document, ListDomains, Listed, ListUsers, ListUsersWhere
<1>3. \/ pc' = [pc EXCEPT ![r] = "done"]
      \/ /\ status' = status
         /\ pc' = pc \/ (pc[r] \in Steps /\ \E to \in Steps : pc' = [pc EXCEPT ![r] = to])
  <2>1. CASE FoundId(r) \/ FoundUser(r) \/ ListDomains(r)
    BY <2>1 DEF FoundId, FoundUser, ListDomains, Goto, Steps
  <2>2. CASE Changed(r)
    BY <2>2 DEF Changed, Committed, Goto, Steps
  <2>3. CASE Refused(r) \/ Audit(r) \/ FoundDomain(r) \/ Listed(r)
    BY <2>3
       DEF Refused, Audit, AuditWriting, FoundDomain, Document, Listed, Answer, Goto
  <2>4. CASE \E d \in todo[r] : ListUsers(r, d)
    BY <2>4 DEF ListUsers, ListUsersWhere
  <2>5. QED
    BY <2>1, <2>2, <2>3, <2>4 DEF Moves
<1>4. \/ id' = id \/ id' = [id EXCEPT ![r] = {}]
      \/ \E d \in domains : id' = [id EXCEPT ![r] = {d.id}]
  BY DEF Moves, Refused, FoundId, Named, Changed, Committed, Audit, AuditWriting,
         FoundUser, FoundDomain, Document, ListDomains, Listed, ListUsers,
         ListUsersWhere, Answer, local
<1>5. \A q \in Requests : q # r => status'[q] = status[q]
  BY DEF Moves, Refused, FoundId, Changed, Committed, Audit, AuditWriting, FoundUser,
         FoundDomain, Document, ListDomains, Listed, ListUsers, ListUsersWhere, Answer,
         TypeOK
<1>6. "none" \notin Steps /\ "done" \notin Steps
  BY DEF Steps
<1>7. /\ pc \in [Requests -> Steps \cup {"none", "done"}]
      /\ id \in [Requests -> SUBSET DomainId]
  BY DEF TypeOK
<1>8. ASSUME NEW q \in Requests
      PROVE  \A d, e \in id'[q] : d = e
  BY <1>1, <1>4, <1>7 DEF Stages
<1>9. ASSUME NEW q \in Requests
      PROVE  /\ pc'[q] = "none" <=> q > Len(call)
             /\ pc'[q] # "done" => status'[q] = "none"
  <2>1. CASE q # r
    BY <1>1, <1>3, <1>5, <1>7, <2>1 DEF Stages
  <2>2. CASE q = r
    BY <1>1, <1>3, <1>6, <1>7, <2>2 DEF Stages
  <2>3. QED
    BY <2>1, <2>2
<1>10. QED
  BY <1>2, <1>8, <1>9 DEF Stages

--------------------------------------------------------------------------------
(***************************************************************************)
(* The changelog.                                                          *)
(***************************************************************************)

\* A step that neither commits, nor audits, nor answers 2xx.
LEMMA LogsKept ==
  ASSUME TypeOK, Logs, UNCHANGED <<log, commits, unlogged, after>>,
         \A q \in Requests : status'[q] = "ok" <=> status[q] = "ok",
         \A q \in Requests : pc[q] = "done" => pc'[q] = "done",
         \A q \in Requests : pc'[q] = "audit" => pc[q] = "audit"
  PROVE  Logs'
<1>1. \A i \in 1 .. Len(log) : log[i] \in Requests
  BY Bounds
<1>2. after \in [Requests -> SUBSET Requests]
  BY DEF TypeOK
<1>3. LogTruthful'
  BY DEF Logs, LogTruthful
<1>4. LogKeepsUp'
  BY <1>1 DEF Logs, LogKeepsUp
<1>5. Audits'
  BY <1>1, <1>2 DEF Logs, Audits, InCommits
<1>6. QED
  BY <1>3, <1>4, <1>5 DEF Logs

LEMMA LogsBegin ==
  ASSUME TypeOK, Stages, Logs, NEW c \in Call, Begin(c)
  PROVE  Logs'
<1> DEFINE n == Len(call) + 1
<1>1. /\ n \in Requests /\ pc' = [pc EXCEPT ![n] = FirstStep(c)]
      /\ after' = [after EXCEPT ![n] =
                     IF IsChange(c) THEN {q \in Requests : status[q] = "ok"} ELSE {}]
      /\ UNCHANGED <<log, commits, status, unlogged>>
  BY DEF Begin
<1>2. pc[n] = "none" /\ status[n] = "none"
  <2>1. n > Len(call)
    BY Bounds
  <2>2. pc[n] = "none"
    BY <1>1, <2>1 DEF Stages
  <2>3. QED
    BY <1>1, <2>2 DEF Stages
<1>3. FirstStep(c) \notin {"audit", "done"}
  BY DEF FirstStep
<1>4. /\ pc \in [Requests -> Steps \cup {"none", "done"}]
      /\ after \in [Requests -> SUBSET Requests]
  BY DEF TypeOK
<1>5. LogTruthful'
  BY <1>1 DEF Logs, LogTruthful
<1>6. \A q \in Requests : q # n => after'[q] = after[q]
  BY <1>1, <1>4
<1>7. LogKeepsUp'
  BY <1>1, <1>2, <1>6 DEF Logs, LogKeepsUp
<1>8. Audits'
  <2>1. \A q \in Requests : pc'[q] = "audit" => InCommits(q)'
    BY <1>1, <1>3, <1>4 DEF Logs, Audits, InCommits
  <2>2. \A i \in 1 .. Len(log) : log[i] \in Requests /\ pc[log[i]] = "done"
    BY Bounds DEF Logs, Audits
  <2>3. \A i \in 1 .. Len(log') : pc'[log'[i]] = "done"
    BY <1>1, <1>2, <1>4, <2>2
  <2>4. \A q \in Requests : \A p \in after'[q] : status'[p] = "ok"
    BY <1>1, <1>4, <1>6 DEF Logs, Audits
  <2>5. QED
    BY <2>1, <2>3, <2>4 DEF Audits
<1>9. QED
  BY <1>5, <1>7, <1>8 DEF Logs

LEMMA LogsChanged ==
  ASSUME TypeOK, Logs, NEW r \in Requests, Committed(r)
  PROVE  Logs'
<1>1. /\ pc[r] = "statement" /\ pc' = [pc EXCEPT ![r] = "audit"]
      /\ commits' = Append(commits, r)
      /\ UNCHANGED <<log, status, unlogged, after>>
  BY DEF Committed, Goto, past
<1>2. /\ commits \in Seq(Requests) /\ Len(commits) \in Nat
      /\ \A i \in 1 .. Len(log) : log[i] \in Requests
  BY Bounds
<1>3. /\ Len(commits') = Len(commits) + 1 /\ commits'[Len(commits) + 1] = r
      /\ \A k \in 1 .. Len(commits) : commits'[k] = commits[k]
  BY <1>1, <1>2
<1>4. LogTruthful'
  BY <1>1, <1>2, <1>3 DEF Logs, LogTruthful
<1>5. LogKeepsUp'
  BY <1>1 DEF Logs, LogKeepsUp
<1>6. Audits'
  <2>1. pc \in [Requests -> Steps \cup {"none", "done"}]
    BY DEF TypeOK
  <2>2. \A q \in Requests : InCommits(q) => InCommits(q)'
    BY <1>2, <1>3 DEF InCommits
  <2>3. InCommits(r)'
    BY <1>2, <1>3 DEF InCommits
  <2>4. \A q \in Requests : pc'[q] = "audit" => InCommits(q)'
    BY <1>1, <2>1, <2>2, <2>3 DEF Logs, Audits
  <2>5. \A i \in 1 .. Len(log') : pc'[log'[i]] = "done"
    BY <1>1, <1>2, <2>1 DEF Logs, Audits
  <2>6. QED
    BY <1>1, <2>4, <2>5 DEF Logs, Audits
<1>7. QED
  BY <1>4, <1>5, <1>6 DEF Logs

\* What a request that audits saw answered before it is in the changelog by now,
\* or lost.
LEMMA LogsAudit ==
  ASSUME TypeOK, Stages, Logs, NEW r \in Requests, Audit(r)
  PROVE  Logs'
<1>1. /\ pc[r] = "audit" /\ pc' = [pc EXCEPT ![r] = "done"]
      /\ status' = [status EXCEPT ![r] = "ok"]
      /\ UNCHANGED <<commits, after>>
  BY DEF Audit, AuditWriting, Answer, Goto, past
<1>2. /\ log \in Seq(Requests) /\ Len(log) \in Nat
      /\ \A i \in 1 .. Len(log) : log[i] \in Requests
      /\ log \o <<r>> = Append(log, r)
  BY Bounds, OneMore
<1>3. \/ log' = Append(log, r) /\ unlogged' = unlogged
      \/ log' = log /\ unlogged' = unlogged \cup {r}
  <2>1. \/ log' = log \o <<r>> /\ unlogged' = unlogged
        \/ log' = log /\ unlogged' = unlogged \cup {r}
    BY DEF Audit, AuditWriting, past
  <2>2. QED
    BY <1>2, <2>1
<1>4. /\ pc \in [Requests -> Steps \cup {"none", "done"}] /\ DOMAIN status = Requests
      /\ after \in [Requests -> SUBSET Requests]
  BY DEF TypeOK
<1>5. /\ \A i \in 1 .. Len(log) : log[i] # r
      /\ InCommits(r)
      /\ status[r] = "none"
      /\ \A q \in after[r] : status[q] = "ok" /\ q # r /\ q \in Requests
  <2>1. \A i \in 1 .. Len(log) : log[i] # r
    BY <1>1, <1>2 DEF Logs, Audits
  <2>2. InCommits(r) /\ status[r] = "none"
    BY <1>1 DEF Logs, Audits, Stages
  <2>3. QED
    BY <1>4, <2>1, <2>2 DEF Logs, Audits
<1>6. /\ \A q \in Requests : q # r => status'[q] = status[q]
      /\ status'[r] = "ok"
  BY <1>1, <1>4
<1>7. Audits'
  <2>1. \A q \in Requests : pc'[q] = "audit" => InCommits(q)'
    BY <1>1, <1>4 DEF Logs, Audits, InCommits
  <2>2. \A i \in 1 .. Len(log') : pc'[log'[i]] = "done"
    BY <1>1, <1>2, <1>3, <1>4 DEF Logs, Audits
  <2>3. \A q \in Requests : \A p \in after'[q] : status'[p] = "ok"
    BY <1>1, <1>4, <1>6 DEF Logs, Audits
  <2>4. QED
    BY <2>1, <2>2, <2>3 DEF Audits
<1>8. CASE log' = log /\ unlogged' = unlogged \cup {r}
  <2>1. LogTruthful'
    BY <1>1, <1>8 DEF Logs, LogTruthful
  <2>2. LogKeepsUp'
    BY <1>1, <1>6, <1>8 DEF Logs, LogKeepsUp
  <2>3. QED
    BY <1>7, <2>1, <2>2 DEF Logs
<1>9. CASE log' = Append(log, r) /\ unlogged' = unlogged
  <2>1. /\ Len(log') = Len(log) + 1 /\ log'[Len(log) + 1] = r
        /\ \A i \in 1 .. Len(log) : log'[i] = log[i]
        /\ 1 .. Len(log') = 1 .. Len(log) \cup {Len(log) + 1}
    BY <1>2, <1>9
  <2>2. LogTruthful'
    <3>1. \A i \in 1 .. Len(log') : \E k \in 1 .. Len(commits') : commits'[k] = log'[i]
      BY <1>1, <1>5, <2>1 DEF Logs, LogTruthful, InCommits
    <3>2. \A i, j \in 1 .. Len(log') : log'[i] = log'[j] => i = j
      BY <1>2, <1>5, <2>1 DEF Logs, LogTruthful
    <3>3. QED
      BY <3>1, <3>2 DEF LogTruthful
  <2>3. ASSUME NEW q \in Requests, status'[q] = "ok", q \notin unlogged'
        PROVE  \E i \in 1 .. Len(log') :
                 /\ log'[i] = q
                 /\ \A p \in after'[q] \ unlogged' : \E j \in 1 .. i - 1 : log'[j] = p
    <3>1. CASE q = r
      <4>1. \A p \in after[r] \ unlogged : \E j \in 1 .. Len(log) : log[j] = p
        BY <1>5 DEF Logs, LogKeepsUp
      <4>2. \A p \in after'[r] \ unlogged' :
              \E j \in 1 .. (Len(log) + 1) - 1 : log'[j] = p
        BY <1>1, <1>2, <1>9, <2>1, <4>1
      <4>3. QED
        BY <1>2, <2>1, <3>1, <4>2
    <3>2. CASE q # r
      <4>1. PICK i \in 1 .. Len(log) :
              /\ log[i] = q
              /\ \A p \in after[q] \ unlogged : \E j \in 1 .. i - 1 : log[j] = p
        BY <1>6, <1>9, <2>3, <3>2 DEF Logs, LogKeepsUp
      <4>2. \A p \in after'[q] \ unlogged' : \E j \in 1 .. i - 1 : log'[j] = p
        BY <1>1, <1>2, <1>9, <2>1, <4>1
      <4>3. QED
        BY <2>1, <4>1, <4>2
    <3>3. QED
      BY <3>1, <3>2
  <2>4. LogKeepsUp'
    BY <2>3 DEF LogKeepsUp
  <2>5. QED
    BY <1>7, <2>2, <2>4 DEF Logs
<1>10. QED
  BY <1>3, <1>8, <1>9

LEMMA LogsMove ==
  ASSUME TypeOK, Stages, Logs, NEW r \in 1 .. Len(call), Moves(r)
  PROVE  Logs'
<1>1. r \in Requests
  BY Bounds
<1>2. pc \in [Requests -> Steps \cup {"none", "done"}] /\ DOMAIN status = Requests
  BY DEF TypeOK
<1>3. CASE Refused(r) \/ Listed(r) \/ FoundDomain(r)
  <2>1. PICK from \in Steps, s \in Refusals \cup {"document"} : Answer(r, from, s)
    BY <1>3 DEF Refused, Listed, FoundDomain, Document, Steps
  <2>2. UNCHANGED <<log, commits, unlogged, after>>
    BY <1>3 DEF Refused, Listed, FoundDomain, Document, past
  <2>3. status[r] = "none"
    BY <1>1, <2>1 DEF Stages, Answer, Goto, Steps
  <2>4. \A q \in Requests : status'[q] = "ok" <=> status[q] = "ok"
    BY <1>2, <2>1, <2>3 DEF Answer, Refusals
  <2>5. QED
    BY <1>2, <2>1, <2>2, <2>4, LogsKept DEF Answer, Goto
<1>4. CASE FoundId(r) \/ FoundUser(r) \/ ListDomains(r)
  <2>1. PICK from \in Steps, to \in Steps \ {"audit"} : Goto(r, from, to)
    BY <1>4 DEF FoundId, FoundUser, ListDomains, Steps
  <2>2. UNCHANGED <<log, commits, unlogged, after, status>>
    BY <1>4 DEF FoundId, FoundUser, ListDomains, past
  <2>3. QED
    BY <1>2, <2>1, <2>2, LogsKept DEF Goto, Steps
<1>5. CASE \E d \in todo[r] : ListUsers(r, d)
  BY <1>5, LogsKept DEF ListUsers, ListUsersWhere, past
<1>6. CASE Changed(r)
  BY <1>1, <1>6, LogsChanged DEF Changed
<1>7. CASE Audit(r)
  BY <1>1, <1>7, LogsAudit
<1>8. QED
  BY <1>3, <1>4, <1>5, <1>6, <1>7 DEF Moves

--------------------------------------------------------------------------------
(***************************************************************************)
(* The directory.                                                          *)
(***************************************************************************)

\* The directory is what the tables say.
LEMMA DirectoryKept ==
  ASSUME NEW q, UNCHANGED <<domains, users>>, UNCHANGED call[q]
  PROVE  Directory(call[q])' = Directory(call[q]) /\ Matching(call[q])' = Matching(call[q])
BY DEF Directory, Matching, UsersOf, Named

\* What a request reads stays what it was while neither it nor the tables move.
LEMMA ReadingKept ==
  ASSUME NEW q \in Requests, Reading(q),
         UNCHANGED <<domains, users, commits>>,
         UNCHANGED <<call[q], pc[q], since[q], found[q], todo[q], doc[q], status[q]>>
  PROVE  Reading(q)'
<1>1. Directory(call[q])' = Directory(call[q]) /\ Matching(call[q])' = Matching(call[q])
  BY DirectoryKept
<1>2. On' = On /\ \A d \in On : EntryOf(d)' = EntryOf(d)
  BY DEF On, EntryOf, UsersOf, Named
<1>3. {EntryOf(d) : d \in On \ todo[q]}' = {EntryOf(d) : d \in On \ todo[q]}
  BY <1>2 DEF On, EntryOf, UsersOf, Named
<1>4. QED
  BY <1>1, <1>2, <1>3 DEF Reading

LEMMA ReadingBegin ==
  ASSUME TypeOK, Stages, NEW c \in Call, Begin(c), NEW q \in Requests, Reading(q)
  PROVE  Reading(q)'
<1> DEFINE n == Len(call) + 1
<1>1. /\ n \in Requests
      /\ call' = Append(call, c)
      /\ pc' = [pc EXCEPT ![n] = FirstStep(c)]
      /\ since' = [since EXCEPT ![n] = IF IsChange(c) THEN 0 ELSE Len(commits)]
      /\ UNCHANGED <<domains, users, found, todo, doc, status, commits>>
  BY DEF Begin, tables, local
<1>2. /\ call \in Seq(Call) /\ Len(call) \in Nat /\ Len(commits) \in Nat
      /\ q \in Nat /\ q # 0
  BY Bounds DEF Requests
<1>3. /\ pc \in [Requests -> Steps \cup {"none", "done"}]
      /\ since \in [Requests -> Nat]
  BY DEF TypeOK
<1>4. CASE q <= Len(call)
  <2>1. call'[q] = call[q] /\ q # n
    BY <1>1, <1>2, <1>4
  <2>2. QED
    BY <1>1, <1>3, <2>1, ReadingKept
<1>5. CASE q = n
  <2>1. pc[q] = "none" /\ status[q] = "none" /\ doc[q] = {}
    <3>1. q > Len(call)
      BY <1>2, <1>5
    <3>2. pc[q] = "none"
      BY <3>1 DEF Stages
    <3>3. QED
      BY <3>2 DEF Stages, Reading
  <2>2. call'[q] = c /\ pc'[q] = FirstStep(c) /\ since'[q] \in {0, Len(commits)}
    BY <1>1, <1>2, <1>3, <1>5
  <2>3. /\ FirstStep(c) \notin {"get domain", "list users", "done"}
        /\ FirstStep(c) = "get user" => c.verb = "user"
        /\ FirstStep(c) = "list domains" => c.verb = "browse"
    BY DEF FirstStep
  <2>4. since'[q] <= Len(commits')
    BY <1>1, <1>2, <2>2
  <2>5. status'[q] = "none" /\ doc'[q] = {}
    BY <1>1, <2>1
  <2>6. QED
    BY <2>2, <2>3, <2>4, <2>5 DEF Reading
<1>6. CASE q > n
  <2>1. pc[q] = "none" /\ status[q] = "none"
    <3>1. q > Len(call)
      BY <1>2, <1>6
    <3>2. pc[q] = "none"
      BY <3>1 DEF Stages
    <3>3. QED
      BY <3>2 DEF Stages
  <2>2. /\ pc'[q] = "none" /\ since'[q] = since[q] /\ status'[q] = "none"
        /\ doc'[q] = doc[q] /\ commits' = commits
    BY <1>1, <1>2, <1>3, <1>6, <2>1
  <2>3. QED
    BY <2>1, <2>2 DEF Reading
<1>7. QED
  BY <1>2, <1>4, <1>5, <1>6

LEMMA ReadingChanged ==
  ASSUME TypeOK, Stages, NEW r \in Requests, Committed(r), NEW q \in Requests, Reading(q)
  PROVE  Reading(q)'
<1>1. /\ pc[r] = "statement" /\ pc' = [pc EXCEPT ![r] = "audit"]
      /\ commits' = Append(commits, r)
      /\ UNCHANGED <<call, doc, since>>
  BY DEF Committed, Goto, past
<1>2. commits \in Seq(Requests) /\ Len(commits) \in Nat /\ Len(commits') = Len(commits) + 1
  BY <1>1, Bounds
<1>3. /\ pc \in [Requests -> Steps \cup {"none", "done"}]
      /\ since \in [Requests -> Nat]
  BY DEF TypeOK
<1>4. since'[q] <= Len(commits') /\ since'[q] # Len(commits')
  <2>1. since[q] <= Len(commits) /\ since[q] \in Nat
    BY <1>3 DEF Reading
  <2>2. QED
    BY <1>1, <1>2, <2>1
<1>5. CASE q = r
  <2>1. pc'[q] = "audit" /\ doc[q] = {} /\ doc'[q] = doc[q]
    BY <1>1, <1>3, <1>5 DEF Reading
  <2>2. QED
    BY <1>4, <2>1 DEF Reading
<1>6. CASE q # r
  <2>1. pc'[q] = pc[q] /\ doc'[q] = doc[q] /\ call'[q] = call[q]
    BY <1>1, <1>3, <1>6
  <2>2. QED
    BY <1>4, <2>1 DEF Reading
<1>7. QED
  BY <1>5, <1>6

\* An answer other than a document, an audited change, an id found.
LEMMA ReadingPlain ==
  ASSUME TypeOK, NEW r \in Requests, Reading(r),
         UNCHANGED <<domains, users, commits, call, doc, since>>,
         \/ \E from \in Steps, s \in Refusals \cup {"ok"} : Answer(r, from, s)
         \/ Goto(r, "look up", "statement") /\ status' = status,
         pc[r] # "done" => status[r] = "none"
  PROVE  Reading(r)'
<1>1. pc \in [Requests -> Steps \cup {"none", "done"}] /\ DOMAIN status = Requests
  BY DEF TypeOK
<1>2. CASE \E from \in Steps, s \in Refusals \cup {"ok"} : Answer(r, from, s)
  <2>1. pc'[r] = "done" /\ status'[r] # "document"
    BY <1>1, <1>2 DEF Answer, Goto, Refusals
  <2>2. QED
    BY <2>1 DEF Reading
<1>3. CASE Goto(r, "look up", "statement") /\ status' = status
  <2>1. pc[r] = "look up" /\ pc'[r] = "statement" /\ status'[r] = "none"
    BY <1>1, <1>3 DEF Goto
  <2>2. QED
    BY <2>1 DEF Reading
<1>4. QED
  BY <1>2, <1>3

\* A name has one domain, and a number one user in it.
LEMMA OneRow ==
  ASSUME RowsConsistent, NEW c
  PROVE  /\ \A d, e \in Named(c.name) : d = e
         /\ \A u, v \in Matching(c) : u = v
BY DEF RowsConsistent, Named, Matching, UsersOf

LEMMA ReadingFoundUser ==
  ASSUME TypeOK, RowsConsistent, Stages, NEW r \in Requests, FoundUser(r), Reading(r)
  PROVE  Reading(r)'
<1>1. PICK u \in Matching(call[r]) :
        /\ Goto(r, "get user", "get domain")
        /\ found' = [found EXCEPT ![r] = {u}]
        /\ UNCHANGED <<domains, users, call, doc, status, commits, since>>
  BY DEF FoundUser, tables, past
<1>2. /\ pc \in [Requests -> Steps \cup {"none", "done"}]
      /\ found \in [Requests -> SUBSET UserRow]
  BY DEF TypeOK
<1>3. /\ pc[r] = "get user" /\ pc'[r] = "get domain" /\ found'[r] = {u}
      /\ status[r] = "none"
  BY <1>1, <1>2 DEF Goto, Stages
<1>4. Matching(call[r])' = Matching(call[r]) /\ Matching(call[r]) = {u}
  BY <1>1, OneRow, DirectoryKept
<1>5. QED
  BY <1>1, <1>3, <1>4 DEF Reading

LEMMA ReadingFoundDomain ==
  ASSUME TypeOK, RowsConsistent, NEW r \in Requests, FoundDomain(r), Reading(r)
  PROVE  Reading(r)'
<1> DEFINE c == call[r]
<1>1. PICK d \in Named(c.name) : Document(r, "get domain", {[domain |-> d, users |-> found[r]]})
  BY DEF FoundDomain
<1>2. /\ pc \in [Requests -> Steps \cup {"none", "done"}]
      /\ doc \in [Requests -> SUBSET Entry]
  BY DEF TypeOK
<1>3. /\ pc[r] = "get domain" /\ pc'[r] = "done"
      /\ doc'[r] = {[domain |-> d, users |-> found[r]]}
      /\ UNCHANGED <<domains, users, call, commits, since>>
  BY <1>1, <1>2 DEF Document, Answer, Goto, tables, past
<1>4. c.verb = "user"
  BY <1>3 DEF Reading
<1>5. Named(c.name) = {d}
  BY OneRow
<1>6. Directory(c) = {[domain |-> d, users |-> Matching(c)]}
  BY <1>4, <1>5 DEF Directory
<1>7. Directory(call[r])' = Directory(c)
  BY <1>3, DirectoryKept
<1>8. since[r] = Len(commits) => found[r] = Matching(c)
  BY <1>3 DEF Reading
<1>9. since'[r] = Len(commits') => doc'[r] = Directory(call[r])'
  BY <1>3, <1>6, <1>7, <1>8
<1>10. QED
  BY <1>3, <1>9 DEF Reading

LEMMA ReadingListDomains ==
  ASSUME TypeOK, Stages, NEW r \in Requests, ListDomains(r), Reading(r)
  PROVE  Reading(r)'
<1>1. /\ pc[r] = "list domains" /\ pc' = [pc EXCEPT ![r] = "list users"]
      /\ todo' = [todo EXCEPT ![r] = On]
      /\ UNCHANGED <<domains, users, call, doc, status, commits, since>>
  BY DEF ListDomains, Goto, On, tables, past
<1>2. /\ pc \in [Requests -> Steps \cup {"none", "done"}]
      /\ todo \in [Requests -> SUBSET DomainRow]
  BY DEF TypeOK
<1>3. pc'[r] = "list users" /\ todo'[r] = On /\ doc'[r] = {} /\ status'[r] = "none"
  BY <1>1, <1>2 DEF Reading, Stages
<1>4. On' = On
  BY <1>1 DEF On
<1>5. {EntryOf(d) : d \in On \ todo[r]}' = {}
  BY <1>3, <1>4
<1>6. call[r].verb = "browse" /\ since[r] <= Len(commits)
  BY <1>1 DEF Reading
<1>7. QED
  BY <1>1, <1>3, <1>4, <1>5, <1>6 DEF Reading

LEMMA ReadingListUsers ==
  ASSUME TypeOK, NEW r \in Requests, NEW d \in todo[r], ListUsers(r, d), Reading(r),
         status[r] = "none"
  PROVE  Reading(r)'
<1>1. /\ pc[r] = "list users"
      /\ todo' = [todo EXCEPT ![r] = @ \ {d}]
      /\ doc' = [doc EXCEPT ![r] = @ \cup {EntryOf(d)}]
      /\ UNCHANGED <<domains, users, call, pc, status, commits, since>>
  <2>1. UsersOf(d.name) \cap {u \in users : u.enabled} = {u \in UsersOf(d.name) : u.enabled}
    BY DEF UsersOf
  <2>2. QED
    BY <2>1 DEF ListUsers, ListUsersWhere, EntryOf, tables, past
<1>2. /\ todo \in [Requests -> SUBSET DomainRow]
      /\ doc \in [Requests -> SUBSET Entry]
  BY DEF TypeOK
<1>3. todo'[r] = todo[r] \ {d} /\ doc'[r] = doc[r] \cup {EntryOf(d)}
  BY <1>1, <1>2
<1>4. On' = On /\ \A e : EntryOf(e)' = EntryOf(e)
  BY <1>1 DEF On, EntryOf, UsersOf, Named
<1>5. ASSUME since[r] = Len(commits)
      PROVE  todo'[r] \subseteq On' /\ doc'[r] = {EntryOf(e) : e \in On \ todo[r]}'
  <2>1. todo[r] \subseteq On /\ doc[r] = {EntryOf(e) : e \in On \ todo[r]}
    BY <1>1, <1>5 DEF Reading
  <2>2. On \ todo'[r] = (On \ todo[r]) \cup {d}
    BY <1>3, <2>1
  <2>3. doc'[r] = {EntryOf(e) : e \in On \ todo'[r]}
    BY <1>3, <2>1, <2>2
  <2>4. {EntryOf(e) : e \in On \ todo[r]}' = {EntryOf(e) : e \in On \ todo'[r]}
    BY <1>4
  <2>5. QED
    BY <1>3, <1>4, <2>1, <2>3, <2>4
<1>6. call[r].verb = "browse" /\ since[r] <= Len(commits)
  BY <1>1 DEF Reading
<1>7. QED
  BY <1>1, <1>5, <1>6 DEF Reading

LEMMA ReadingListed ==
  ASSUME TypeOK, NEW r \in Requests, Listed(r), Reading(r)
  PROVE  Reading(r)'
<1>1. /\ todo[r] = {} /\ pc[r] = "list users" /\ pc' = [pc EXCEPT ![r] = "done"]
      /\ UNCHANGED <<domains, users, call, doc, commits, since>>
  BY DEF Listed, Answer, Goto, tables, past
<1>2. pc \in [Requests -> Steps \cup {"none", "done"}]
  BY DEF TypeOK
<1>3. pc'[r] = "done" /\ call[r].verb = "browse" /\ since[r] <= Len(commits)
  BY <1>1, <1>2 DEF Reading
<1>4. since[r] = Len(commits) => doc[r] = {EntryOf(d) : d \in On}
  BY <1>1 DEF Reading
<1>5. Directory(call[r]) = {EntryOf(d) : d \in On}
  BY <1>3 DEF Directory, EntryOf, On
<1>6. Directory(call[r])' = Directory(call[r])
  BY <1>1, DirectoryKept
<1>7. since'[r] = Len(commits') => doc'[r] = Directory(call[r])'
  BY <1>1, <1>4, <1>5, <1>6
<1>8. QED
  BY <1>1, <1>3, <1>7 DEF Reading

LEMMA ReadingMove ==
  ASSUME TypeOK, RowsConsistent, Stages, NEW r \in 1 .. Len(call), Moves(r),
         NEW q \in Requests, Reading(q)
  PROVE  Reading(q)'
<1>1. r \in Requests
  BY Bounds
<1>2. /\ pc \in [Requests -> Steps \cup {"none", "done"}]
      /\ status \in [Requests -> {"none", "ok", "already_exists", "not_found",
                              "internal_error", "document", "not found document",
                              "failed"}]
      /\ found \in [Requests -> SUBSET UserRow]
      /\ todo \in [Requests -> SUBSET DomainRow]
      /\ doc \in [Requests -> SUBSET Entry]
  BY DEF TypeOK
<1>3. CASE Changed(r)
  BY <1>1, <1>3, ReadingChanged DEF Changed
<1>4. CASE q # r /\ ~Changed(r)
  <2>1. UNCHANGED <<domains, users, call, commits, since>>
    BY <1>4 DEF Moves, Refused, FoundId, Audit, AuditWriting, FoundUser, FoundDomain,
                Document, ListDomains, Listed, ListUsers, ListUsersWhere, tables, past
  <2>2. pc'[q] = pc[q] /\ found'[q] = found[q] /\ todo'[q] = todo[q]
    BY <1>1, <1>2, <1>4
       DEF Moves, Refused, FoundId, Audit, AuditWriting, FoundUser, FoundDomain,
           Document, ListDomains, Listed, ListUsers, ListUsersWhere, Answer, Goto, local
  <2>3. doc'[q] = doc[q] /\ status'[q] = status[q]
    BY <1>1, <1>2, <1>4
       DEF Moves, Refused, FoundId, Audit, AuditWriting, FoundUser, FoundDomain,
           Document, ListDomains, Listed, ListUsers, ListUsersWhere, Answer
  <2>4. QED
    BY <2>1, <2>2, <2>3, ReadingKept
<1>5. CASE q = r
  <2>1. pc[r] # "done" => status[r] = "none"
    BY <1>1 DEF Stages
  <2>2. CASE Refused(r) \/ FoundId(r) \/ Audit(r)
    <3>1. UNCHANGED <<domains, users, commits, call, doc, since>>
      BY <2>2 DEF Refused, FoundId, Audit, AuditWriting, tables, past
    <3>2. \/ \E from \in Steps, s \in Refusals \cup {"ok"} : Answer(r, from, s)
          \/ Goto(r, "look up", "statement") /\ status' = status
      BY <2>2 DEF Refused, FoundId, Audit, AuditWriting, Steps
    <3>3. QED
      BY <1>1, <1>5, <2>1, <3>1, <3>2, ReadingPlain
  <2>3. CASE FoundUser(r)
    BY <1>1, <1>5, <2>3, ReadingFoundUser
  <2>4. CASE FoundDomain(r)
    BY <1>1, <1>5, <2>4, ReadingFoundDomain
  <2>5. CASE ListDomains(r)
    BY <1>1, <1>5, <2>5, ReadingListDomains
  <2>6. CASE Listed(r)
    BY <1>1, <1>5, <2>6, ReadingListed
  <2>7. CASE \E d \in todo[r] : ListUsers(r, d)
    <3>1. status[r] = "none"
      BY <2>1, <2>7 DEF ListUsers, ListUsersWhere
    <3>2. QED
      BY <1>1, <1>5, <2>7, <3>1, ReadingListUsers
  <2>8. QED
    BY <1>3, <2>2, <2>3, <2>4, <2>5, <2>6, <2>7 DEF Moves
<1>6. QED
  BY <1>3, <1>4, <1>5

--------------------------------------------------------------------------------
(***************************************************************************)
(* The theorems.                                                           *)
(***************************************************************************)

LEMMA StepInv == Inv /\ [Next]_vars => Inv'
<1> SUFFICES ASSUME Inv, [Next]_vars PROVE Inv'
  OBVIOUS
<1> USE DEF Inv
<1>1. ASSUME NEW c \in Call, Begin(c)
      PROVE  Inv'
  <2>1. UNCHANGED <<domains, users>>
    BY <1>1 DEF Begin, tables
  <2>2. RowsConsistent'
    BY <2>1 DEF RowsConsistent
  <2>3. QED
    BY <1>1, <2>2, BeginTypes, StagesBegin, LogsBegin, ReadingBegin
<1>2. ASSUME NEW r \in 1 .. Len(call), Moves(r)
      PROVE  Inv'
  <2>1. RowsConsistent'
    <3>1. CASE Changed(r)
      BY <1>2, <3>1, RowsStep
    <3>2. CASE ~Changed(r)
      <4>1. UNCHANGED <<domains, users>>
        BY <1>2, <3>2
           DEF Moves, Refused, FoundId, Audit, AuditWriting, FoundUser, FoundDomain,
               Document, ListDomains, Listed, ListUsers, ListUsersWhere, tables
      <4>2. QED
        BY <4>1 DEF RowsConsistent
    <3>3. QED
      BY <3>1, <3>2
  <2>2. QED
    BY <1>2, <2>1, MoveTypes, StagesMove, LogsMove, ReadingMove
<1>3. CASE Next
  BY <1>1, <1>2, <1>3, Kinds DEF Next
<1>4. CASE UNCHANGED vars
  <2>1. TypeOK' /\ RowsConsistent' /\ Stages'
    BY <1>4 DEF vars, TypeOK, RowsConsistent, Stages
  <2>2. Logs'
    BY <1>4 DEF vars, Logs, LogTruthful, LogKeepsUp, Audits, InCommits
  <2>3. \A q \in Requests : Reading(q)'
    BY <1>4, ReadingKept DEF vars
  <2>4. QED
    BY <2>1, <2>2, <2>3 DEF Requests
<1>5. QED
  BY <1>3, <1>4

LEMMA Invariance == Spec => []Inv
BY InitInv, StepInv, PTL DEF Spec

\* Type correctness.
THEOREM Typing == Spec => []TypeOK
<1>1. Inv => TypeOK
  BY DEF Inv
<1>2. QED
  BY <1>1, Invariance, PTL

\* However the statements of concurrent requests cross, each user belongs to a
\* domain that exists, no two users of a domain share a number, and no two
\* domains a name (store/domains.go, store/users.go).
THEOREM Consistent == Spec => []RowsConsistent
<1>1. Inv => RowsConsistent
  BY DEF Inv
<1>2. QED
  BY <1>1, Invariance, PTL

\* The changelog holds nothing that did not happen, and nothing twice
\* (audit/audit.go).
THEOREM ChangelogTruthful == Spec => []LogTruthful
<1>1. Inv => LogTruthful
  BY DEF Inv, Logs
<1>2. QED
  BY <1>1, Invariance, PTL

\* A change that was answered is in the changelog, after those that were
\* answered before it was asked for, unless the audit's INSERT failed
\* (audit/audit.go).
THEOREM ChangelogKeepsUp == Spec => []LogKeepsUp
<1>1. Inv => LogKeepsUp
  BY DEF Inv, Logs
<1>2. QED
  BY <1>1, Invariance, PTL

\* A directory document read over several statements is the directory, if no
\* change committed between the first and the last (store/directory.go).
THEOREM QuietRead == Spec => []QuietDocument
<1>1. Inv => QuietDocument
  BY Bounds DEF Inv, QuietDocument, Reading
<1>2. QED
  BY <1>1, Invariance, PTL
================================================================================
