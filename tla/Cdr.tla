---------------------------------- MODULE Cdr ----------------------------------
(***************************************************************************)
(* Call detail records: FreeSWITCH posts the record of every call that     *)
(* ended to POST /cdr until it is answered 200 (api/cdr.go), the control   *)
(* plane inserts it once (store/cdr.go), and an operator walks the list    *)
(* page by page while new records arrive.                                  *)
(*                                                                         *)
(* A record is the call it is about.  What the operators tell apart of it: *)
(* the uuid it is stored under, the second the call started, which the     *)
(* list is ordered by, and whether it was answered, which a filter asks.   *)
(***************************************************************************)
EXTENDS Integers, FiniteSets, SequencesExt

CONSTANTS
  Calls,     \* the calls, numbered in the order of their uuids
  NoUuid,    \* stands for a payload with neither uuid nor call_uuid
  Uuid,      \* [Calls -> uuid or NoUuid]
  Start,     \* [Calls -> Nat], start_epoch
  Answered,  \* the calls with billsec > 0
  MaxLimit,  \* maxPageLimit
  Limits,    \* the ?limit= an operator asks for; 0 is none
  Slots,     \* requests FreeSWITCH can have in the control plane per call
  MaxFaults  \* failed inserts, lost answers and restarts: a bound

ASSUME CdrAssumption ==
  /\ Calls \subseteq Nat
  /\ Answered \subseteq Calls
  /\ Start \in [Calls -> Nat]
  /\ MaxLimit \in Nat \ {0}
  /\ Limits \subseteq Nat
  /\ Slots \subseteq Nat \ {0}
  /\ MaxFaults \in Nat

VARIABLES
  ended,     \* calls that ended
  spool,     \* records FreeSWITCH keeps until one is answered 200
  awaited,   \* [Calls -> slot of the request it waits for, 0 if none]
  requests,  \* requests in handlePostCDR: <<call, slot>>
  cdr,       \* the table: the call each row was written from
  faults,
  pc,        \* of the walk: idle, count, page, answered, done
  asked,     \* its page size and filter
  offset, total, page,
  due, seen  \* history: rows there when it began, those it was shown

ingest == <<ended, spool, awaited, requests, cdr, faults>>
walk   == <<pc, asked, offset, total, page, due, seen>>
vars   == <<ingest, walk>>

Init ==
  /\ ended = {} /\ spool = {} /\ requests = {} /\ cdr = {} /\ faults = 0
  /\ awaited = [c \in Calls |-> 0]
  /\ pc = "idle" /\ asked = [limit |-> 0, where |-> Calls]
  /\ offset = 0 /\ total = 0 /\ page = <<>> /\ due = {} /\ seen = {}

\* The client of a walk that broke off keeps nothing of it.
NoWalk ==
  /\ pc' = "idle" /\ asked' = [limit |-> 0, where |-> Calls]
  /\ offset' = 0 /\ total' = 0 /\ page' = <<>> /\ due' = {} /\ seen' = {}

--------------------------------------------------------------------------------
(* The posts. *)

Fault == faults < MaxFaults /\ faults' = faults + 1

EndCall(c) ==
  /\ c \notin ended
  /\ ended' = ended \cup {c} /\ spool' = spool \cup {c}
  /\ UNCHANGED <<awaited, requests, cdr, faults, walk>>

Post(c) ==
  /\ c \in spool /\ awaited[c] = 0
  /\ \E s \in Slots :
       /\ <<c, s>> \notin requests
       /\ requests' = requests \cup {<<c, s>>}
       /\ awaited' = [awaited EXCEPT ![c] = s]
  /\ UNCHANGED <<ended, spool, cdr, faults, walk>>

\* FreeSWITCH stops waiting; the handler may still be running.
GiveUp(c) ==
  /\ awaited[c] # 0 /\ Fault
  /\ awaited' = [awaited EXCEPT ![c] = 0]
  /\ UNCHANGED <<ended, spool, requests, cdr, walk>>

\* The handler of request r is done. 200 empties the spool of the record if
\* FreeSWITCH still waits for this answer; any other answer leaves it there.
Reply(r, code) ==
  /\ r \in requests /\ requests' = requests \ {r}
  /\ IF awaited[r[1]] = r[2]
       THEN /\ awaited' = [awaited EXCEPT ![r[1]] = 0]
            /\ spool' = IF code = 200 THEN spool \ {r[1]} ELSE spool
       ELSE UNCHANGED <<awaited, spool>>
  /\ UNCHANGED <<ended, walk>>

Stored(u) == \E d \in cdr : Uuid[d] = u

\* Mutant: a plain INSERT: the primary key refuses the second, which is answered 500.
InsertStrict(c) == IF Stored(Uuid[c]) THEN <<cdr, 500>> ELSE <<cdr \cup {c}, 200>>

\* INSERT ... ON CONFLICT (id) DO NOTHING: the rows after it, and the answer.
InsertCDR(c) == IF Stored(Uuid[c]) THEN <<cdr, 200>> ELSE <<cdr \cup {c}, 200>>

Malformed(r) ==
  /\ Uuid[r[1]] = NoUuid
  /\ Reply(r, 400) /\ UNCHANGED <<cdr, faults>>

Insert(r) ==
  /\ Uuid[r[1]] # NoUuid
  /\ Reply(r, InsertCDR(r[1])[2]) /\ cdr' = InsertCDR(r[1])[1]
  /\ UNCHANGED faults

\* The statement fails: the database is away, or FreeSWITCH has hung up and
\* the request's context is cancelled.
InsertFails(r) ==
  /\ Uuid[r[1]] # NoUuid
  /\ Reply(r, 500) /\ Fault /\ UNCHANGED cdr

\* The control plane is killed and started again: what it handled is gone.
Restart ==
  /\ Fault
  /\ requests' = {} /\ awaited' = [c \in Calls |-> 0] /\ NoWalk
  /\ UNCHANGED <<ended, spool, cdr>>

--------------------------------------------------------------------------------
(* The walk: a client that asks for page after page, each from where the   *)
(* last one ended, until one is empty.                                     *)

\* WHERE: the rows the filter lets through.
Filtered == cdr \cap asked.where

\* ORDER BY start_epoch DESC, id
Before(a, b) == Start[a] > Start[b] \/ (Start[a] = Start[b] /\ a < b)

Preceding(c) == {d \in Filtered : Before(d, c)}

\* Row i of the result is the one that i - 1 rows come before.
Ordered ==
  [i \in 1 .. Cardinality(Filtered) |->
     CHOOSE c \in Filtered : Cardinality(Preceding(c)) = i - 1]

\* Mutant: the arguments of LIMIT $6 OFFSET $7 the wrong way round.
PagedSwapped(s, limit, from) ==
  IF limit > 0 THEN SubSeq(s, limit + 1, Min({limit + from, Len(s)})) ELSE s

\* LIMIT and OFFSET are added to the query only when a limit was asked for.
Paged(s, limit, from) ==
  IF limit > 0 THEN SubSeq(s, from + 1, Min({from + limit, Len(s)})) ELSE s

\* ?limit= as parsePage reads it.
Capped(n) == IF n > MaxLimit THEN MaxLimit ELSE n

Open ==
  /\ pc = "idle" /\ pc' = "count"
  /\ \E n \in Limits, f \in {Calls, Answered} :
       /\ asked' = [limit |-> Capped(n), where |-> f]
       /\ due' = cdr \cap f
  /\ offset' = 0 /\ total' = 0 /\ page' = <<>> /\ seen' = {}
  /\ UNCHANGED ingest

\* Mutant: the count without the WHERE of the page.
CountAll ==
  /\ pc = "count" /\ pc' = "page"
  /\ total' = Cardinality(cdr)
  /\ UNCHANGED <<ingest, asked, offset, page, due, seen>>

CountRows ==
  /\ pc = "count" /\ pc' = "page"
  /\ total' = Cardinality(Filtered)
  /\ UNCHANGED <<ingest, asked, offset, page, due, seen>>

SelectPage ==
  /\ pc = "page" /\ pc' = "answered"
  /\ page' = Paged(Ordered, asked.limit, offset)
  /\ seen' = seen \cup (due \cap ToSet(page'))
  /\ UNCHANGED <<ingest, asked, offset, total, due>>

Continue ==
  /\ pc = "answered"
  /\ IF page = <<>> \/ asked.limit = 0
       THEN pc' = "done" /\ UNCHANGED <<offset, total, page>>
       ELSE pc' = "count" /\ offset' = offset + Len(page) /\ total' = 0 /\ page' = <<>>
  /\ UNCHANGED <<ingest, asked, due, seen>>

Close == pc = "done" /\ NoWalk /\ UNCHANGED ingest

\* Either query can fail: the answer is 500 and the client gives up.
QueryFails ==
  /\ pc \in {"count", "page"} /\ NoWalk
  /\ UNCHANGED ingest

Next ==
  \/ \E c \in Calls : EndCall(c) \/ Post(c) \/ GiveUp(c)
  \/ \E r \in requests : Malformed(r) \/ Insert(r) \/ InsertFails(r)
  \/ Restart
  \/ Open \/ CountRows \/ SelectPage \/ Continue \/ Close \/ QueryFails

\* FreeSWITCH retries what it keeps, and a handler runs to its end.
Fairness ==
  \A c \in Calls :
    /\ WF_vars(Post(c))
    /\ WF_vars(\E r \in requests : r[1] = c /\ (Malformed(r) \/ Insert(r)))

Spec == Init /\ [][Next]_vars /\ Fairness

--------------------------------------------------------------------------------
(* Properties. *)

\* Types of the posts and the table, and of the walk.
IngestTypes ==
  /\ ended \subseteq Calls /\ spool \subseteq Calls /\ cdr \subseteq Calls
  /\ requests \subseteq Calls \X Slots
  /\ awaited \in [Calls -> Slots \cup {0}]
  /\ faults \in 0..MaxFaults

WalkTypes ==
  /\ pc \in {"idle", "count", "page", "answered", "done"}
  /\ asked.limit \in 0..MaxLimit /\ asked.where \in {Calls, Answered}
  /\ offset \in Nat /\ total \in Nat
  /\ due \subseteq Calls /\ seen \subseteq due

TypeOK == IngestTypes /\ WalkTypes

\* A record FreeSWITCH no longer keeps is in the table, whatever was lost,
\* repeated, late or restarted in between: 200 is never answered before the
\* row is there (api/cdr.go:96-102). A record without a uuid is kept.
NoneLost == \A c \in ended \ spool : Stored(Uuid[c])

\* One row per uuid: a record that is posted again, even while its first
\* request is still handled, adds nothing (store/cdr.go:21).
StoredOnce == \A c, d \in cdr : Uuid[c] = Uuid[d] => c = d

\* Every record with a uuid is stored and leaves the spool: no sequence of
\* lost answers, repeats and failures leaves one that is refused for ever
\* (store/cdr.go:9-10, 000004_cdr.up.sql:6-7).
Recorded ==
  \A c \in Calls : Uuid[c] # NoUuid =>
    (c \in ended ~> (c \notin spool /\ Stored(Uuid[c])))

\* A walk to the first empty page has shown every matching row that was there
\* when it began, although rows were inserted before, between and after the
\* pages it had read (store/cdr.go:43-47).
WalkComplete == pc = "done" => due \subseteq seen

\* X-Total-Count never promises rows the same answer lacks: the page is full,
\* or it reaches the counted total, although the two come from two queries
\* (store/cdr.go:40-48).
PageReachesTotal ==
  pc \in {"answered", "done"} =>
    \/ offset + Len(page) >= total
    \/ asked.limit > 0 /\ Len(page) = asked.limit
================================================================================
