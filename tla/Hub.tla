---------------------------------- MODULE Hub ----------------------------------
(***************************************************************************)
(* The in-process event hub: internal/events/hub.go.                       *)
(*                                                                         *)
(* The ESL listener publishes; one SSE handler per connected browser and   *)
(* the voicemail notifier subscribe. The registry of channels (h.subs) is  *)
(* guarded by a sync.RWMutex: Subscribe and cancel take it for writing,    *)
(* Publish for reading while it walks the registry and does one            *)
(* non-blocking send per channel.                                          *)
(*                                                                         *)
(* sync.RWMutex is modelled as Go implements it. A writer first takes the  *)
(* inner mutex (writer = s), which stops new readers, then waits for the   *)
(* readers inside to leave. The readers are the publishers in "fan".       *)
(*                                                                         *)
(* A channel is identified with the Subscribe call that made it; its       *)
(* buffer is what its log holds beyond the events already taken.           *)
(***************************************************************************)
EXTENDS Naturals, Sequences, FiniteSets

CONSTANTS
  Publishers,    \* goroutines that call Publish (main.go starts one listener)
  Subscribers,   \* one per call of Subscribe
  Capacity,      \* subBuffer
  MaxEvents,     \* bound: events each publisher publishes
  Nobody         \* no writer

ASSUME CapacityAssumption == Capacity \in Nat \ {0}
ASSUME MaxEventsAssumption == MaxEvents \in Nat
ASSUME NobodyAssumption == Nobody \notin Subscribers

VARIABLES
  next,          \* h.next
  subs,          \* h.subs: id -> channel
  writer,        \* who holds, or is the next to hold, h.mu for writing
  pc,            \* where each subscriber's goroutine is
  id,            \* the id cancel has captured
  closed,        \* channels that have been closed
  log,           \* events sent to each channel, in order
  taken,         \* how many of them were received
  pub,           \* where each publisher is; in "fan" it holds the read lock
  todo,          \* channels the publisher's loop has not reached
  published,     \* number of events, per publisher; the n-th is <<p, n>>
  since,         \* history: published at the moment a subscriber registered
  panic          \* a send on, or a close of, a closed channel

vars == <<next, subs, writer, pc, id, closed, log, taken, pub, todo, published,
          since, panic>>

subscriberVars == <<next, subs, writer, pc, id, closed, since>>
publisherVars  == <<pub, todo, published>>

Events == Publishers \X (1 .. MaxEvents)

Reading == {p \in Publishers : pub[p] = "fan"}
Waiting(s) == Len(log[s]) - taken[s]

Init ==
  /\ next = 0
  /\ subs = [i \in {} |-> Nobody]
  /\ writer = Nobody
  /\ pc = [s \in Subscribers |-> "new"]
  /\ id = [s \in Subscribers |-> 0]
  /\ closed = {}
  /\ log = [s \in Subscribers |-> <<>>]
  /\ taken = [s \in Subscribers |-> 0]
  /\ pub = [p \in Publishers |-> "idle"]
  /\ todo = [p \in Publishers |-> {}]
  /\ published = [p \in Publishers |-> 0]
  /\ since = [s \in Subscribers |-> [p \in Publishers |-> 0]]
  /\ panic = FALSE

--------------------------------------------------------------------------------
(* Subscribe and cancel.                                                   *)

Goto(s, from, to) ==
  /\ pc[s] = from
  /\ pc' = [pc EXCEPT ![s] = to]

\* A goroutine enters Subscribe, or the cancel function it returned. The
\* sync.Once in cancel makes this the only entry.
CallSubscribe(s) ==
  /\ Goto(s, "new", "subLock")
  /\ UNCHANGED <<next, subs, writer, id, closed, log, taken, publisherVars,
                 since, panic>>

CallCancel(s) ==
  /\ Goto(s, "live", "cancelLock")
  /\ UNCHANGED <<next, subs, writer, id, closed, log, taken, publisherVars,
                 since, panic>>

\* h.mu.Lock(): from here on no reader gets in.
Lock(s) ==
  /\ writer = Nobody
  /\ writer' = s
  /\ Goto(s, "subLock", "subDrain") \/ Goto(s, "cancelLock", "cancelDrain")
  /\ UNCHANGED <<next, subs, id, closed, log, taken, publisherVars, since, panic>>

\* The critical section of Subscribe, entered when the readers are out.
RegisterAs(s, i, nextId, holder) ==
  /\ Reading = {}
  /\ Goto(s, "subDrain", "live")
  /\ id' = [id EXCEPT ![s] = i]
  /\ next' = nextId
  /\ subs' = [j \in DOMAIN subs \cup {i} |-> IF j = i THEN s ELSE subs[j]]
  /\ since' = [since EXCEPT ![s] = published]
  /\ writer' = holder
  /\ UNCHANGED <<closed, log, taken, publisherVars, panic>>

\* Mutant: the lock is not released.
RegisterKeepLock(s) == RegisterAs(s, next, next + 1, writer)

Register(s) == RegisterAs(s, next, next + 1, Nobody)

\* The critical section of cancel. Closing a closed channel panics.
DeleteAndClose(s) ==
  /\ Goto(s, "cancelDrain", "gone")
  /\ IF id[s] \in DOMAIN subs
       THEN /\ subs' = [i \in DOMAIN subs \ {id[s]} |-> subs[i]]
            /\ closed' = closed \cup {subs[id[s]]}
            /\ panic' = (panic \/ subs[id[s]] \in closed)
       ELSE UNCHANGED <<subs, closed, panic>>
  /\ writer' = Nobody
  /\ UNCHANGED <<next, id, log, taken, publisherVars, since>>

\* Mutant: cancel does not wait for the publishers that are in the registry.
UnregisterAtOnce(s) == DeleteAndClose(s)

Unregister(s) == Reading = {} /\ DeleteAndClose(s)

\* The subscriber's loop takes one event from its channel.
Receive(s) ==
  /\ pc[s] = "live"
  /\ Waiting(s) > 0
  /\ taken' = [taken EXCEPT ![s] = @ + 1]
  /\ UNCHANGED <<subscriberVars, log, publisherVars, panic>>

--------------------------------------------------------------------------------
(* Publish.                                                                *)

\* A goroutine enters Publish and asks for the read lock.
CallPublish(p) ==
  /\ pub[p] = "idle"
  /\ published[p] < MaxEvents
  /\ pub' = [pub EXCEPT ![p] = "rlock"]
  /\ UNCHANGED <<subscriberVars, log, taken, todo, published, panic>>

\* h.mu.RLock() is granted; the loop over the registry starts.
PublishBegin(p) ==
  /\ pub[p] = "rlock"
  /\ writer = Nobody
  /\ pub' = [pub EXCEPT ![p] = "fan"]
  /\ published' = [published EXCEPT ![p] = @ + 1]
  /\ todo' = [todo EXCEPT ![p] = {subs[i] : i \in DOMAIN subs}]
  /\ UNCHANGED <<subscriberVars, log, taken, panic>>

\* The non-blocking send: select { case ch <- e: default: }.
SendIf(p, s, fits) ==
  /\ panic' = (panic \/ s \in closed)
  /\ log' = IF fits THEN [log EXCEPT ![s] = Append(@, <<p, published[p]>>)]
                     ELSE log

\* Mutants: one slot of the buffer is never used; the send has no default.
SendShort(p, s)    == SendIf(p, s, Waiting(s) + 1 < Capacity)
SendBlocking(p, s) == Waiting(s) < Capacity /\ SendIf(p, s, TRUE)

Send(p, s) == SendIf(p, s, Waiting(s) < Capacity)

\* One round of the loop, in the map's arbitrary order.
OfferLeaving(p, s, rest) ==
  /\ pub[p] = "fan"
  /\ s \in todo[p]
  /\ todo' = [todo EXCEPT ![p] = rest]
  /\ Send(p, s)
  /\ UNCHANGED <<subscriberVars, taken, pub, published>>

\* Mutant: a channel that was sent to is visited again.
OfferTwice(p, s) == OfferLeaving(p, s, todo[p])

Offer(p, s) == OfferLeaving(p, s, todo[p] \ {s})

\* h.mu.RUnlock().
PublishEnd(p) ==
  /\ pub[p] = "fan"
  /\ todo[p] = {}
  /\ pub' = [pub EXCEPT ![p] = "idle"]
  /\ UNCHANGED <<subscriberVars, log, taken, todo, published, panic>>

--------------------------------------------------------------------------------
Critical(s) == Register(s) \/ Unregister(s)
Fan(p) == (\E s \in todo[p] : Offer(p, s)) \/ PublishEnd(p)

Next ==
  \/ \E s \in Subscribers : \/ CallSubscribe(s) \/ CallCancel(s)
                            \/ Lock(s) \/ Critical(s) \/ Receive(s)
  \/ \E p \in Publishers : CallPublish(p) \/ PublishBegin(p) \/ Fan(p)

(* A goroutine inside a function of the hub keeps running. The lock is     *)
(* strongly fair: sync.Mutex hands a starving waiter the lock, and         *)
(* RWMutex.Unlock lets in every reader that was waiting. Nothing is        *)
(* assumed of the subscribers: one may never receive and never cancel.     *)
Fairness ==
  /\ \A s \in Subscribers : SF_vars(Lock(s)) /\ WF_vars(Critical(s))
  /\ \A p \in Publishers : SF_vars(PublishBegin(p)) /\ WF_vars(Fan(p))

Spec == Init /\ [][Next]_vars /\ Fairness

--------------------------------------------------------------------------------
(* Properties.                                                             *)

Registered == {s \in Subscribers : pc[s] \in {"live", "cancelLock", "cancelDrain"}}

TypeOK ==
  /\ next \in Nat
  /\ DOMAIN subs \subseteq Nat
  /\ \A i \in DOMAIN subs : subs[i] \in Subscribers
  /\ writer \in Subscribers \cup {Nobody}
  /\ pc \in [Subscribers -> {"new", "subLock", "subDrain", "live", "cancelLock",
                             "cancelDrain", "gone"}]
  /\ id \in [Subscribers -> Nat]
  /\ closed \subseteq Subscribers
  /\ log \in [Subscribers -> Seq(Publishers \X Nat)]
  /\ taken \in [Subscribers -> Nat]
  /\ pub \in [Publishers -> {"idle", "rlock", "fan"}]
  /\ todo \in [Publishers -> SUBSET Subscribers]
  /\ published \in [Publishers -> Nat]
  /\ since \in [Subscribers -> [Publishers -> Nat]]
  /\ panic \in BOOLEAN

\* No interleaving of subscribers coming and going with publishers at work
\* sends on a closed channel or closes one twice: either would panic and take
\* the whole control plane down (hub.go:51-71).
NoPanic == ~panic

\* The registry holds exactly the channels of the subscribers that are between
\* Subscribe and the end of cancel, each under the id its cancel will delete:
\* nobody's cancel removes or closes another subscriber's channel.
RegistryExact ==
  /\ \A s \in Registered : id[s] \in DOMAIN subs /\ subs[id[s]] = s
  /\ \A i \in DOMAIN subs : subs[i] \in Registered /\ id[subs[i]] = i
  /\ closed = {s \in Subscribers : pc[s] = "gone"}

\* A subscriber never sees one publisher's events out of order or twice,
\* whatever was dropped in between.
InOrder ==
  \A s \in Subscribers : \A i, j \in 1 .. Len(log[s]) :
    i < j /\ log[s][i][1] = log[s][j][1] => log[s][i][2] < log[s][j][2]

\* A publish ends even if no subscriber ever receives, and whoever comes and
\* goes meanwhile (hub.go:60-62).
PublishFinishes == \A p \in Publishers : pub[p] = "rlock" ~> pub[p] = "idle"

\* Subscribe and cancel return even while others keep publishing: the readers
\* of the lock cannot starve its writers.
CallsReturn ==
  \A s \in Subscribers :
    /\ pc[s] = "subLock" ~> pc[s] = "live"
    /\ pc[s] = "cancelLock" ~> pc[s] = "gone"

\* The hub is the abstract broadcast (hub.go:60-62): its registered subscribers
\* are the open ones and an event is due to the channels its publisher has not
\* reached.
Stream == INSTANCE EventStream WITH
  open <- Registered,
  left <- {s \in Subscribers : pc[s] = "gone"},
  due  <- todo

Implements == Stream!Spec
================================================================================
