------------------------------ MODULE EventStream ------------------------------
(***************************************************************************)
(* What the event hub promises to its users, without its lock, its map or  *)
(* the order in which it walks it: an ordered, lossy broadcast.            *)
(*                                                                         *)
(*   - a subscriber that is open gets every event published while it is    *)
(*     open, except one that finds Capacity events waiting for it;         *)
(*   - publishing never waits for a subscriber: what happens to one        *)
(*     subscriber's queue decides nothing but that subscriber's events;    *)
(*   - joining and leaving are instantaneous.                              *)
(*                                                                         *)
(* Hub implements it (Hub.tla, property Implements).                       *)
(***************************************************************************)
EXTENDS Naturals, Sequences

CONSTANTS
  Publishers,    \* goroutines that publish
  Subscribers,   \* one per call of Subscribe
  Capacity,      \* events a subscriber may lag
  MaxEvents      \* bound: events per publisher

VARIABLES
  open,          \* subscribers that are in the broadcast
  left,          \* subscribers that have left it, for good
  published,     \* number of events published so far, per publisher
  due,           \* subscribers the publisher's current event is still due to
  log,           \* every event a subscriber was given, in order
  taken          \* how many of them it has taken

vars == <<open, left, published, due, log, taken>>

Init ==
  /\ open = {}
  /\ left = {}
  /\ published = [p \in Publishers |-> 0]
  /\ due = [p \in Publishers |-> {}]
  /\ log = [s \in Subscribers |-> <<>>]
  /\ taken = [s \in Subscribers |-> 0]

Join(s) ==
  /\ s \notin open \cup left
  /\ open' = open \cup {s}
  /\ UNCHANGED <<left, published, due, log, taken>>

Leave(s) ==
  /\ s \in open
  /\ open' = open \ {s}
  /\ left' = left \cup {s}
  /\ due' = [p \in Publishers |-> due[p] \ {s}]
  /\ UNCHANGED <<published, log, taken>>

Publish(p) ==
  /\ due[p] = {}
  /\ published[p] < MaxEvents
  /\ published' = [published EXCEPT ![p] = @ + 1]
  /\ due' = [due EXCEPT ![p] = open]
  /\ UNCHANGED <<open, left, log, taken>>

Give(p, s) ==
  /\ s \in due[p]
  /\ Len(log[s]) - taken[s] < Capacity
  /\ log' = [log EXCEPT ![s] = Append(@, <<p, published[p]>>)]
  /\ due' = [due EXCEPT ![p] = @ \ {s}]
  /\ UNCHANGED <<open, left, published, taken>>

Lose(p, s) ==
  /\ s \in due[p]
  /\ Len(log[s]) - taken[s] = Capacity
  /\ due' = [due EXCEPT ![p] = @ \ {s}]
  /\ UNCHANGED <<open, left, published, log, taken>>

Take(s) ==
  /\ s \in open
  /\ taken[s] < Len(log[s])
  /\ taken' = [taken EXCEPT ![s] = @ + 1]
  /\ UNCHANGED <<open, left, published, due, log>>

Settle(p) == \E s \in Subscribers : Give(p, s) \/ Lose(p, s)

Next ==
  \/ \E s \in Subscribers : Join(s) \/ Leave(s) \/ Take(s)
  \/ \E p \in Publishers : Publish(p) \/ Settle(p)

\* The only promise of progress: an event under way reaches everybody it is
\* due to, however slow they are. Nobody is promised to publish, join or take.
Spec == Init /\ [][Next]_vars /\ \A p \in Publishers : WF_vars(Settle(p))
================================================================================
