-------------------------------- MODULE Notifier --------------------------------
(***************************************************************************)
(* New-voicemail notifications: internal/events/notifier.go, fed by        *)
(* FreeSWITCH's MESSAGE_WAITING events through the ESL listener and the    *)
(* hub.                                                                    *)
(*                                                                         *)
(*   mailbox --MESSAGE_WAITING--> wire --Publish--> chan --handle--> sinks *)
(*                                                                         *)
(* FreeSWITCH reports a mailbox's number of new messages whenever it       *)
(* changes and again whenever a phone re-registers (a refresh). The        *)
(* notifier remembers, in memory, the last count it saw of each account    *)
(* and notifies when it sees a larger one. Events are lost while the ESL   *)
(* link is down, when it breaks with events in flight, and when the        *)
(* notifier lags a full hub buffer; a restart empties everything that is   *)
(* not in FreeSWITCH.                                                      *)
(*                                                                         *)
(* The listener's reconnection is Listener.tla's subject; here the link is *)
(* up or down. Hub.tla's subject is the fan-out; here it is one bounded    *)
(* channel that drops when full.                                           *)
(***************************************************************************)
EXTENDS Naturals, Sequences, FiniteSets

CONSTANTS
  Accounts,      \* voicemail accounts, user@domain
  Sinks,         \* configured among "webhook", "telegram", "push"
  Capacity,      \* subBuffer
  MaxNew,        \* bound: new messages a mailbox holds
  MaxArrivals,   \* bound: messages left per account
  MaxWire,       \* bound: events between FreeSWITCH and the hub
  MaxStarts      \* bound: times the process starts

ASSUME CapacityAssumption == Capacity \in Nat \ {0}
ASSUME BoundsAssumption ==
  MaxNew \in Nat /\ MaxArrivals \in Nat /\ MaxWire \in Nat /\ MaxStarts \in Nat \ {0}

VARIABLES
  box,           \* FreeSWITCH: new messages per account
  arrived,       \* FreeSWITCH: messages ever left per account
  link,          \* is the ESL session streaming?
  wire,          \* events FreeSWITCH has sent on it, unread
  chan,          \* the notifier's hub channel
  lastNew,       \* n.lastNew; a missing key reads as 0
  sending,       \* send goroutines under way: <<index in alerts, sink>>
  starts,        \* times the process was started
  alerts,        \* history: notifications decided, in order
  gap,           \* history: accounts an event was lost of since the start
  base           \* history: messages that had been left at the start

vars == <<box, arrived, link, wire, chan, lastNew, sending, starts,
          alerts, gap, base>>

\* An MWI event as the notifier reads it. arrived and fresh are history: how
\* many messages had been left, and whether the event announces a new one.
MWI(a, n, m, fresh) == [account |-> a, new |-> n, arrived |-> m, fresh |-> fresh]

Event == [account: Accounts, new: 0 .. MaxNew, arrived: 0 .. MaxArrivals,
          fresh: BOOLEAN]
Alert == [account: Accounts, new: 0 .. MaxNew, arrived: 0 .. MaxArrivals,
          start: 1 .. MaxStarts]

Init ==
  /\ box = [a \in Accounts |-> 0]
  /\ arrived = [a \in Accounts |-> 0]
  /\ link = FALSE
  /\ wire = <<>>
  /\ chan = <<>>
  /\ lastNew = [a \in Accounts |-> 0]
  /\ sending = {}
  /\ starts = 1
  /\ alerts = <<>>
  /\ gap = {}
  /\ base = [a \in Accounts |-> 0]

--------------------------------------------------------------------------------
(* FreeSWITCH (external).                                                  *)

\* An event goes out on the link, or nowhere.
Emit(e) ==
  /\ Len(wire) < MaxWire
  /\ IF link THEN wire' = Append(wire, e) /\ gap' = gap
             ELSE wire' = wire /\ gap' = gap \cup {e.account}
  /\ base' = base

Arrive(a) ==
  /\ arrived[a] < MaxArrivals
  /\ box[a] < MaxNew
  /\ box' = [box EXCEPT ![a] = @ + 1]
  /\ arrived' = [arrived EXCEPT ![a] = @ + 1]
  /\ Emit(MWI(a, box[a] + 1, arrived[a] + 1, TRUE))
  /\ UNCHANGED <<link, chan, lastNew, sending, starts, alerts>>

Read(a) ==
  /\ box[a] > 0
  /\ box' = [box EXCEPT ![a] = @ - 1]
  /\ Emit(MWI(a, box[a] - 1, arrived[a], FALSE))
  /\ UNCHANGED <<arrived, link, chan, lastNew, sending, starts, alerts>>

Refresh(a) ==
  /\ link
  /\ Emit(MWI(a, box[a], arrived[a], FALSE))
  /\ UNCHANGED <<box, arrived, link, chan, lastNew, sending, starts,
                 alerts>>

LinkUp ==
  /\ ~link
  /\ link' = TRUE
  /\ UNCHANGED <<box, arrived, wire, chan, lastNew, sending, starts,
                 alerts, gap, base>>

AccountsOf(q) == {q[i].account : i \in 1 .. Len(q)}

LinkDown ==
  /\ link
  /\ link' = FALSE
  /\ wire' = <<>>
  /\ gap' = gap \cup AccountsOf(wire)
  /\ UNCHANGED <<box, arrived, chan, lastNew, sending, starts,
                 alerts, base>>

--------------------------------------------------------------------------------
(* The control plane.                                                      *)

\* The listener reads an event and publishes it; without room it is dropped.
Publish ==
  /\ wire # <<>>
  /\ wire' = Tail(wire)
  /\ IF Len(chan) < Capacity
       THEN chan' = Append(chan, Head(wire)) /\ gap' = gap
       ELSE chan' = chan /\ gap' = gap \cup {Head(wire).account}
  /\ UNCHANGED <<box, arrived, link, lastNew, sending, starts,
                 alerts, base>>

\* The notifier takes an event and handles it: it remembers the count and, if
\* it is to notify, starts one send goroutine per sink.
HandleWith(notify, remembered) ==
  /\ chan # <<>>
  /\ chan' = Tail(chan)
  /\ LET e == Head(chan)
     IN  /\ lastNew' = [lastNew EXCEPT ![e.account] = remembered]
         /\ IF notify
              THEN /\ alerts' = Append(alerts, [account |-> e.account, new |-> e.new,
                                                arrived |-> e.arrived, start |-> starts])
                   /\ sending' = sending \cup ({Len(alerts) + 1} \X Sinks)
              ELSE UNCHANGED <<alerts, sending>>
  /\ UNCHANGED <<box, arrived, link, wire, starts, gap, base>>

New  == Head(chan).new
Prev == lastNew[Head(chan).account]

\* Mutants: a refresh notifies; the highest count ever seen is remembered;
\* the sends are made before the next event is taken.
HandleRefresh == HandleWith(New >= Prev /\ New > 0, New)
HandleHighest == HandleWith(New > Prev, IF New > Prev THEN New ELSE Prev)
HandleInTurn  == sending = {} /\ HandleWith(New > Prev, New)

Handle == HandleWith(New > Prev, New)

\* A send goroutine ends: it makes one attempt, and logs a failure.
SendEnds(k, sink) ==
  /\ <<k, sink>> \in sending
  /\ sending' = sending \ {<<k, sink>>}
  /\ UNCHANGED <<box, arrived, link, wire, chan, lastNew, starts, alerts, gap,
                 base>>

\* The process stops, which cancels the sends, and starts again. The gap
\* history starts afresh, with what the mailboxes hold unreported.
Restart ==
  /\ starts < MaxStarts
  /\ starts' = starts + 1
  /\ link' = FALSE
  /\ wire' = <<>>
  /\ chan' = <<>>
  /\ lastNew' = [a \in Accounts |-> 0]
  /\ sending' = {}
  /\ gap' = {a \in Accounts : box[a] > 0}
  /\ base' = arrived
  /\ UNCHANGED <<box, arrived, alerts>>

Next ==
  \/ \E a \in Accounts : Arrive(a) \/ Read(a) \/ Refresh(a)
  \/ LinkUp \/ LinkDown \/ Publish \/ Handle \/ Restart
  \/ \E k \in 1 .. Len(alerts), sink \in Sinks : SendEnds(k, sink)

(* The listener's and the notifier's goroutines run. Nothing is assumed of  *)
(* the mailboxes, the link, restarts, or of a sink ever answering.          *)
Fairness == WF_vars(Publish) /\ WF_vars(Handle)

Spec == Init /\ [][Next]_vars /\ Fairness

--------------------------------------------------------------------------------
(* Properties.                                                             *)

Pending == wire \o chan

InFlight(a, m) ==
  \E i \in 1 .. Len(Pending) :
    Pending[i].account = a /\ Pending[i].fresh /\ Pending[i].arrived = m

TypeOK ==
  /\ box \in [Accounts -> 0 .. MaxNew]
  /\ arrived \in [Accounts -> 0 .. MaxArrivals]
  /\ link \in BOOLEAN
  /\ wire \in Seq(Event) /\ Len(wire) <= MaxWire
  /\ chan \in Seq(Event) /\ Len(chan) <= Capacity
  /\ lastNew \in [Accounts -> 0 .. MaxNew]
  /\ sending \subseteq (1 .. Len(alerts)) \X Sinks
  /\ starts \in 1 .. MaxStarts
  /\ alerts \in Seq(Alert)
  /\ gap \subseteq Accounts
  /\ base \in [Accounts -> 0 .. MaxArrivals]

SameAccount(i, j) == alerts[i].account = alerts[j].account
SameStart(i, j)   == alerts[i].start = alerts[j].start

\* While the process lives, two notifications for an account never come from
\* the same message, whatever refreshes, lost events and reads happen between
\* them (notifier.go:26-28).
OneAlertPerMessage ==
  \A i, j \in 1 .. Len(alerts) :
    i < j /\ SameAccount(i, j) /\ SameStart(i, j) =>
      alerts[i].arrived < alerts[j].arrived

\* As long as no event of an account was lost, every message left since the
\* process started has been notified or its event is on the way.
EveryMessageAlerted ==
  \A a \in Accounts \ gap : \A m \in base[a] + 1 .. arrived[a] :
    \/ InFlight(a, m)
    \/ \E i \in 1 .. Len(alerts) :
         alerts[i].account = a /\ alerts[i].start = starts /\ alerts[i].arrived = m

\* The event of a message does not stay in flight, even if no sink ever
\* answers: sends never hold up the notifier (notifier.go:111-121).
NotHeldUp ==
  \A a \in Accounts, m \in 1 .. MaxArrivals : InFlight(a, m) ~> ~InFlight(a, m)

\* docs/api.md:574-577: a notification when a message arrives, which makes the
\* mailbox's count increase; here only of messages whose event the notifier
\* takes, whatever happened to the events before it.
TakenMessagesAlerted ==
  [][Handle /\ Head(chan).fresh => alerts' # alerts]_vars

\* What notifier.go:26-28 and docs/api.md:577 say of refreshes, with no word
\* of the process having restarted in between.
RefreshNeverAlerts ==
  \A i, j \in 1 .. Len(alerts) :
    i < j /\ SameAccount(i, j) => alerts[i].arrived < alerts[j].arrived
================================================================================
