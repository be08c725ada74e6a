------------------------------ MODULE AlertsProofs ------------------------------
(***************************************************************************)
(* What holds of the voicemail notifications for any accounts, sinks,      *)
(* channel capacity and number of messages and restarts, and of the pushes *)
(* for any browsers and extensions.                                        *)
(*                                                                         *)
(* The events the notifier has yet to see are those in its channel, then   *)
(* those on the wire. Two facts about them are inductive. In the order     *)
(* they were sent, and up to the mailbox as it is, an account's count of   *)
(* new messages is never larger than an earlier one unless a message       *)
(* arrived between them. And if none of an account's events was lost, each *)
(* is followed by the next: the one that announces a message says more     *)
(* than the one before it, which is what the notifier remembers by then.   *)
(***************************************************************************)
EXTENDS Alerts, TLAPS

(***************************************************************************)
(* The invariant of the notifier.                                          *)
(***************************************************************************)

\* The events on the way to it, in order.
Count   == Len(chan) + Len(wire)
Way     == 1 .. Count
Ev(k) == IF k <= Len(chan) THEN chan[k] ELSE wire[k - Len(chan)]
Of(k)   == Ev(k).account

\* Account a as it is, and as an event has it: a later one shows no fewer
\* arrivals, and more new messages only after another arrival.
Later(n, m, new, old) == old <= m /\ (n > new => m > old)

\* Events are sent in order, and no later than now.
Chain ==
  \A j \in Way :
    /\ \A i \in 1 .. j - 1 :
         Of(i) = Of(j) =>
           Later(Ev(j).new, Ev(j).arrived, Ev(i).new, Ev(i).arrived)
    /\ Later(box[Of(j)], arrived[Of(j)], Ev(j).new, Ev(j).arrived)

\* So are the counts remembered: what is larger comes with an arrival that no
\* notification of this start was for.
Marks ==
  \A k \in 1 .. Len(alerts) :
    LET a == alerts[k].account
        m == alerts[k].arrived
    IN  /\ alerts[k].start <= starts
        /\ alerts[k].start = starts =>
             /\ Later(box[a], arrived[a], lastNew[a], m)
             /\ \A j \in Way :
                  Of(j) = a => Later(Ev(j).new, Ev(j).arrived, lastNew[a], m)

\* The notifier will have seen nothing of a between positions i and j.
Silent(a, i, j) == \A k \in i .. j : Of(k) # a

\* If nothing of a was lost, the event of a new message says more than the one
\* before it, the mailbox what the last one said.
Unbroken(a) ==
  /\ \A j \in Way :
       Of(j) = a /\ Ev(j).fresh =>
         /\ Silent(a, 1, j - 1) => lastNew[a] < Ev(j).new
         /\ \A i \in 1 .. j - 1 :
              Of(i) = a /\ Silent(a, i + 1, j - 1) => Ev(i).new < Ev(j).new
  /\ Silent(a, 1, Count) => lastNew[a] = box[a]
  /\ \A i \in Way : Of(i) = a /\ Silent(a, i + 1, Count) => Ev(i).new = box[a]

\* EveryMessageAlerted, by position.
OnTheWay(a, m) ==
  \E j \in Way : Of(j) = a /\ Ev(j).fresh /\ Ev(j).arrived = m

Alerted(a, m) ==
  \E i \in 1 .. Len(alerts) :
    alerts[i].account = a /\ alerts[i].start = starts /\ alerts[i].arrived = m

Told(a) == \A m \in base[a] + 1 .. arrived[a] : OnTheWay(a, m) \/ Alerted(a, m)

Inv ==
  /\ TypeOK /\ Chain /\ Marks /\ OneAlertPerMessage
  /\ \A a \in Accounts \ gap : Unbroken(a) /\ Told(a)

(***************************************************************************)
(* The invariant of the pushes: a browser its push service knows has the   *)
(* row it asked for, and no browser another; the sender has told, or has   *)
(* yet to tell, those that have been subscribed all the time.              *)
(***************************************************************************)
PushTypes ==
  /\ row \in [Browsers -> Extensions \cup {Nowhere}]
  /\ wanted \in [Browsers -> Extensions \cup {Nowhere}]
  /\ known \subseteq Browsers
  /\ send \in [at: {"idle", "query", "loop", "done"},
               for: Extensions \cup {Nowhere}, left: SUBSET Browsers]
  /\ tried \subseteq Browsers /\ steady \subseteq Browsers /\ touched \subseteq Browsers

Asked ==
  \A b \in Browsers :
    /\ row[b] \in {wanted[b], Nowhere}
    /\ b \in known => row[b] = wanted[b]
    /\ b \in steady => b \in known /\ wanted[b] = send.for
    /\ wanted[b] = send.for /\ send.for # Nowhere => b \in touched

Sender ==
  /\ send.at # "idle" => send.for \in Extensions
  /\ send.at = "query" => tried = {}
  /\ send.at = "loop" => /\ steady \subseteq tried \cup send.left
                         /\ tried \cup send.left \subseteq touched
  /\ TellsTheSubscribed

PushInv == PushTypes /\ Asked /\ Sender

--------------------------------------------------------------------------------
(***************************************************************************)
(* Types, and the events on the way.                                       *)
(***************************************************************************)

LEMMA InitInv == Init => Inv
<1> SUFFICES ASSUME Init PROVE Inv
  OBVIOUS
<1>1. TypeOK
  <2>1. /\ 0 \in 0 .. MaxNew /\ 0 \in 0 .. MaxArrivals /\ 1 \in 1 .. MaxStarts
        /\ 0 <= MaxWire /\ 0 <= Capacity
    BY BoundsAssumption, CapacityAssumption
  <2>2. wire \in Seq(Event) /\ Len(wire) <= MaxWire /\ chan \in Seq(Event)
        /\ Len(chan) <= Capacity /\ alerts \in Seq(Alert)
    BY <2>1 DEF Init
  <2>3. sending \subseteq (1 .. Len(alerts)) \X Sinks
    BY DEF Init
  <2>4. QED
    BY <2>1, <2>2, <2>3 DEF Init, TypeOK
<1>2. Count = 0 /\ Way = {}
  BY DEF Init, Count, Way
<1>3. Chain /\ Marks /\ OneAlertPerMessage
  BY <1>2 DEF Init, Chain, Marks, OneAlertPerMessage
<1>4. ASSUME NEW a \in Accounts
      PROVE  Unbroken(a) /\ Told(a)
  <2>1. lastNew[a] = box[a] /\ base[a] = 0 /\ arrived[a] = 0
    BY DEF Init
  <2>2. QED
    BY <1>2, <2>1 DEF Unbroken, Told
<1>5. QED
  BY <1>1, <1>3, <1>4 DEF Inv

LEMMA WayTypes ==
  ASSUME TypeOK
  PROVE  /\ chan \in Seq(Event) /\ wire \in Seq(Event)
         /\ Len(chan) \in Nat /\ Len(wire) \in Nat /\ Count \in Nat
         /\ Way = 1 .. Count
         /\ \A k \in Way : Ev(k) \in Event /\ Of(k) \in Accounts
         /\ chan # <<>> => Count >= 1 /\ Ev(1) = Head(chan)
         /\ wire # <<>> => Len(chan) + 1 \in Way /\ Ev(Len(chan) + 1) = Head(wire)
<1>1. chan \in Seq(Event) /\ wire \in Seq(Event)
  BY DEF TypeOK
<1>2. Len(chan) \in Nat /\ Len(wire) \in Nat /\ Count \in Nat
  BY <1>1 DEF Count
<1>3. \A k \in Way : Ev(k) \in Event
  BY <1>1, <1>2 DEF Way, Count, Ev
<1>4. \A e \in Event : e.account \in Accounts
  BY DEF Event
<1>5. \A k \in Way : Of(k) \in Accounts
  BY <1>3, <1>4 DEF Of
<1>6. chan # <<>> => Count >= 1 /\ Ev(1) = Head(chan)
  BY <1>1, <1>2 DEF Count, Ev
<1>7. wire # <<>> => Len(chan) + 1 \in Way /\ Ev(Len(chan) + 1) = Head(wire)
  BY <1>1, <1>2 DEF Way, Count, Ev
<1>8. QED
  BY <1>1, <1>2, <1>3, <1>5, <1>6, <1>7 DEF Way

\* FreeSWITCH sends an event that says what the mailbox is now, and is fresh if
\* a message arrived.
Says(e) ==
  /\ e \in Event
  /\ box' = [box EXCEPT ![e.account] = e.new]
  /\ arrived' = [arrived EXCEPT ![e.account] = e.arrived]
  /\ Later(e.new, e.arrived, box[e.account], arrived[e.account])
  /\ IF e.fresh THEN e.arrived = arrived[e.account] + 1 /\ box[e.account] < e.new
                ELSE e.arrived = arrived[e.account]
  /\ Emit(e)
  /\ UNCHANGED <<link, chan, lastNew, sending, starts, alerts, base>>

LEMMA Saying ==
  ASSUME TypeOK, NEW a \in Accounts, Arrive(a) \/ Read(a) \/ Refresh(a)
  PROVE  \E e : Says(e)
<1> USE DEF Later
<1>1. /\ box \in [Accounts -> 0 .. MaxNew] /\ arrived \in [Accounts -> 0 .. MaxArrivals]
      /\ box[a] \in 0 .. MaxNew /\ arrived[a] \in 0 .. MaxArrivals
  BY DEF TypeOK
<1>2. box = [box EXCEPT ![a] = box[a]] /\ arrived = [arrived EXCEPT ![a] = arrived[a]]
  BY <1>1
<1>3. CASE Arrive(a)
  <2> DEFINE e == MWI(a, box[a] + 1, arrived[a] + 1, TRUE)
  <2>1. /\ arrived[a] < MaxArrivals /\ box[a] < MaxNew
        /\ box' = [box EXCEPT ![a] = box[a] + 1]
        /\ arrived' = [arrived EXCEPT ![a] = arrived[a] + 1]
        /\ Emit(e)
        /\ UNCHANGED <<link, chan, lastNew, sending, starts, alerts, base>>
    BY <1>3 DEF Arrive, Emit
  <2>2. e \in Event
    BY <1>1, <2>1, BoundsAssumption DEF MWI, Event
  <2>3. e.account = a /\ e.new = box[a] + 1 /\ e.arrived = arrived[a] + 1 /\ e.fresh = TRUE
    BY DEF MWI
  <2> HIDE DEF e
  <2>4. Says(e)
    BY <1>1, <2>1, <2>2, <2>3 DEF Says
  <2>5. QED
    BY <2>4
<1>4. CASE Read(a)
  <2> DEFINE e == MWI(a, box[a] - 1, arrived[a], FALSE)
  <2>1. /\ box[a] > 0
        /\ box' = [box EXCEPT ![a] = box[a] - 1]
        /\ arrived' = arrived
        /\ Emit(e)
        /\ UNCHANGED <<link, chan, lastNew, sending, starts, alerts, base>>
    BY <1>4 DEF Read, Emit
  <2>2. e \in Event
    BY <1>1, <2>1, BoundsAssumption DEF MWI, Event
  <2>3. e.account = a /\ e.new = box[a] - 1 /\ e.arrived = arrived[a] /\ e.fresh = FALSE
    BY DEF MWI
  <2> HIDE DEF e
  <2>4. /\ box' = [box EXCEPT ![a] = e.new] /\ arrived' = [arrived EXCEPT ![a] = e.arrived]
        /\ Later(e.new, e.arrived, box[a], arrived[a])
    BY <1>1, <1>2, <2>1, <2>3
  <2>5. Says(e)
    BY <2>1, <2>2, <2>3, <2>4 DEF Says
  <2>6. QED
    BY <2>5
<1>5. CASE Refresh(a)
  <2> DEFINE e == MWI(a, box[a], arrived[a], FALSE)
  <2>1. /\ box' = box /\ arrived' = arrived
        /\ Emit(e)
        /\ UNCHANGED <<link, chan, lastNew, sending, starts, alerts, base>>
    BY <1>5 DEF Refresh, Emit
  <2>2. e \in Event
    BY <1>1 DEF MWI, Event
  <2>3. e.account = a /\ e.new = box[a] /\ e.arrived = arrived[a] /\ e.fresh = FALSE
    BY DEF MWI
  <2> HIDE DEF e
  <2>4. /\ box' = [box EXCEPT ![a] = e.new] /\ arrived' = [arrived EXCEPT ![a] = e.arrived]
        /\ Later(e.new, e.arrived, box[a], arrived[a])
    BY <1>1, <1>2, <2>1, <2>3
  <2>5. Says(e)
    BY <2>1, <2>2, <2>3, <2>4 DEF Says
  <2>6. QED
    BY <2>5
<1>6. QED
  BY <1>3, <1>4, <1>5

LEMMA SaysTypes ==
  ASSUME TypeOK, NEW e, Says(e)
  PROVE  TypeOK'
<1>1. /\ e.account \in Accounts /\ e.new \in 0 .. MaxNew
      /\ e.arrived \in 0 .. MaxArrivals
  BY DEF Says, Event
<1>2. wire \in Seq(Event) /\ Len(wire) \in Nat /\ Len(wire) <= MaxWire
  BY WayTypes DEF TypeOK
<1>3. wire' \in Seq(Event) /\ Len(wire') <= MaxWire
  <2>1. /\ e \in Event /\ Len(wire) < MaxWire
        /\ wire' = wire \/ wire' = Append(wire, e)
    BY DEF Says, Emit
  <2>2. QED
    BY <1>2, <2>1, BoundsAssumption
<1>4. gap' \subseteq Accounts
  BY <1>1 DEF Says, Emit, TypeOK
<1>5. /\ box' \in [Accounts -> 0 .. MaxNew]
      /\ arrived' \in [Accounts -> 0 .. MaxArrivals]
  BY <1>1 DEF Says, TypeOK
<1>6. QED
  BY <1>3, <1>4, <1>5 DEF Says, TypeOK

\* The notifier takes an event: what it is, and whether it notifies.
LEMMA Handling ==
  ASSUME TypeOK, Handle
  PROVE  LET e == Ev(1) IN
         /\ e \in Event /\ Of(1) = e.account
         /\ chan \in Seq(Event) /\ chan # <<>> /\ chan' = Tail(chan)
         /\ lastNew' = [lastNew EXCEPT ![e.account] = e.new]
         /\ IF e.new > lastNew[e.account]
              THEN /\ alerts' = Append(alerts, [account |-> e.account, new |-> e.new,
                                                arrived |-> e.arrived, start |-> starts])
                   /\ sending' = sending \cup ({Len(alerts) + 1} \X Sinks)
              ELSE UNCHANGED <<alerts, sending>>
         /\ UNCHANGED <<box, arrived, link, wire, starts, gap, base>>
<1>1. chan # <<>>
  BY DEF Handle, HandleWith
<1>2. Head(chan) = Ev(1) /\ Ev(1) \in Event /\ chan \in Seq(Event)
  BY <1>1, WayTypes
<1>3. QED
  BY <1>1, <1>2 DEF Handle, HandleWith, New, Prev, Of

LEMMA HandleTypes ==
  ASSUME TypeOK, Handle
  PROVE  TypeOK'
<1> DEFINE e == Ev(1)
           alert == [account |-> e.account, new |-> e.new, arrived |-> e.arrived,
                     start |-> starts]
<1>1. /\ e \in Event
      /\ chan \in Seq(Event) /\ chan # <<>> /\ chan' = Tail(chan)
      /\ lastNew' = [lastNew EXCEPT ![e.account] = e.new]
      /\ \/ alerts' = Append(alerts, alert)
            /\ sending' = sending \cup ({Len(alerts) + 1} \X Sinks)
         \/ UNCHANGED <<alerts, sending>>
      /\ UNCHANGED <<box, arrived, link, wire, starts, gap, base>>
  BY Handling
<1>2. chan' \in Seq(Event) /\ Len(chan') <= Capacity
  <2>1. Len(chan) <= Capacity
    BY DEF TypeOK
  <2>2. QED
    BY <1>1, <2>1, CapacityAssumption
<1>3. e.account \in Accounts /\ e.new \in 0 .. MaxNew /\ alert \in Alert
  <2>1. starts \in 1 .. MaxStarts
    BY DEF TypeOK
  <2>2. QED
    BY <1>1, <2>1 DEF Event, Alert
<1>4. lastNew' \in [Accounts -> 0 .. MaxNew]
  BY <1>1, <1>3 DEF TypeOK
<1> HIDE DEF alert
<1>5. alerts \in Seq(Alert) /\ sending \subseteq (1 .. Len(alerts)) \X Sinks
  BY DEF TypeOK
<1>6. alerts' \in Seq(Alert) /\ sending' \subseteq (1 .. Len(alerts')) \X Sinks
  <2>1. CASE /\ alerts' = Append(alerts, alert)
             /\ sending' = sending \cup ({Len(alerts) + 1} \X Sinks)
    <3>1. alerts' \in Seq(Alert) /\ Len(alerts') = Len(alerts) + 1 /\ Len(alerts) \in Nat
      BY <1>3, <1>5, <2>1
    <3>2. 1 .. Len(alerts) \subseteq 1 .. Len(alerts') /\ Len(alerts) + 1 \in 1 .. Len(alerts')
      BY <3>1
    <3>3. QED
      BY <1>5, <2>1, <3>1, <3>2
  <2>2. QED
    BY <1>1, <1>5, <2>1
<1>7. QED
  BY <1>1, <1>2, <1>4, <1>6 DEF TypeOK

LEMMA OtherTypes ==
  ASSUME TypeOK,
         \/ LinkUp \/ LinkDown \/ Publish \/ Restart
         \/ \E k \in 1 .. Len(alerts), sink \in Sinks : SendEnds(k, sink)
  PROVE  TypeOK'
<1>1. /\ chan \in Seq(Event) /\ wire \in Seq(Event) /\ Len(wire) <= MaxWire
      /\ Len(chan) <= Capacity /\ Len(wire) \in Nat /\ Len(chan) \in Nat
      /\ gap \subseteq Accounts
  BY WayTypes DEF TypeOK
<1>2. \A i \in 1 .. Len(wire) : wire[i].account \in Accounts
  <2>1. \A e \in Event : e.account \in Accounts
    BY DEF Event
  <2>2. QED
    BY <1>1, <2>1
<1>3. CASE LinkUp \/ \E k \in 1 .. Len(alerts), sink \in Sinks : SendEnds(k, sink)
  BY <1>3 DEF LinkUp, SendEnds, TypeOK
<1>4. CASE LinkDown
  <2>1. wire' \in Seq(Event) /\ Len(wire') <= MaxWire
    BY <1>4, BoundsAssumption DEF LinkDown
  <2>2. gap' \subseteq Accounts
    BY <1>1, <1>2, <1>4 DEF LinkDown, AccountsOf
  <2>3. QED
    BY <1>4, <2>1, <2>2 DEF LinkDown, TypeOK
<1>5. CASE Publish
  <2>1. /\ wire # <<>> /\ wire' = Tail(wire)
        /\ \/ chan' = Append(chan, Head(wire)) /\ Len(chan) < Capacity /\ gap' = gap
           \/ chan' = chan /\ gap' = gap \cup {Head(wire).account}
        /\ UNCHANGED <<box, arrived, link, lastNew, sending, starts, alerts, base>>
    BY <1>5 DEF Publish
  <2>2. Head(wire) \in Event /\ Head(wire).account \in Accounts
    BY <1>1, <1>2, <2>1
  <2>3. wire' \in Seq(Event) /\ Len(wire') <= MaxWire
    BY <1>1, <2>1, BoundsAssumption
  <2>4. chan' \in Seq(Event) /\ Len(chan') <= Capacity
    <3>1. Append(chan, Head(wire)) \in Seq(Event)
          /\ Len(Append(chan, Head(wire))) = Len(chan) + 1
      BY <1>1, <2>2
    <3>2. CASE chan' = chan
      BY <1>1, <3>2
    <3>3. CASE chan' = Append(chan, Head(wire)) /\ Len(chan) < Capacity
      BY <1>1, <3>1, <3>3, CapacityAssumption
    <3>4. QED
      BY <2>1, <3>2, <3>3
  <2>5. gap' \subseteq Accounts
    BY <1>1, <2>1, <2>2
  <2>6. QED
    BY <2>1, <2>3, <2>4, <2>5 DEF TypeOK
<1>6. CASE Restart
  <2>1. wire' \in Seq(Event) /\ Len(wire') <= MaxWire /\ chan' \in Seq(Event)
        /\ Len(chan') <= Capacity
    BY <1>6, BoundsAssumption, CapacityAssumption DEF Restart
  <2>2. starts' \in 1 .. MaxStarts
    BY <1>6, BoundsAssumption DEF Restart, TypeOK
  <2>3. lastNew' \in [Accounts -> 0 .. MaxNew]
    BY <1>6, BoundsAssumption DEF Restart
  <2>4. QED
    BY <1>6, <2>1, <2>2, <2>3 DEF Restart, TypeOK
<1>7. QED
  BY <1>3, <1>4, <1>5, <1>6

--------------------------------------------------------------------------------
(***************************************************************************)
(* A step that sends nothing and handles nothing leaves on the way some of *)
(* what was there, in the same order: position k has what was at f[k].     *)
(***************************************************************************)

Keeps(f, n) ==
  /\ n \in Nat /\ f \in [1 .. n -> Way]
  /\ \A i, j \in 1 .. n : i < j => f[i] < f[j]

\* Nothing of a is missing.
KeepsAll(f, n, a) == \A k \in Way : Of(k) = a => \E j \in 1 .. n : f[j] = k

LEMMA ChainKept ==
  ASSUME TypeOK, Chain, NEW n, Count' = n, NEW f, Keeps(f, n),
         \A k \in 1 .. n : Ev(k)' = Ev(f[k]),
         UNCHANGED <<box, arrived>>
  PROVE  Chain'
<1>1. Way' = 1 .. n
  BY DEF Way
<1>2. \A k \in 1 .. n : f[k] \in Way /\ f[k] \in Nat /\ Of(k)' = Of(f[k])
  BY WayTypes DEF Keeps, Of
<1>3. ASSUME NEW j \in 1 .. n
      PROVE  Later(box[Of(f[j])], arrived[Of(f[j])], Ev(f[j]).new, Ev(f[j]).arrived)
  BY <1>2 DEF Chain
<1>4. ASSUME NEW j \in 1 .. n, NEW i \in 1 .. j - 1, Of(f[i]) = Of(f[j])
      PROVE  Later(Ev(f[j]).new, Ev(f[j]).arrived, Ev(f[i]).new, Ev(f[i]).arrived)
  <2>1. i \in 1 .. n /\ i < j /\ n \in Nat
    BY DEF Keeps
  <2>2. f[i] < f[j]
    BY <2>1 DEF Keeps
  <2>3. f[i] \in 1 .. f[j] - 1
    BY <1>2, <2>1, <2>2 DEF Way
  <2>4. QED
    BY <1>2, <1>4, <2>3 DEF Chain
<1>5. ASSUME NEW j \in 1 .. n
      PROVE  /\ \A i \in 1 .. j - 1 : Of(i)' = Of(j)' =>
                  Later(Ev(j).new, Ev(j).arrived, Ev(i).new, Ev(i).arrived)'
             /\ Later(box[Of(j)], arrived[Of(j)], Ev(j).new, Ev(j).arrived)'
  <2>1. Later(box[Of(j)], arrived[Of(j)], Ev(j).new, Ev(j).arrived)'
    BY <1>2, <1>3 DEF Later
  <2>2. ASSUME NEW i \in 1 .. j - 1, Of(i)' = Of(j)'
        PROVE  Later(Ev(j).new, Ev(j).arrived, Ev(i).new, Ev(i).arrived)'
    <3>1. i \in 1 .. n
      BY DEF Keeps
    <3>2. Of(f[i]) = Of(f[j])
      BY <1>2, <2>2, <3>1
    <3>3. Later(Ev(f[j]).new, Ev(f[j]).arrived, Ev(f[i]).new, Ev(f[i]).arrived)
      BY <1>4, <3>2
    <3>4. QED
      BY <3>1, <3>3 DEF Later
  <2>3. QED
    BY <2>1, <2>2
<1>6. QED
  BY <1>1, <1>5 DEF Chain

LEMMA MarksKept ==
  ASSUME TypeOK, Marks, NEW n, Count' = n, NEW f, Keeps(f, n),
         \A k \in 1 .. n : Ev(k)' = Ev(f[k]),
         UNCHANGED <<box, arrived, lastNew, alerts, starts>>
  PROVE  Marks'
<1>1. Way' = 1 .. n
  BY DEF Way
<1>2. \A k \in 1 .. n : f[k] \in Way /\ Of(k)' = Of(f[k])
  BY DEF Keeps, Of
<1>3. ASSUME NEW k \in 1 .. Len(alerts), alerts[k].start = starts, NEW j \in 1 .. n,
             Of(j)' = alerts[k].account
      PROVE  Later(Ev(j).new, Ev(j).arrived, lastNew[alerts[k].account],
                   alerts[k].arrived)'
  <2>1. Later(Ev(f[j]).new, Ev(f[j]).arrived, lastNew[alerts[k].account], alerts[k].arrived)
    BY <1>2, <1>3 DEF Marks
  <2>2. QED
    BY <2>1 DEF Later
<1>4. ASSUME NEW k \in 1 .. Len(alerts), alerts[k].start = starts
      PROVE  Later(box[alerts[k].account], arrived[alerts[k].account],
                   lastNew[alerts[k].account], alerts[k].arrived)'
  BY <1>4 DEF Marks, Later
<1>5. \A k \in 1 .. Len(alerts) : alerts[k].start <= starts
  BY DEF Marks
<1>6. QED
  BY <1>1, <1>3, <1>4, <1>5 DEF Marks

LEMMA UnbrokenKept ==
  ASSUME TypeOK, NEW a \in Accounts, Unbroken(a), NEW n, Count' = n, NEW f, Keeps(f, n),
         KeepsAll(f, n, a),
         \A k \in 1 .. n : Ev(k)' = Ev(f[k]),
         UNCHANGED <<box[a], lastNew[a]>>
  PROVE  Unbroken(a)'
<1>1. Way' = 1 .. n /\ n \in Nat /\ Count \in Nat /\ Way = 1 .. Count
  BY WayTypes DEF Way, Keeps
<1>2. \A k \in 1 .. n : f[k] \in Way /\ f[k] \in Nat /\ Of(k)' = Of(f[k])
  BY WayTypes DEF Keeps, Of
<1>3. ASSUME NEW i \in 0 .. n, NEW j \in 1 .. n + 1, \A k \in i + 1 .. j - 1 : Of(k)' # a,
             NEW p \in Way, Of(p) = a, i > 0 => f[i] < p, j <= n => p < f[j]
      PROVE  FALSE
  <2>1. PICK m \in 1 .. n : f[m] = p
    BY <1>3 DEF KeepsAll
  <2>2. ~(m <= i)
    <3>1. ASSUME m <= i PROVE FALSE
      <4>1. i \in 1 .. n /\ (m = i \/ f[m] < f[i])
        BY <1>1, <3>1 DEF Keeps
      <4>2. QED
        BY <1>2, <1>3, <2>1, <4>1
    <3>2. QED
      BY <3>1
  <2>3. ~(m >= j)
    <3>1. ASSUME m >= j PROVE FALSE
      <4>1. j \in 1 .. n /\ (m = j \/ f[j] < f[m])
        BY <1>1, <3>1 DEF Keeps
      <4>2. QED
        BY <1>2, <1>3, <2>1, <4>1
    <3>2. QED
      BY <3>1
  <2>4. m \in i + 1 .. j - 1
    BY <1>1, <2>2, <2>3
  <2>5. QED
    BY <1>2, <1>3, <2>1, <2>4
<1>4. ASSUME NEW j \in 1 .. n, Of(j)' = a, Ev(j)'.fresh, Silent(a, 1, j - 1)'
      PROVE  lastNew[a] < Ev(j)'.new
  <2>1. \A k \in 1 .. j - 1 : Of(k)' # a
    BY <1>4 DEF Silent
  <2>2. ASSUME NEW p \in 1 .. f[j] - 1, Of(p) = a
        PROVE  FALSE
    <3>1. 0 \in 0 .. n /\ j \in 1 .. n + 1 /\ p \in Way /\ ~(0 > 0) /\ p < f[j]
          /\ 0 + 1 = 1
      BY <1>1, <1>2
    <3>2. QED
      BY <1>3, <2>1, <2>2, <3>1
  <2>3. QED
    BY <1>2, <1>4, <2>2 DEF Unbroken, Silent
<1>5. ASSUME NEW j \in 1 .. n, Of(j)' = a, Ev(j)'.fresh,
             NEW i \in 1 .. j - 1, Of(i)' = a, Silent(a, i + 1, j - 1)'
      PROVE  Ev(i)'.new < Ev(j)'.new
  <2>1. (\A k \in i + 1 .. j - 1 : Of(k)' # a) /\ i \in 1 .. n /\ i < j
    BY <1>1, <1>5 DEF Silent
  <2>2. f[i] < f[j] /\ f[i] \in 1 .. f[j] - 1
    BY <1>1, <1>2, <2>1 DEF Keeps
  <2>3. ASSUME NEW p \in f[i] + 1 .. f[j] - 1, Of(p) = a
        PROVE  FALSE
    <3>1. i \in 0 .. n /\ j \in 1 .. n + 1 /\ p \in Way /\ f[i] < p /\ p < f[j]
      BY <1>1, <1>2, <2>1, <2>2
    <3>2. QED
      BY <1>3, <2>1, <2>3, <3>1
  <2>4. QED
    BY <1>2, <1>5, <2>1, <2>2, <2>3 DEF Unbroken, Silent
<1>6. ASSUME Silent(a, 1, n)'
      PROVE  lastNew[a] = box[a]
  <2>1. \A k \in 1 .. n : Of(k)' # a
    BY <1>6 DEF Silent
  <2>2. ASSUME NEW p \in 1 .. Count, Of(p) = a
        PROVE  FALSE
    <3>1. 0 \in 0 .. n /\ n + 1 \in 1 .. n + 1 /\ p \in Way
      BY <1>1
    <3>2. ~(n + 1 <= n)
      BY <1>1
    <3>3. \A k \in 0 + 1 .. (n + 1) - 1 : k \in 1 .. n
      BY <1>1
    <3>4. QED
      BY <1>3, <2>1, <2>2, <3>1, <3>2, <3>3
  <2>3. QED
    BY <2>2 DEF Unbroken, Silent
<1>7. ASSUME NEW i \in 1 .. n, Of(i)' = a, Silent(a, i + 1, n)'
      PROVE  Ev(i)'.new = box[a]
  <2>1. \A k \in i + 1 .. n : Of(k)' # a
    BY <1>7 DEF Silent
  <2>2. ASSUME NEW p \in f[i] + 1 .. Count, Of(p) = a
        PROVE  FALSE
    <3>1. i \in 0 .. n /\ n + 1 \in 1 .. n + 1 /\ p \in Way /\ ~(n + 1 <= n) /\ f[i] < p
          /\ (n + 1) - 1 = n
      BY <1>1, <1>2
    <3>2. QED
      BY <1>3, <2>1, <2>2, <3>1
  <2>3. QED
    BY <1>2, <1>7, <2>2 DEF Unbroken, Silent
<1>8. QED
  BY <1>1, <1>4, <1>5, <1>6, <1>7 DEF Unbroken

\* So is the promise that every message is told.
LEMMA ToldKept ==
  ASSUME NEW a \in Accounts, Told(a), NEW n, Count' = n, NEW f, Keeps(f, n),
         KeepsAll(f, n, a),
         \A k \in 1 .. n : Ev(k)' = Ev(f[k]),
         UNCHANGED <<arrived[a], base[a], alerts, starts>>
  PROVE  Told(a)'
<1>1. Way' = 1 .. n
  BY DEF Way
<1>2. \A m : Alerted(a, m)' <=> Alerted(a, m)
  BY DEF Alerted
<1>3. ASSUME NEW m, OnTheWay(a, m)
      PROVE  OnTheWay(a, m)'
  <2>1. PICK j \in Way : Of(j) = a /\ Ev(j).fresh /\ Ev(j).arrived = m
    BY <1>3 DEF OnTheWay
  <2>2. PICK k \in 1 .. n : f[k] = j
    BY <2>1 DEF KeepsAll
  <2>3. Ev(k)' = Ev(j) /\ Of(k)' = Of(j)
    BY <2>2 DEF Of
  <2>4. QED
    BY <1>1, <2>1, <2>3 DEF OnTheWay
<1>4. QED
  BY <1>2, <1>3 DEF Told

\* An event is published, or lost, or it and others are lost with the link.
LEMMA Losing ==
  ASSUME TypeOK, Publish \/ LinkDown
  PROVE  \E n, f : /\ Count' = n /\ Keeps(f, n)
                   /\ \A k \in 1 .. n : Ev(k)' = Ev(f[k])
                   /\ \A a \in Accounts \ gap' : KeepsAll(f, n, a)
                   /\ gap \subseteq gap'
<1>1. /\ chan \in Seq(Event) /\ wire \in Seq(Event)
      /\ Len(chan) \in Nat /\ Len(wire) \in Nat /\ Count \in Nat /\ Way = 1 .. Count
      /\ Count = Len(chan) + Len(wire)
  BY WayTypes DEF Count
<1>2. CASE LinkDown
  <2> DEFINE n == Len(chan)
             f == [k \in 1 .. n |-> k]
  <2>1. wire' = <<>> /\ chan' = chan /\ gap' = gap \cup AccountsOf(wire)
    BY <1>2 DEF LinkDown
  <2>2. Count' = n
    BY <1>1, <2>1 DEF Count
  <2>3. Keeps(f, n)
    BY <1>1 DEF Keeps
  <2>4. \A k \in 1 .. n : Ev(k)' = Ev(f[k])
    BY <1>1, <2>1 DEF Ev
  <2>5. ASSUME NEW a \in Accounts \ gap', NEW k \in Way, Of(k) = a
        PROVE  \E j \in 1 .. n : f[j] = k
    <3>1. CASE k <= Len(chan)
      BY <1>1, <3>1
    <3>2. CASE k > Len(chan)
      <4>1. k - Len(chan) \in 1 .. Len(wire) /\ Ev(k) = wire[k - Len(chan)]
        BY <1>1, <3>2 DEF Ev
      <4>2. Of(k) \in AccountsOf(wire)
        BY <4>1 DEF Of, AccountsOf
      <4>3. QED
        BY <2>1, <2>5, <4>2
    <3>3. QED
      BY <1>1, <3>1, <3>2
  <2> HIDE DEF f, n
  <2>6. QED
    BY <2>1, <2>2, <2>3, <2>4, <2>5 DEF KeepsAll
<1>3. CASE Publish
  <2>1. /\ wire # <<>> /\ wire' = Tail(wire)
        /\ \/ chan' = Append(chan, Head(wire)) /\ gap' = gap
           \/ chan' = chan /\ gap' = gap \cup {Head(wire).account}
    BY <1>3 DEF Publish
  <2>2. /\ Len(wire) >= 1 /\ Len(wire') = Len(wire) - 1
        /\ \A k \in 1 .. Len(wire) - 1 : wire'[k] = wire[k + 1]
        /\ Head(wire) = wire[1] /\ Head(wire) \in Event
    BY <1>1, <2>1
  <2>3. CASE chan' = Append(chan, Head(wire)) /\ gap' = gap
    <3> DEFINE n == Count
               f == [k \in 1 .. n |-> k]
    <3>1. Len(chan') = Len(chan) + 1 /\ chan'[Len(chan) + 1] = wire[1]
          /\ \A k \in 1 .. Len(chan) : chan'[k] = chan[k]
      BY <1>1, <2>2, <2>3
    <3>2. Len(chan') + Len(wire') = n
      BY <1>1, <2>2, <3>1
    <3>3. Count' = n
      BY <3>2 DEF Count
    <3>4. Keeps(f, n)
      BY <1>1 DEF Keeps
    <3>5. ASSUME NEW k \in 1 .. n
          PROVE  Ev(k)' = Ev(k)
      <4>1. CASE k <= Len(chan)
        BY <1>1, <3>1, <4>1 DEF Ev
      <4>2. CASE k = Len(chan) + 1
        BY <1>1, <3>1, <4>2 DEF Ev
      <4>3. CASE k > Len(chan) + 1
        <5>1. k - Len(chan') \in 1 .. Len(wire) - 1 /\ (k - Len(chan')) + 1 = k - Len(chan)
              /\ ~(k <= Len(chan')) /\ ~(k <= Len(chan))
          BY <1>1, <3>1, <4>3
        <5>2. QED
          BY <2>2, <5>1 DEF Ev
      <4>4. QED
        BY <1>1, <4>1, <4>2, <4>3
    <3>6. \A k \in 1 .. n : f[k] = k
      OBVIOUS
    <3>7. \A a \in Accounts : KeepsAll(f, n, a)
      BY <1>1, <3>6 DEF KeepsAll
    <3> HIDE DEF f, n
    <3>8. QED
      BY <2>3, <3>3, <3>4, <3>5, <3>6, <3>7
  <2>4. CASE chan' = chan /\ gap' = gap \cup {Head(wire).account}
    <3> DEFINE n == Count - 1
               f == [k \in 1 .. n |-> IF k <= Len(chan) THEN k ELSE k + 1]
    <3>1. n \in Nat /\ Len(chan') + Len(wire') = n
      BY <1>1, <2>2, <2>4
    <3>2. Count' = n
      BY <3>1 DEF Count
    <3>3. Keeps(f, n)
      BY <1>1, <3>1 DEF Keeps
    <3>4. \A k \in 1 .. n : Ev(k)' = Ev(f[k])
      <4>1. ASSUME NEW k \in 1 .. n
            PROVE  Ev(k)' = Ev(f[k])
        <5>1. CASE k <= Len(chan)
          BY <1>1, <2>4, <5>1 DEF Ev
        <5>2. CASE k > Len(chan)
          <6>1. /\ f[k] = k + 1 /\ k - Len(chan) \in 1 .. Len(wire) - 1
                /\ (k - Len(chan)) + 1 = (k + 1) - Len(chan)
                /\ ~(k <= Len(chan)) /\ ~(k + 1 <= Len(chan))
            BY <1>1, <3>1, <5>2
          <6>2. QED
            BY <2>2, <2>4, <6>1 DEF Ev
        <5>3. QED
          BY <1>1, <5>1, <5>2
      <4>2. QED
        BY <4>1
    <3>5. ASSUME NEW a \in Accounts \ gap', NEW k \in Way, Of(k) = a
          PROVE  \E j \in 1 .. n : f[j] = k
      <4>1. Ev(Len(chan) + 1) = Head(wire)
        BY <2>1, WayTypes
      <4>2. k # Len(chan) + 1
        BY <2>4, <3>5, <4>1 DEF Of
      <4>3. CASE k <= Len(chan)
        <5>1. k \in 1 .. n
          BY <1>1, <2>2, <4>3
        <5>2. QED
          BY <4>3, <5>1
      <4>4. CASE k > Len(chan) + 1
        <5>1. k - 1 \in 1 .. n /\ ~(k - 1 <= Len(chan)) /\ (k - 1) + 1 = k
          BY <1>1, <4>4
        <5>2. f[k - 1] = k
          BY <5>1
        <5>3. QED
          BY <5>1, <5>2
      <4>5. QED
        BY <1>1, <4>2, <4>3, <4>4
    <3> HIDE DEF f, n
    <3>6. QED
      BY <2>4, <3>2, <3>3, <3>4, <3>5 DEF KeepsAll
  <2>5. QED
    BY <2>1, <2>3, <2>4
<1>4. QED
  BY <1>2, <1>3

--------------------------------------------------------------------------------
(***************************************************************************)
(* FreeSWITCH sends an event.                                              *)
(***************************************************************************)

\* The event is the last on the way, or lost.
LEMMA Sending ==
  ASSUME TypeOK, NEW e, Says(e)
  PROVE  \E c \in Nat :
           /\ Count = c /\ Way = 1 .. c
           /\ \A k \in 1 .. c : Ev(k)' = Ev(k) /\ Of(k)' = Of(k)
           /\ \/ /\ Count' = c + 1 /\ Way' = 1 .. c + 1 /\ gap' = gap
                 /\ \A k : k = c + 1 => Ev(k)' = e /\ Of(k)' = e.account
              \/ Count' = c /\ Way' = 1 .. c /\ gap' = gap \cup {e.account}
<1> DEFINE c == Len(chan) + Len(wire)
<1>1. /\ chan \in Seq(Event) /\ wire \in Seq(Event)
      /\ Len(chan) \in Nat /\ Len(wire) \in Nat /\ c \in Nat
  BY WayTypes
<1>2. Count = c /\ Way = 1 .. c
  BY DEF Count, Way
<1>3. /\ e \in Event /\ chan' = chan
      /\ \/ wire' = Append(wire, e) /\ gap' = gap
         \/ wire' = wire /\ gap' = gap \cup {e.account}
  BY DEF Says, Emit
<1>4. CASE wire' = wire /\ gap' = gap \cup {e.account}
  <2>1. Count' = c /\ Way' = 1 .. c
    BY <1>3, <1>4 DEF Count, Way
  <2>2. \A k \in 1 .. c : Ev(k)' = Ev(k) /\ Of(k)' = Of(k)
    BY <1>3, <1>4 DEF Ev, Of
  <2> HIDE DEF c
  <2>3. QED
    BY <1>1, <1>2, <1>4, <2>1, <2>2
<1>5. CASE wire' = Append(wire, e) /\ gap' = gap
  <2>1. /\ Len(wire') = Len(wire) + 1 /\ wire'[Len(wire) + 1] = e
        /\ \A k \in 1 .. Len(wire) : wire'[k] = wire[k]
    BY <1>1, <1>3, <1>5
  <2>2. Len(chan') + Len(wire') = c + 1
    BY <1>1, <1>3, <2>1
  <2>3. Count' = c + 1 /\ Way' = 1 .. c + 1
    BY <2>2 DEF Count, Way
  <2>4. ASSUME NEW k \in 1 .. c
        PROVE  Ev(k)' = Ev(k)
    <3>1. CASE k <= Len(chan)
      BY <1>3, <3>1 DEF Ev
    <3>2. CASE k > Len(chan)
      <4>1. k - Len(chan) \in 1 .. Len(wire) /\ ~(k <= Len(chan))
        BY <1>1, <3>2
      <4>2. QED
        BY <1>3, <2>1, <4>1 DEF Ev
    <3>3. QED
      BY <1>1, <3>1, <3>2
  <2>5. ASSUME NEW k, k = c + 1
        PROVE  Ev(k)' = e
    <3>1. k - Len(chan) = Len(wire) + 1 /\ ~(k <= Len(chan))
      BY <1>1, <2>5
    <3>2. QED
      BY <1>3, <2>1, <3>1 DEF Ev
  <2>6. /\ \A k \in 1 .. c : Of(k)' = Of(k)
        /\ \A k : k = c + 1 => Of(k)' = e.account
    BY <2>4, <2>5 DEF Of
  <2> HIDE DEF c
  <2>7. QED
    BY <1>1, <1>2, <1>5, <2>3, <2>4, <2>5, <2>6
<1>6. QED
  BY <1>3, <1>4, <1>5

\* Being later is transitive.
LEMMA LaterLater ==
  ASSUME NEW n1 \in Nat, NEW m1 \in Nat, NEW n2 \in Nat, NEW m2 \in Nat,
         NEW n3 \in Nat, NEW m3 \in Nat,
         Later(n2, m2, n1, m1), Later(n3, m3, n2, m2)
  PROVE  Later(n3, m3, n1, m1)
BY DEF Later

\* What the variables hold are numbers.
LEMMA Numbers ==
  ASSUME TypeOK
  PROVE  /\ \A a \in Accounts : /\ box[a] \in Nat /\ arrived[a] \in Nat
                                /\ lastNew[a] \in Nat /\ base[a] \in Nat
         /\ \A e \in Event : e.account \in Accounts /\ e.new \in Nat /\ e.arrived \in Nat
         /\ alerts \in Seq(Alert) /\ Len(alerts) \in Nat /\ starts \in Nat
         /\ \A k \in 1 .. Len(alerts) : /\ alerts[k].account \in Accounts
                                        /\ alerts[k].arrived \in Nat
                                        /\ alerts[k].start \in Nat
<1>1. /\ box \in [Accounts -> 0 .. MaxNew] /\ arrived \in [Accounts -> 0 .. MaxArrivals]
      /\ lastNew \in [Accounts -> 0 .. MaxNew] /\ base \in [Accounts -> 0 .. MaxArrivals]
      /\ alerts \in Seq(Alert) /\ starts \in 1 .. MaxStarts
  BY DEF TypeOK
<1>2. 0 .. MaxNew \subseteq Nat /\ 0 .. MaxArrivals \subseteq Nat /\ 1 .. MaxStarts \subseteq Nat
  BY BoundsAssumption
<1>3. \A e \in Event : e.account \in Accounts /\ e.new \in Nat /\ e.arrived \in Nat
  BY <1>2 DEF Event
<1>4. \A e \in Alert : e.account \in Accounts /\ e.arrived \in Nat /\ e.start \in Nat
  BY <1>2 DEF Alert
<1>5. \A k \in 1 .. Len(alerts) : alerts[k] \in Alert
  BY <1>1
<1>6. QED
  BY <1>1, <1>2, <1>3, <1>4, <1>5

\* The mailbox after it.
LEMMA Mailbox ==
  ASSUME TypeOK, NEW e, Says(e), NEW a \in Accounts
  PROVE  IF a = e.account THEN box'[a] = e.new /\ arrived'[a] = e.arrived
                          ELSE box'[a] = box[a] /\ arrived'[a] = arrived[a]
<1>1. /\ box \in [Accounts -> 0 .. MaxNew] /\ arrived \in [Accounts -> 0 .. MaxArrivals]
  BY DEF TypeOK
<1>2. QED
  BY <1>1 DEF Says

LEMMA ChainSays ==
  ASSUME TypeOK, Chain, NEW e, Says(e)
  PROVE  Chain'
<1>1. PICK c \in Nat :
        /\ Count = c /\ Way = 1 .. c
        /\ \A k \in 1 .. c : Ev(k)' = Ev(k) /\ Of(k)' = Of(k)
        /\ \/ /\ Way' = 1 .. c + 1
              /\ \A k : k = c + 1 => Ev(k)' = e /\ Of(k)' = e.account
           \/ Way' = 1 .. c
  BY Sending
<1>2. /\ e \in Event /\ Later(e.new, e.arrived, box[e.account], arrived[e.account])
      /\ e.account \in Accounts /\ e.new \in Nat /\ e.arrived \in Nat
  BY Numbers DEF Says
<1>3. \A k \in 1 .. c : Ev(k) \in Event /\ Of(k) = Ev(k).account
  BY <1>1, WayTypes DEF Of
<1>4. ASSUME NEW k \in 1 .. c, Of(k) = e.account
      PROVE  Later(e.new, e.arrived, Ev(k).new, Ev(k).arrived)
  <2>1. Later(box[Of(k)], arrived[Of(k)], Ev(k).new, Ev(k).arrived)
    BY <1>1 DEF Chain
  <2>2. /\ Ev(k).new \in Nat /\ Ev(k).arrived \in Nat
        /\ box[e.account] \in Nat /\ arrived[e.account] \in Nat
    BY <1>2, <1>3, Numbers
  <2>3. Later(box[e.account], arrived[e.account], Ev(k).new, Ev(k).arrived)
    BY <1>4, <2>1
  <2>4. QED
    BY <1>2, <2>2, <2>3 DEF Later
<1>5. ASSUME NEW k \in 1 .. c
      PROVE  Later(box[Of(k)], arrived[Of(k)], Ev(k).new, Ev(k).arrived)'
  <2>1. Of(k) \in Accounts
    BY <1>1, WayTypes
  <2>2. CASE Of(k) = e.account
    BY <1>1, <1>4, <2>1, <2>2, Mailbox DEF Later
  <2>3. CASE Of(k) # e.account
    <3>1. Later(box[Of(k)], arrived[Of(k)], Ev(k).new, Ev(k).arrived)
      BY <1>1 DEF Chain
    <3>2. QED
      BY <1>1, <2>1, <2>3, <3>1, Mailbox DEF Later
  <2>4. QED
    BY <2>2, <2>3
<1>6. ASSUME NEW j \in 1 .. c, NEW i \in 1 .. j - 1, Of(i)' = Of(j)'
      PROVE  Later(Ev(j).new, Ev(j).arrived, Ev(i).new, Ev(i).arrived)'
  <2>1. i \in 1 .. c
    OBVIOUS
  <2>2. Later(Ev(j).new, Ev(j).arrived, Ev(i).new, Ev(i).arrived)
    BY <1>1, <1>6, <2>1 DEF Chain
  <2>3. QED
    BY <1>1, <2>1, <2>2 DEF Later
<1>7. CASE Way' = 1 .. c
  BY <1>5, <1>6, <1>7 DEF Chain
<1>8. CASE Way' = 1 .. c + 1 /\ \A k : k = c + 1 => Ev(k)' = e /\ Of(k)' = e.account
  <2>1. ASSUME NEW j, j = c + 1, NEW i \in 1 .. j - 1, Of(i)' = Of(j)'
        PROVE  Later(Ev(j).new, Ev(j).arrived, Ev(i).new, Ev(i).arrived)'
    <3>1. i \in 1 .. c
      BY <2>1
    <3>2. QED
      BY <1>1, <1>4, <1>8, <2>1, <3>1 DEF Later
  <2>2. ASSUME NEW j, j = c + 1
        PROVE  Later(box[Of(j)], arrived[Of(j)], Ev(j).new, Ev(j).arrived)'
    <3>1. box'[e.account] = e.new /\ arrived'[e.account] = e.arrived
      BY <1>2, Mailbox
    <3>2. QED
      BY <1>2, <1>8, <2>2, <3>1 DEF Later
  <2>3. \A j \in 1 .. c + 1 : j \in 1 .. c \/ j = c + 1
    OBVIOUS
  <2>4. QED
    BY <1>5, <1>6, <1>8, <2>1, <2>2, <2>3 DEF Chain
<1>9. QED
  BY <1>1, <1>7, <1>8

LEMMA MarksSays ==
  ASSUME TypeOK, Marks, NEW e, Says(e)
  PROVE  Marks'
<1>1. PICK c \in Nat :
        /\ Count = c /\ Way = 1 .. c
        /\ \A k \in 1 .. c : Ev(k)' = Ev(k) /\ Of(k)' = Of(k)
        /\ \/ /\ Way' = 1 .. c + 1
              /\ \A k : k = c + 1 => Ev(k)' = e /\ Of(k)' = e.account
           \/ Way' = 1 .. c
  BY Sending
<1>2. /\ Later(e.new, e.arrived, box[e.account], arrived[e.account])
      /\ e.account \in Accounts /\ e.new \in Nat /\ e.arrived \in Nat
      /\ UNCHANGED <<lastNew, alerts, starts>>
  BY Numbers DEF Says
<1>3. ASSUME NEW k \in 1 .. Len(alerts), alerts[k].start = starts
      PROVE  LET a == alerts[k].account
                 m == alerts[k].arrived
             IN  /\ Later(box[a], arrived[a], lastNew[a], m)'
                 /\ \A j \in Way' :
                      Of(j)' = a => Later(Ev(j).new, Ev(j).arrived, lastNew[a], m)'
  <2> DEFINE a == alerts[k].account
             m == alerts[k].arrived
  <2>1. /\ Later(box[a], arrived[a], lastNew[a], m)
        /\ \A j \in Way : Of(j) = a => Later(Ev(j).new, Ev(j).arrived, lastNew[a], m)
    BY <1>3 DEF Marks
  <2>2. a \in Accounts /\ m \in Nat /\ box[a] \in Nat /\ arrived[a] \in Nat
        /\ lastNew[a] \in Nat
    BY Numbers
  <2>3. a' = a /\ m' = m /\ lastNew' = lastNew
    BY <1>2
  <2> HIDE DEF a, m
  <2>4. a = e.account => Later(e.new, e.arrived, lastNew[a], m)
    BY <1>2, <2>1, <2>2, LaterLater
  <2>5. Later(box'[a], arrived'[a], lastNew[a], m)
    BY <2>1, <2>2, <2>4, Mailbox
  <2>6. ASSUME NEW j \in Way', Of(j)' = a
        PROVE  Later(Ev(j)'.new, Ev(j)'.arrived, lastNew[a], m)
    <3>1. CASE j \in 1 .. c
      BY <1>1, <2>1, <2>6, <3>1
    <3>2. CASE j \notin 1 .. c
      <4>1. j = c + 1 /\ Ev(j)' = e /\ Of(j)' = e.account
        BY <1>1, <3>2
      <4>2. QED
        BY <2>4, <2>6, <4>1
    <3>3. QED
      BY <3>1, <3>2
  <2>7. QED
    BY <2>3, <2>5, <2>6 DEF Later, a, m
<1>4. \A k \in 1 .. Len(alerts) : alerts[k].start <= starts
  BY DEF Marks
<1>5. QED
  BY <1>2, <1>3, <1>4 DEF Marks, Later

LEMMA UnbrokenSays ==
  ASSUME TypeOK, NEW e, Says(e), NEW a \in Accounts, a \notin gap', Unbroken(a)
  PROVE  Unbroken(a)'
<1>1. PICK c \in Nat :
        /\ Count = c /\ Way = 1 .. c
        /\ \A k \in 1 .. c : Ev(k)' = Ev(k) /\ Of(k)' = Of(k)
        /\ \/ /\ Count' = c + 1 /\ Way' = 1 .. c + 1
              /\ \A k : k = c + 1 => Ev(k)' = e /\ Of(k)' = e.account
           \/ Count' = c /\ Way' = 1 .. c /\ gap' = gap \cup {e.account}
  BY Sending
<1>2. lastNew' = lastNew /\ (e.fresh => box[e.account] < e.new)
  BY DEF Says
<1>3. ASSUME NEW j \in 1 .. c, Of(j)' = a, Ev(j)'.fresh
      PROVE  /\ Silent(a, 1, j - 1)' => lastNew'[a] < Ev(j)'.new
             /\ \A i \in 1 .. j - 1 :
                  Of(i)' = a /\ Silent(a, i + 1, j - 1)' => Ev(i)'.new < Ev(j)'.new
  <2>1. Of(j) = a /\ Ev(j).fresh /\ Ev(j)' = Ev(j)
    BY <1>1, <1>3
  <2>2. ASSUME Silent(a, 1, j - 1)'
        PROVE  lastNew'[a] < Ev(j)'.new
    <3>1. Silent(a, 1, j - 1)
      <4>1. \A k \in 1 .. j - 1 : Of(k)' # a /\ k \in 1 .. c
        BY <2>2 DEF Silent
      <4>2. QED
        BY <1>1, <4>1 DEF Silent
    <3>2. QED
      BY <1>1, <1>2, <2>1, <3>1 DEF Unbroken
  <2>3. ASSUME NEW i \in 1 .. j - 1, Of(i)' = a, Silent(a, i + 1, j - 1)'
        PROVE  Ev(i)'.new < Ev(j)'.new
    <3>1. i \in 1 .. c /\ Of(i) = a /\ Ev(i)' = Ev(i)
      BY <1>1, <2>3
    <3>2. Silent(a, i + 1, j - 1)
      <4>1. \A k \in i + 1 .. j - 1 : Of(k)' # a /\ k \in 1 .. c
        BY <2>3, <3>1 DEF Silent
      <4>2. QED
        BY <1>1, <4>1 DEF Silent
    <3>3. QED
      BY <1>1, <2>1, <3>1, <3>2 DEF Unbroken
  <2>4. QED
    BY <2>2, <2>3
<1>4. CASE a # e.account
  <2>1. box'[a] = box[a]
    BY <1>4, Mailbox
  <2>2. \A k \in Way' : Of(k)' = a => k \in 1 .. c
    BY <1>1, <1>4
  <2>3. ASSUME NEW i \in 0 .. c, Silent(a, i + 1, Count)'
        PROVE  Silent(a, i + 1, c)
    <3>1. \A k \in i + 1 .. c : Of(k)' # a /\ k \in 1 .. c
      BY <1>1, <2>3 DEF Silent
    <3>2. QED
      BY <1>1, <3>1 DEF Silent
  <2>4. ASSUME Silent(a, 1, Count)'
        PROVE  lastNew'[a] = box'[a]
    <3>1. 0 \in 0 .. c /\ 0 + 1 = 1
      BY <1>1
    <3>2. Silent(a, 1, c)
      BY <2>3, <2>4, <3>1
    <3>3. QED
      BY <1>1, <1>2, <2>1, <3>2 DEF Unbroken
  <2>5. ASSUME NEW i \in Way', Of(i)' = a, Silent(a, i + 1, Count)'
        PROVE  Ev(i)'.new = box'[a]
    <3>1. i \in 1 .. c /\ i \in 0 .. c
      BY <1>1, <2>2, <2>5
    <3>2. Silent(a, i + 1, c) /\ Of(i) = a /\ Ev(i)' = Ev(i)
      BY <1>1, <2>3, <2>5, <3>1
    <3>3. QED
      BY <1>1, <2>1, <3>1, <3>2 DEF Unbroken
  <2>6. ASSUME NEW j \in Way', Of(j)' = a, Ev(j)'.fresh
        PROVE  /\ Silent(a, 1, j - 1)' => lastNew'[a] < Ev(j)'.new
               /\ \A i \in 1 .. j - 1 :
                    Of(i)' = a /\ Silent(a, i + 1, j - 1)' => Ev(i)'.new < Ev(j)'.new
    BY <1>3, <2>2, <2>6
  <2>7. QED
    BY <2>4, <2>5, <2>6 DEF Unbroken
<1>5. CASE a = e.account
  <2>1. /\ Count' = c + 1 /\ Way' = 1 .. c + 1
        /\ \A k : k = c + 1 => Ev(k)' = e /\ Of(k)' = a
        /\ box'[a] = e.new
    BY <1>1, <1>5, Mailbox
  <2>2. c + 1 \in 1 .. c + 1 /\ Of(c + 1)' = a
    BY <2>1
  <2>3. \A i \in 0 .. c : ~Silent(a, i + 1, Count)'
    <3>1. \A i \in 0 .. c : c + 1 \in i + 1 .. c + 1
      OBVIOUS
    <3>2. QED
      BY <2>1, <2>2, <3>1 DEF Silent
  <2>4. ~Silent(a, 1, Count)'
    <3>1. 0 \in 0 .. c /\ 0 + 1 = 1
      BY <1>1
    <3>2. QED
      BY <2>3, <3>1
  <2>5. ASSUME NEW i \in Way', Of(i)' = a, Silent(a, i + 1, Count)'
        PROVE  Ev(i)'.new = box'[a]
    <3>1. i \notin 0 .. c
      BY <2>3, <2>5
    <3>2. i = c + 1
      BY <2>1, <3>1
    <3>3. QED
      BY <2>1, <3>2
  <2>6. ASSUME NEW j \in Way', Of(j)' = a, Ev(j)'.fresh
        PROVE  /\ Silent(a, 1, j - 1)' => lastNew'[a] < Ev(j)'.new
               /\ \A i \in 1 .. j - 1 :
                    Of(i)' = a /\ Silent(a, i + 1, j - 1)' => Ev(i)'.new < Ev(j)'.new
    <3>1. CASE j \in 1 .. c
      BY <1>3, <2>6, <3>1
    <3>2. CASE j \notin 1 .. c
      <4>1. j = c + 1 /\ Ev(j)' = e /\ box[a] < e.new /\ j - 1 = c
        BY <1>2, <1>5, <2>1, <2>6, <3>2
      <4>2. ASSUME Silent(a, 1, j - 1)'
            PROVE  lastNew'[a] < Ev(j)'.new
        <5>1. \A k \in 1 .. c : Of(k) # a
          BY <1>1, <4>1, <4>2 DEF Silent
        <5>2. lastNew[a] = box[a]
          BY <1>1, <5>1 DEF Unbroken, Silent
        <5>3. QED
          BY <1>2, <4>1, <5>2
      <4>3. ASSUME NEW i \in 1 .. j - 1, Of(i)' = a, Silent(a, i + 1, j - 1)'
            PROVE  Ev(i)'.new < Ev(j)'.new
        <5>1. i \in 1 .. c /\ Of(i) = a /\ Ev(i)' = Ev(i)
          BY <1>1, <4>1, <4>3
        <5>2. \A k \in i + 1 .. c : Of(k)' # a /\ k \in 1 .. c
          BY <4>1, <4>3, <5>1 DEF Silent
        <5>3. Ev(i).new = box[a]
          BY <1>1, <5>1, <5>2 DEF Unbroken, Silent
        <5>4. QED
          BY <4>1, <5>1, <5>3
      <4>4. QED
        BY <4>2, <4>3
    <3>3. QED
      BY <3>1, <3>2
  <2>7. QED
    BY <2>4, <2>5, <2>6 DEF Unbroken
<1>6. QED
  BY <1>4, <1>5

LEMMA ToldSays ==
  ASSUME TypeOK, NEW e, Says(e), NEW a \in Accounts, a \notin gap', Told(a)
  PROVE  Told(a)'
<1>1. PICK c \in Nat :
        /\ Count = c /\ Way = 1 .. c
        /\ \A k \in 1 .. c : Ev(k)' = Ev(k) /\ Of(k)' = Of(k)
        /\ \/ /\ Way' = 1 .. c + 1
              /\ \A k : k = c + 1 => Ev(k)' = e /\ Of(k)' = e.account
           \/ Way' = 1 .. c /\ gap' = gap \cup {e.account}
  BY Sending
<1>2. /\ UNCHANGED <<alerts, starts, base>>
      /\ IF e.fresh THEN e.arrived = arrived[e.account] + 1
                    ELSE e.arrived = arrived[e.account]
      /\ e \in Event
  BY DEF Says
<1>3. /\ arrived[a] \in Nat /\ base[a] \in Nat
      /\ e.arrived \in Nat /\ e.fresh \in BOOLEAN
  BY <1>2, Numbers DEF Event
<1>4. ASSUME NEW m, OnTheWay(a, m)
      PROVE  OnTheWay(a, m)'
  <2>1. PICK j \in 1 .. c : Of(j) = a /\ Ev(j).fresh /\ Ev(j).arrived = m
    BY <1>1, <1>4 DEF OnTheWay
  <2>2. j \in Way' /\ Ev(j)' = Ev(j) /\ Of(j)' = Of(j)
    BY <1>1
  <2>3. QED
    BY <2>1, <2>2 DEF OnTheWay
<1>5. \A m : Alerted(a, m)' <=> Alerted(a, m)
  BY <1>2 DEF Alerted
<1>6. ASSUME NEW m \in base'[a] + 1 .. arrived'[a]
      PROVE  OnTheWay(a, m)' \/ Alerted(a, m)'
  <2>1. CASE m \in base[a] + 1 .. arrived[a]
    BY <1>4, <1>5, <2>1 DEF Told
  <2>2. CASE m \notin base[a] + 1 .. arrived[a]
    <3>1. a = e.account /\ arrived'[a] = e.arrived
      BY <1>2, <1>6, <2>2, Mailbox
    <3>2. e.fresh /\ e.arrived = arrived[a] + 1 /\ m = e.arrived
      BY <1>2, <1>3, <1>6, <2>2, <3>1
    <3>3. c + 1 \in Way' /\ Ev(c + 1)' = e /\ Of(c + 1)' = a
      BY <1>1, <3>1
    <3>4. OnTheWay(a, m)'
      BY <3>2, <3>3 DEF OnTheWay
    <3>5. QED
      BY <3>4
  <2>3. QED
    BY <2>1, <2>2
<1>7. QED
  BY <1>6 DEF Told

--------------------------------------------------------------------------------
(***************************************************************************)
(* The notifier takes an event, or starts again.                           *)
(***************************************************************************)

LEMMA Taking ==
  ASSUME TypeOK, Handle
  PROVE  \E n \in Nat :
           /\ Count = n + 1 /\ Way = 1 .. n + 1 /\ Count' = n /\ Way' = 1 .. n
           /\ \A k \in 1 .. n : Ev(k)' = Ev(k + 1) /\ Of(k)' = Of(k + 1)
<1> DEFINE n == (Len(chan) + Len(wire)) - 1
<1>1. /\ chan \in Seq(Event) /\ chan # <<>> /\ chan' = Tail(chan) /\ wire' = wire
      /\ Len(chan) \in Nat /\ Len(wire) \in Nat
  BY Handling, WayTypes
<1>2. /\ Len(chan) >= 1 /\ Len(chan') = Len(chan) - 1
      /\ \A k \in 1 .. Len(chan) - 1 : chan'[k] = chan[k + 1]
  BY <1>1
<1>3. n \in Nat /\ Len(chan) + Len(wire) = n + 1 /\ Len(chan') + Len(wire') = n
  BY <1>1, <1>2
<1>4. Count = n + 1 /\ Way = 1 .. n + 1 /\ Count' = n /\ Way' = 1 .. n
  BY <1>3 DEF Count, Way
<1>5. ASSUME NEW k \in 1 .. n
      PROVE  Ev(k)' = Ev(k + 1)
  <2>1. CASE k <= Len(chan) - 1
    <3>1. k \in 1 .. Len(chan) - 1 /\ k <= Len(chan') /\ k + 1 <= Len(chan)
      BY <1>1, <1>2, <2>1
    <3>2. QED
      BY <1>2, <3>1 DEF Ev
  <2>2. CASE k > Len(chan) - 1
    <3>1. ~(k <= Len(chan')) /\ ~(k + 1 <= Len(chan))
          /\ k - Len(chan') = (k + 1) - Len(chan)
      BY <1>1, <1>2, <2>2
    <3>2. QED
      BY <1>1, <3>1 DEF Ev
  <2>3. QED
    BY <1>1, <2>1, <2>2
<1>6. \A k \in 1 .. n : Of(k)' = Of(k + 1)
  BY <1>5 DEF Of
<1> HIDE DEF n
<1>7. QED
  BY <1>3, <1>4, <1>5, <1>6

LEMMA ChainHandle ==
  ASSUME TypeOK, Chain, Handle
  PROVE  Chain'
<1>1. PICK n \in Nat :
        /\ Way = 1 .. n + 1 /\ Count' = n
        /\ \A k \in 1 .. n : Ev(k)' = Ev(k + 1)
  BY Taking
<1> DEFINE f == [k \in 1 .. n |-> k + 1]
<1>2. Keeps(f, n) /\ \A k \in 1 .. n : Ev(k)' = Ev(f[k])
  BY <1>1 DEF Keeps
<1>3. UNCHANGED <<box, arrived>>
  BY Handling
<1> HIDE DEF f
<1>4. QED
  BY <1>1, <1>2, <1>3, ChainKept

\* The notifications after it.
LEMMA Notifying ==
  ASSUME TypeOK, Handle
  PROVE  LET e == Ev(1)
             n == Len(alerts)
         IN  /\ \A k \in 1 .. n : alerts'[k] = alerts[k]
             /\ \/ Len(alerts') = n /\ ~(e.new > lastNew[e.account])
                \/ /\ Len(alerts') = n + 1 /\ e.new > lastNew[e.account]
                   /\ \A k : k = n + 1 => /\ alerts'[k].account = e.account
                                          /\ alerts'[k].arrived = e.arrived
                                          /\ alerts'[k].start = starts
<1> DEFINE e == Ev(1)
           alert == [account |-> e.account, new |-> e.new, arrived |-> e.arrived,
                     start |-> starts]
<1>1. alerts \in Seq(Alert) /\ Len(alerts) \in Nat
  BY Numbers
<1>2. \/ alerts' = Append(alerts, alert) /\ e.new > lastNew[e.account]
      \/ alerts' = alerts /\ ~(e.new > lastNew[e.account])
  BY Handling
<1>3. alert.account = e.account /\ alert.arrived = e.arrived /\ alert.start = starts
  OBVIOUS
<1> HIDE DEF alert
<1>4. CASE alerts' = Append(alerts, alert) /\ e.new > lastNew[e.account]
  <2>1. /\ Len(alerts') = Len(alerts) + 1 /\ alerts'[Len(alerts) + 1] = alert
        /\ \A k \in 1 .. Len(alerts) : alerts'[k] = alerts[k]
    BY <1>1, <1>4
  <2>2. QED
    BY <1>3, <1>4, <2>1
<1>5. QED
  BY <1>2, <1>4

LEMMA MarksHandle ==
  ASSUME TypeOK, Chain, Marks, Handle
  PROVE  Marks'
<1> DEFINE e == Ev(1)
<1>1. PICK n \in Nat :
        /\ Way = 1 .. n + 1 /\ Way' = 1 .. n
        /\ \A k \in 1 .. n : Ev(k)' = Ev(k + 1) /\ Of(k)' = Of(k + 1)
  BY Taking
<1>2. /\ e \in Event /\ Of(1) = e.account
      /\ lastNew' = [lastNew EXCEPT ![e.account] = e.new]
      /\ UNCHANGED <<box, arrived, starts>>
  BY Handling
<1>3. e.account \in Accounts /\ e.new \in Nat /\ e.arrived \in Nat
  BY <1>2, Numbers
<1>4. /\ lastNew'[e.account] = e.new
      /\ \A a \in Accounts : a # e.account => lastNew'[a] = lastNew[a]
  <2>1. lastNew \in [Accounts -> 0 .. MaxNew]
    BY DEF TypeOK
  <2>2. QED
    BY <1>2, <1>3, <2>1
\* What comes after the event, and after what was notified before it.
<1>5. /\ Later(box[e.account], arrived[e.account], e.new, e.arrived)
      /\ \A j \in 1 .. n : Of(j)' = e.account => Later(Ev(j)'.new, Ev(j)'.arrived, e.new, e.arrived)
  <2>1. 1 \in Way /\ \A j \in 1 .. n : j + 1 \in Way /\ 1 \in 1 .. (j + 1) - 1
    BY <1>1
  <2>2. Later(box[e.account], arrived[e.account], e.new, e.arrived)
    BY <1>2, <2>1 DEF Chain
  <2>3. \A j \in 1 .. n : Of(j + 1) = e.account =>
          Later(Ev(j + 1).new, Ev(j + 1).arrived, e.new, e.arrived)
    BY <1>2, <2>1 DEF Chain
  <2>4. QED
    BY <1>1, <2>2, <2>3
<1>6. \A j \in 1 .. n : Ev(j)'.new \in Nat /\ Ev(j)'.arrived \in Nat
  <2>1. \A j \in 1 .. n : j + 1 \in Way /\ Ev(j + 1) \in Event
    BY <1>1, WayTypes
  <2>2. QED
    BY <1>1, <2>1, Numbers
<1> HIDE DEF e
<1>7. ASSUME NEW k \in 1 .. Len(alerts), alerts[k].start = starts
      PROVE  LET a == alerts[k].account
                 m == alerts[k].arrived
             IN  /\ Later(box[a], arrived[a], lastNew'[a], m)
                 /\ \A j \in 1 .. n :
                      Of(j)' = a => Later(Ev(j)'.new, Ev(j)'.arrived, lastNew'[a], m)
  <2> DEFINE a == alerts[k].account
             m == alerts[k].arrived
  <2>1. /\ Later(box[a], arrived[a], lastNew[a], m)
        /\ \A j \in Way : Of(j) = a => Later(Ev(j).new, Ev(j).arrived, lastNew[a], m)
    BY <1>7 DEF Marks
  <2>2. a \in Accounts /\ m \in Nat /\ box[a] \in Nat /\ arrived[a] \in Nat
    BY Numbers
  <2> HIDE DEF a, m
  <2>3. CASE a # e.account
    <3>1. lastNew'[a] = lastNew[a]
      BY <1>4, <2>2, <2>3
    <3>2. ASSUME NEW j \in 1 .. n, Of(j)' = a
          PROVE  Later(Ev(j)'.new, Ev(j)'.arrived, lastNew[a], m)
      <4>1. j + 1 \in Way /\ Of(j + 1) = a /\ Ev(j)' = Ev(j + 1)
        BY <1>1, <3>2
      <4>2. QED
        BY <2>1, <4>1
    <3>3. QED
      BY <2>1, <3>1, <3>2 DEF a, m
  <2>4. CASE a = e.account
    <3>1. m <= e.arrived
      <4>1. 1 \in Way
        BY <1>1
      <4>2. QED
        BY <1>2, <2>1, <2>4, <4>1 DEF Later, e
    <3>2. lastNew'[a] = e.new
      BY <1>4, <2>4
    <3>3. Later(box[a], arrived[a], e.new, m)
      BY <1>3, <1>5, <2>2, <2>4, <3>1 DEF Later
    <3>4. ASSUME NEW j \in 1 .. n, Of(j)' = a
          PROVE  Later(Ev(j)'.new, Ev(j)'.arrived, e.new, m)
      <4>1. Later(Ev(j)'.new, Ev(j)'.arrived, e.new, e.arrived)
        BY <1>5, <2>4, <3>4
      <4>2. QED
        BY <1>3, <1>6, <2>2, <3>1, <4>1 DEF Later
    <3>5. QED
      BY <3>2, <3>3, <3>4 DEF a, m
  <2>5. QED
    BY <2>3, <2>4
<1>8. /\ \A k \in 1 .. Len(alerts) : alerts'[k] = alerts[k]
      /\ \/ Len(alerts') = Len(alerts)
         \/ /\ Len(alerts') = Len(alerts) + 1
            /\ \A k : k = Len(alerts) + 1 => /\ alerts'[k].account = e.account
                                             /\ alerts'[k].arrived = e.arrived
                                             /\ alerts'[k].start = starts
  BY Notifying DEF e
<1>9. ASSUME NEW k \in 1 .. Len(alerts')
      PROVE  LET a == alerts'[k].account
                 m == alerts'[k].arrived
             IN  /\ alerts'[k].start <= starts
                 /\ alerts'[k].start = starts =>
                      /\ Later(box[a], arrived[a], lastNew'[a], m)
                      /\ \A j \in 1 .. n :
                           Of(j)' = a => Later(Ev(j)'.new, Ev(j)'.arrived, lastNew'[a], m)
  <2>1. Len(alerts) \in Nat /\ starts \in Nat
    BY Numbers
  <2>2. CASE k \in 1 .. Len(alerts)
    <3>1. alerts[k].start <= starts
      BY <2>2 DEF Marks
    <3>2. QED
      BY <1>7, <1>8, <2>2, <3>1
  <2>3. CASE k \notin 1 .. Len(alerts)
    <3>1. /\ alerts'[k].account = e.account /\ alerts'[k].arrived = e.arrived
          /\ alerts'[k].start = starts
      <4>1. Len(alerts') = Len(alerts) + 1 /\ k = Len(alerts) + 1
        BY <1>8, <2>1, <2>3
      <4>2. QED
        BY <1>8, <2>1, <4>1
    <3>2. QED
      BY <1>4, <1>5, <2>1, <3>1
  <2>4. QED
    BY <2>2, <2>3
<1>10. QED
  BY <1>1, <1>2, <1>9 DEF Marks, Later

LEMMA OneAlertHandle ==
  ASSUME TypeOK, Marks, OneAlertPerMessage, Handle
  PROVE  OneAlertPerMessage'
<1> DEFINE e == Ev(1)
<1>1. /\ \A k \in 1 .. Len(alerts) : alerts'[k] = alerts[k]
      /\ \/ Len(alerts') = Len(alerts)
         \/ /\ Len(alerts') = Len(alerts) + 1 /\ e.new > lastNew[e.account]
            /\ \A k : k = Len(alerts) + 1 => /\ alerts'[k].account = e.account
                                             /\ alerts'[k].arrived = e.arrived
                                             /\ alerts'[k].start = starts
  BY Notifying
<1>2. 1 \in Way /\ Of(1) = e.account /\ Len(alerts) \in Nat
  <2>1. 1 \in Way
    BY Taking
  <2>2. QED
    BY <2>1, Numbers DEF Of
<1> HIDE DEF e
<1>3. ASSUME NEW i \in 1 .. Len(alerts), alerts[i].account = e.account,
             alerts[i].start = starts, e.new > lastNew[e.account]
      PROVE  alerts[i].arrived < e.arrived
  <2>1. Later(e.new, e.arrived, lastNew[e.account], alerts[i].arrived)
    BY <1>2, <1>3 DEF Marks, e
  <2>2. QED
    BY <1>3, <2>1 DEF Later
<1>4. ASSUME NEW i \in 1 .. Len(alerts'), NEW j \in 1 .. Len(alerts'), i < j,
             alerts'[i].account = alerts'[j].account, alerts'[i].start = alerts'[j].start
      PROVE  alerts'[i].arrived < alerts'[j].arrived
  <2>1. CASE j \in 1 .. Len(alerts)
    <3>1. i \in 1 .. Len(alerts)
      BY <1>2, <1>4, <2>1
    <3>2. QED
      BY <1>1, <1>4, <2>1, <3>1 DEF OneAlertPerMessage, SameAccount, SameStart
  <2>2. CASE j \notin 1 .. Len(alerts)
    <3>1. Len(alerts') = Len(alerts) + 1 /\ j = Len(alerts) + 1 /\ i \in 1 .. Len(alerts)
      BY <1>1, <1>2, <1>4, <2>2
    <3>2. /\ alerts'[j].account = e.account /\ alerts'[j].arrived = e.arrived
          /\ alerts'[j].start = starts /\ e.new > lastNew[e.account]
      BY <1>1, <1>2, <3>1
    <3>3. QED
      BY <1>1, <1>3, <1>4, <3>1, <3>2
  <2>3. QED
    BY <2>1, <2>2
<1>5. QED
  BY <1>4 DEF OneAlertPerMessage, SameAccount, SameStart

LEMMA UnbrokenHandle ==
  ASSUME TypeOK, Handle, NEW a \in Accounts, Unbroken(a)
  PROVE  Unbroken(a)'
<1> DEFINE e == Ev(1)
<1>1. PICK n \in Nat :
        /\ Count = n + 1 /\ Way = 1 .. n + 1 /\ Count' = n /\ Way' = 1 .. n
        /\ \A k \in 1 .. n : Ev(k)' = Ev(k + 1) /\ Of(k)' = Of(k + 1)
  BY Taking
<1>2. /\ Of(1) = e.account /\ box' = box
      /\ lastNew' = [lastNew EXCEPT ![e.account] = e.new]
  BY Handling
<1>3. lastNew'[a] = IF a = e.account THEN e.new ELSE lastNew[a]
  <2>1. lastNew \in [Accounts -> 0 .. MaxNew]
    BY DEF TypeOK
  <2>2. QED
    BY <1>2, <2>1
<1> HIDE DEF e
<1>4. CASE a # e.account
  <2> DEFINE f == [k \in 1 .. n |-> k + 1]
  <2>1. Keeps(f, n) /\ \A k \in 1 .. n : Ev(k)' = Ev(f[k])
    BY <1>1 DEF Keeps
  <2>2. ASSUME NEW k \in Way, Of(k) = a
        PROVE  \E j \in 1 .. n : f[j] = k
    <3>1. k # 1
      BY <1>2, <1>4, <2>2
    <3>2. k - 1 \in 1 .. n /\ (k - 1) + 1 = k
      BY <1>1, <3>1
    <3>3. f[k - 1] = k
      BY <3>2
    <3>4. QED
      BY <3>2, <3>3
  <2> HIDE DEF f
  <2>3. KeepsAll(f, n, a)
    BY <2>2 DEF KeepsAll
  <2>4. UNCHANGED <<box[a], lastNew[a]>>
    BY <1>2, <1>3, <1>4
  <2>5. QED
    BY <1>1, <2>1, <2>3, <2>4, UnbrokenKept
<1>5. CASE a = e.account
  <2>1. 1 \in Way /\ Of(1) = a /\ lastNew'[a] = Ev(1).new /\ box'[a] = box[a]
    BY <1>1, <1>2, <1>3, <1>5 DEF e
  \* Positions after the event's.
  <2>2. ASSUME NEW i \in 0 .. n, NEW j \in 0 .. n, Silent(a, i + 1, j)'
        PROVE  Silent(a, i + 2, j + 1)
    <3>1. ASSUME NEW k \in i + 2 .. j + 1
          PROVE  Of(k) # a
      <4>1. k - 1 \in i + 1 .. j /\ k - 1 \in 1 .. n /\ (k - 1) + 1 = k
        BY <3>1
      <4>2. Of(k - 1)' # a /\ Of(k - 1)' = Of((k - 1) + 1)
        BY <1>1, <2>2, <4>1 DEF Silent
      <4>3. QED
        BY <4>1, <4>2
    <3>2. QED
      BY <3>1 DEF Silent
  <2>3. ASSUME NEW j \in 1 .. n, Of(j)' = a, Ev(j)'.fresh
        PROVE  /\ Silent(a, 1, j - 1)' => lastNew'[a] < Ev(j)'.new
               /\ \A i \in 1 .. j - 1 :
                    Of(i)' = a /\ Silent(a, i + 1, j - 1)' => Ev(i)'.new < Ev(j)'.new
    <3>1. /\ j + 1 \in Way /\ Of(j + 1) = a /\ Ev(j + 1).fresh /\ Ev(j)' = Ev(j + 1)
          /\ j - 1 \in 0 .. n /\ (j - 1) + 1 = (j + 1) - 1
      BY <1>1, <2>3
    <3>2. ASSUME Silent(a, 1, j - 1)'
          PROVE  lastNew'[a] < Ev(j)'.new
      <4>1. Silent(a, 1 + 1, (j + 1) - 1)
        <5>1. 0 \in 0 .. n /\ 0 + 1 = 1 /\ 0 + 2 = 1 + 1
          BY <1>1
        <5>2. QED
          BY <2>2, <3>1, <3>2, <5>1
      <4>2. 1 \in 1 .. (j + 1) - 1
        BY <1>1
      <4>3. Ev(1).new < Ev(j + 1).new
        BY <2>1, <3>1, <4>1, <4>2 DEF Unbroken
      <4>4. QED
        BY <2>1, <3>1, <4>3
    <3>3. ASSUME NEW i \in 1 .. j - 1, Of(i)' = a, Silent(a, i + 1, j - 1)'
          PROVE  Ev(i)'.new < Ev(j)'.new
      <4>1. /\ i \in 1 .. n /\ i \in 0 .. n /\ i + 1 \in 1 .. (j + 1) - 1
            /\ i + 2 = (i + 1) + 1
        BY <1>1
      <4>2. Silent(a, (i + 1) + 1, (j + 1) - 1)
        BY <2>2, <3>1, <3>3, <4>1
      <4>3. Of(i + 1) = a /\ Ev(i)' = Ev(i + 1)
        BY <1>1, <3>3, <4>1
      <4>4. QED
        BY <3>1, <4>1, <4>2, <4>3 DEF Unbroken
    <3>4. QED
      BY <3>2, <3>3
  <2>4. ASSUME Silent(a, 1, n)'
        PROVE  lastNew'[a] = box'[a]
    <3>1. 0 \in 0 .. n /\ n \in 0 .. n /\ 0 + 1 = 1 /\ 0 + 2 = 1 + 1
      BY <1>1
    <3>2. Silent(a, 1 + 1, n + 1)
      BY <2>2, <2>4, <3>1
    <3>3. QED
      BY <1>1, <2>1, <3>2 DEF Unbroken
  <2>5. ASSUME NEW i \in 1 .. n, Of(i)' = a, Silent(a, i + 1, n)'
        PROVE  Ev(i)'.new = box'[a]
    <3>1. i \in 0 .. n /\ n \in 0 .. n /\ i + 2 = (i + 1) + 1 /\ i + 1 \in Way
      BY <1>1
    <3>2. Silent(a, (i + 1) + 1, n + 1) /\ Of(i + 1) = a /\ Ev(i)' = Ev(i + 1)
      BY <1>1, <2>2, <2>5, <3>1
    <3>3. QED
      BY <1>1, <2>1, <3>1, <3>2 DEF Unbroken
  <2>6. QED
    BY <1>1, <2>3, <2>4, <2>5 DEF Unbroken
<1>6. QED
  BY <1>4, <1>5

LEMMA ToldHandle ==
  ASSUME TypeOK, Handle, NEW a \in Accounts, Unbroken(a), Told(a)
  PROVE  Told(a)'
<1> DEFINE e == Ev(1)
<1>1. PICK n \in Nat :
        /\ Way = 1 .. n + 1 /\ Way' = 1 .. n
        /\ \A k \in 1 .. n : Ev(k)' = Ev(k + 1) /\ Of(k)' = Of(k + 1)
  BY Taking
<1>2. Of(1) = e.account /\ UNCHANGED <<arrived, base, starts>>
  BY Handling
<1>3. /\ \A k \in 1 .. Len(alerts) : alerts'[k] = alerts[k]
      /\ \/ Len(alerts') = Len(alerts) /\ ~(e.new > lastNew[e.account])
         \/ /\ Len(alerts') = Len(alerts) + 1
            /\ \A k : k = Len(alerts) + 1 => /\ alerts'[k].account = e.account
                                             /\ alerts'[k].arrived = e.arrived
                                             /\ alerts'[k].start = starts
  BY Notifying
<1>4. Len(alerts) \in Nat /\ 1 .. Len(alerts) \subseteq 1 .. Len(alerts')
  BY <1>3, Numbers
<1>5. ASSUME NEW m, Alerted(a, m)
      PROVE  Alerted(a, m)'
  BY <1>2, <1>3, <1>4, <1>5 DEF Alerted
<1>6. ASSUME NEW m, OnTheWay(a, m)
      PROVE  OnTheWay(a, m)' \/ Alerted(a, m)'
  <2>1. PICK j \in Way : Of(j) = a /\ Ev(j).fresh /\ Ev(j).arrived = m
    BY <1>6 DEF OnTheWay
  <2>2. CASE j = 1
    <3>1. Silent(a, 1, 1 - 1)
      BY DEF Silent
    <3>2. lastNew[a] < e.new
      BY <2>1, <2>2, <3>1 DEF Unbroken
    <3>3. a = e.account /\ lastNew[a] \in Nat /\ e.new \in Nat
      BY <1>2, <2>1, <2>2, WayTypes, Numbers
    <3>4. /\ Len(alerts') = Len(alerts) + 1
          /\ \A k : k = Len(alerts) + 1 => /\ alerts'[k].account = e.account
                                           /\ alerts'[k].arrived = e.arrived
                                           /\ alerts'[k].start = starts
      BY <1>3, <3>2, <3>3
    <3>5. Len(alerts) + 1 \in 1 .. Len(alerts')
      BY <1>4, <3>4
    <3>6. QED
      BY <1>2, <2>1, <2>2, <3>3, <3>4, <3>5 DEF Alerted
  <2>3. CASE j # 1
    <3>1. j - 1 \in Way' /\ Ev(j - 1)' = Ev(j) /\ Of(j - 1)' = Of(j)
      <4>1. j - 1 \in 1 .. n /\ (j - 1) + 1 = j
        BY <1>1, <2>3
      <4>2. QED
        BY <1>1, <4>1
    <3>2. QED
      BY <2>1, <3>1 DEF OnTheWay
  <2>4. QED
    BY <2>2, <2>3
<1>7. QED
  BY <1>2, <1>5, <1>6 DEF Told

--------------------------------------------------------------------------------
(***************************************************************************)
(* The steps together.                                                     *)
(***************************************************************************)

LEMMA SaysInv ==
  ASSUME Inv, NEW e, Says(e)
  PROVE  Inv'
<1> USE DEF Inv
<1>1. gap \subseteq gap' /\ UNCHANGED <<alerts, starts>>
  BY DEF Says, Emit
<1>2. OneAlertPerMessage'
  BY <1>1 DEF OneAlertPerMessage, SameAccount, SameStart
<1>3. \A a \in Accounts \ gap' : Unbroken(a)' /\ Told(a)'
  BY <1>1, UnbrokenSays, ToldSays
<1>4. QED
  BY <1>2, <1>3, SaysTypes, ChainSays, MarksSays

LEMMA LosingInv ==
  ASSUME Inv, Publish \/ LinkDown
  PROVE  Inv'
<1> USE DEF Inv
<1>1. UNCHANGED <<box, arrived, lastNew, alerts, starts, base>>
  BY DEF Publish, LinkDown
<1>2. PICK n, f : /\ Count' = n /\ Keeps(f, n)
                  /\ \A k \in 1 .. n : Ev(k)' = Ev(f[k])
                  /\ \A a \in Accounts \ gap' : KeepsAll(f, n, a)
                  /\ gap \subseteq gap'
  BY Losing
<1>3. Chain'
  BY <1>1, <1>2, ChainKept
<1>4. Marks'
  BY <1>1, <1>2, MarksKept
<1>5. OneAlertPerMessage'
  BY <1>1 DEF OneAlertPerMessage, SameAccount, SameStart
<1>6. ASSUME NEW a \in Accounts \ gap'
      PROVE  Unbroken(a)' /\ Told(a)'
  <2>1. Unbroken(a) /\ Told(a) /\ KeepsAll(f, n, a)
    BY <1>2
  <2>2. UNCHANGED <<box[a], lastNew[a]>> /\ UNCHANGED <<arrived[a], base[a], alerts, starts>>
    BY <1>1
  <2>3. Unbroken(a)'
    BY <1>2, <2>1, <2>2, UnbrokenKept
  <2>4. Told(a)'
    BY <1>2, <2>1, <2>2, ToldKept
  <2>5. QED
    BY <2>3, <2>4
<1>7. TypeOK'
  BY OtherTypes
<1>8. QED
  BY <1>3, <1>4, <1>5, <1>6, <1>7

\* Nothing is on the way, nothing was notified by this start, and the mailboxes
\* that hold nothing are remembered so.
LEMMA RestartInv ==
  ASSUME Inv, Restart
  PROVE  Inv'
<1> USE DEF Inv
<1>1. /\ wire' = <<>> /\ chan' = <<>> /\ starts' = starts + 1
      /\ lastNew' = [a \in Accounts |-> 0]
      /\ gap' = {a \in Accounts : box[a] > 0} /\ base' = arrived
      /\ UNCHANGED <<box, arrived, alerts>>
  BY DEF Restart
<1>2. Count' = 0 /\ Way' = {}
  <2>1. Len(chan') + Len(wire') = 0
    BY <1>1
  <2>2. QED
    BY <2>1 DEF Count, Way
<1>3. Chain'
  BY <1>2 DEF Chain
<1>4. Marks'
  <2>1. \A k \in 1 .. Len(alerts) : alerts[k].start <= starts /\ alerts[k].start \in Nat
    BY Numbers DEF Marks
  <2>2. starts \in Nat
    BY Numbers
  <2>3. \A k \in 1 .. Len(alerts') :
          alerts'[k].start <= starts' /\ alerts'[k].start # starts'
    BY <1>1, <2>1, <2>2
  <2>4. QED
    BY <2>3 DEF Marks
<1>5. OneAlertPerMessage'
  BY <1>1 DEF OneAlertPerMessage, SameAccount, SameStart
<1>6. ASSUME NEW a \in Accounts \ gap'
      PROVE  Unbroken(a)' /\ Told(a)'
  <2>1. box[a] = 0 /\ arrived[a] \in Nat
    BY <1>1, Numbers
  <2>2. lastNew'[a] = box'[a]
    BY <1>1, <2>1
  <2>3. Unbroken(a)'
    BY <1>2, <2>2 DEF Unbroken
  <2>4. \A m : m \notin base'[a] + 1 .. arrived'[a]
    BY <1>1, <2>1
  <2>5. Told(a)'
    BY <2>4 DEF Told
  <2>6. QED
    BY <2>3, <2>5
<1>7. TypeOK'
  BY OtherTypes
<1>8. QED
  BY <1>3, <1>4, <1>5, <1>6, <1>7

\* The invariant is about these variables.
LEMMA Unmoved ==
  ASSUME Inv, TypeOK',
         UNCHANGED <<box, arrived, wire, chan, lastNew, starts, alerts, gap, base>>
  PROVE  Inv'
<1> USE DEF Inv
<1>1. Count' = Count /\ Way' = Way
  BY DEF Count, Way
<1>2. \A k : Ev(k)' = Ev(k) /\ Of(k)' = Of(k)
  BY DEF Ev, Of
<1>3. Chain'
  BY <1>1, <1>2 DEF Chain, Later
<1>4. Marks'
  BY <1>1, <1>2 DEF Marks, Later
<1>5. OneAlertPerMessage'
  BY DEF OneAlertPerMessage, SameAccount, SameStart
<1>6. \A a, i, j : Silent(a, i, j)' <=> Silent(a, i, j)
  BY <1>2 DEF Silent
<1>7. ASSUME NEW a \in Accounts, Unbroken(a)
      PROVE  Unbroken(a)'
  BY <1>1, <1>2, <1>6, <1>7 DEF Unbroken
<1>8. ASSUME NEW a \in Accounts, Told(a)
      PROVE  Told(a)'
  BY <1>1, <1>2, <1>8 DEF Told, OnTheWay, Alerted
<1>9. QED
  BY <1>3, <1>4, <1>5, <1>7, <1>8

LEMMA StepInv == Inv /\ [Next]_vars => Inv'
<1> SUFFICES ASSUME Inv, [Next]_vars PROVE Inv'
  OBVIOUS
<1>1. ASSUME NEW a \in Accounts, Arrive(a) \/ Read(a) \/ Refresh(a)
      PROVE  Inv'
  <2>1. \E e : Says(e)
    BY <1>1, Saying DEF Inv
  <2>2. QED
    BY <2>1, SaysInv
<1>2. CASE Publish \/ LinkDown
  BY <1>2, LosingInv
<1>3. CASE Restart
  BY <1>3, RestartInv
<1>4. CASE Handle
  <2>1. UNCHANGED gap
    BY <1>4, Handling DEF Inv
  <2>2. \A a \in Accounts \ gap' : Unbroken(a)' /\ Told(a)'
    BY <1>4, <2>1, UnbrokenHandle, ToldHandle DEF Inv
  <2>3. QED
    BY <1>4, <2>2, HandleTypes, ChainHandle, MarksHandle, OneAlertHandle DEF Inv
<1>5. CASE LinkUp \/ \E k \in 1 .. Len(alerts), sink \in Sinks : SendEnds(k, sink)
  <2>1. UNCHANGED <<box, arrived, wire, chan, lastNew, starts, alerts, gap, base>>
    BY <1>5 DEF LinkUp, SendEnds
  <2>2. TypeOK'
    BY <1>5, OtherTypes DEF Inv
  <2>3. QED
    BY <2>1, <2>2, Unmoved
<1>6. CASE UNCHANGED vars
  <2>1. UNCHANGED <<box, arrived, wire, chan, lastNew, starts, alerts, gap, base>>
    BY <1>6 DEF vars
  <2>2. TypeOK'
    BY <1>6 DEF vars, TypeOK, Inv
  <2>3. QED
    BY <2>1, <2>2, Unmoved
<1>7. QED
  BY <1>1, <1>2, <1>3, <1>4, <1>5, <1>6 DEF Next

LEMMA Invariance == Spec => []Inv
BY InitInv, StepInv, PTL DEF Spec

\* What is told by position is what EveryMessageAlerted says.
LEMMA ToldIsAlerted == Inv => EveryMessageAlerted
<1> SUFFICES ASSUME Inv, NEW a \in Accounts \ gap, NEW m \in base[a] + 1 .. arrived[a]
             PROVE  InFlight(a, m) \/ Alerted(a, m)
  BY DEF EveryMessageAlerted, Alerted
<1>1. CASE Alerted(a, m)
  BY <1>1
<1>2. CASE OnTheWay(a, m)
  <2>1. PICK j \in Way : Of(j) = a /\ Ev(j).fresh /\ Ev(j).arrived = m
    BY <1>2 DEF OnTheWay
  <2>2. /\ chan \in Seq(Event) /\ wire \in Seq(Event)
        /\ Len(chan) \in Nat /\ Len(wire) \in Nat /\ Way = 1 .. Len(chan) + Len(wire)
    BY WayTypes DEF Inv, Count
  <2>3. /\ Len(wire \o chan) = Len(wire) + Len(chan)
        /\ \A i \in 1 .. Len(wire) : (wire \o chan)[i] = wire[i]
        /\ \A i \in 1 .. Len(chan) : (wire \o chan)[Len(wire) + i] = chan[i]
    BY <2>2
  <2>4. \E i \in 1 .. Len(wire \o chan) : (wire \o chan)[i] = Ev(j)
    <3>1. CASE j <= Len(chan)
      <4>1. j \in 1 .. Len(chan) /\ Len(wire) + j \in 1 .. Len(wire) + Len(chan)
        BY <2>2, <3>1
      <4>2. QED
        BY <2>3, <3>1, <4>1 DEF Ev
    <3>2. CASE ~(j <= Len(chan))
      <4>1. j - Len(chan) \in 1 .. Len(wire)
            /\ j - Len(chan) \in 1 .. Len(wire) + Len(chan)
        BY <2>2, <3>2
      <4>2. QED
        BY <2>3, <3>2, <4>1 DEF Ev
    <3>3. QED
      BY <3>1, <3>2
  <2>5. QED
    BY <2>1, <2>4 DEF InFlight, Pending, Of
<1>3. QED
  BY <1>1, <1>2 DEF Inv, Told

\* Type correctness of the notifier.
THEOREM Typing == Spec => []TypeOK
<1>1. Inv => TypeOK
  BY DEF Inv
<1>2. QED
  BY <1>1, Invariance, PTL

\* No two notifications of a life of the process come from the same message,
\* whatever is refreshed, read and lost between them (events/notifier.go).
THEOREM OneEach == Spec => []OneAlertPerMessage
<1>1. Inv => OneAlertPerMessage
  BY DEF Inv
<1>2. QED
  BY <1>1, Invariance, PTL

\* Of an account none of whose events was lost, every message left since the
\* start is notified or about to be (events/notifier.go).
THEOREM NoneMissed == Spec => []EveryMessageAlerted
BY Invariance, ToldIsAlerted, PTL

--------------------------------------------------------------------------------
(***************************************************************************)
(* The pushes.                                                             *)
(***************************************************************************)

LEMMA PushInit == WP!Init => PushInv
<1> SUFFICES ASSUME WP!Init PROVE PushInv
  OBVIOUS
<1>1. PushTypes
  BY DEF WP!Init, PushTypes
<1>2. Asked
  BY DEF WP!Init, Asked
<1>3. Sender
  BY DEF WP!Init, Sender, TellsTheSubscribed, WP!TellsTheSubscribed
<1>4. QED
  BY <1>1, <1>2, <1>3 DEF PushInv

\* A browser asks for something, or its push service forgets it.
LEMMA PushUpset ==
  ASSUME PushInv, NEW b \in Browsers, NEW x \in Extensions \cup {Nowhere},
         \/ WP!Asks(b, x) /\ row' = [row EXCEPT ![b] = x] /\ known' = known
         \/ /\ x = Nowhere /\ WP!Upset(b, Nowhere)
            /\ known' = known \ {b} /\ UNCHANGED <<row, wanted>>,
         UNCHANGED <<send, tried>>
  PROVE  PushInv'
<1> USE NowhereAssumption
<1>1. /\ row \in [Browsers -> Extensions \cup {Nowhere}]
      /\ wanted \in [Browsers -> Extensions \cup {Nowhere}]
      /\ known \subseteq Browsers /\ steady \subseteq Browsers /\ touched \subseteq Browsers
  BY DEF PushInv, PushTypes
<1>2. /\ steady' = steady \ {b}
      /\ touched \subseteq touched' /\ touched' \subseteq touched \cup {b}
      /\ x = send.for /\ x # Nowhere => b \in touched'
  BY DEF WP!Asks, WP!Upset
<1>3. /\ row' \in [Browsers -> Extensions \cup {Nowhere}]
      /\ wanted' \in [Browsers -> Extensions \cup {Nowhere}]
      /\ \A c \in Browsers : c # b => row'[c] = row[c] /\ wanted'[c] = wanted[c]
      /\ \/ row'[b] = x /\ wanted'[b] = x
         \/ row'[b] = row[b] /\ wanted'[b] = wanted[b] /\ b \notin known'
      /\ known' \subseteq known /\ known \ {b} \subseteq known'
  BY <1>1 DEF WP!Asks
<1>4. PushTypes'
  BY <1>1, <1>2, <1>3 DEF PushInv, PushTypes
<1>5. Asked'
  <2>1. ASSUME NEW c \in Browsers, c # b
        PROVE  /\ row'[c] \in {wanted'[c], Nowhere}
               /\ c \in known' => row'[c] = wanted'[c]
               /\ c \in steady' => c \in known' /\ wanted'[c] = send'.for
               /\ wanted'[c] = send'.for /\ send'.for # Nowhere => c \in touched'
    BY <1>2, <1>3, <2>1 DEF PushInv, Asked
  <2>2. /\ row'[b] \in {wanted'[b], Nowhere}
        /\ b \in known' => row'[b] = wanted'[b]
        /\ b \notin steady'
        /\ wanted'[b] = send'.for /\ send'.for # Nowhere => b \in touched'
    BY <1>2, <1>3 DEF PushInv, Asked
  <2>3. QED
    BY <2>1, <2>2 DEF Asked
<1>6. Sender'
  BY <1>2 DEF PushInv, Sender, TellsTheSubscribed, WP!TellsTheSubscribed
<1>7. QED
  BY <1>4, <1>5, <1>6 DEF PushInv

LEMMA PushBegin ==
  ASSUME PushInv, NEW x \in Extensions, WP!Begin(x)
  PROVE  PushInv'
<1>1. /\ send' = [at |-> "query", for |-> x, left |-> {}]
      /\ tried' = {} /\ touched' = {b \in Browsers : wanted[b] = x}
      /\ steady' = {b \in known : wanted[b] = x}
      /\ UNCHANGED <<row, wanted, known>>
  BY DEF WP!Begin
<1>2. send'.at = "query" /\ send'.for = x
  BY <1>1
<1>3. PushTypes'
  <2>1. send' \in [at: {"idle", "query", "loop", "done"},
                   for: Extensions \cup {Nowhere}, left: SUBSET Browsers]
    BY <1>1
  <2>2. QED
    BY <1>1, <2>1 DEF PushInv, PushTypes
<1>4. Asked'
  BY <1>1, <1>2 DEF PushInv, PushTypes, Asked
<1>5. Sender'
  BY <1>1, <1>2 DEF Sender, TellsTheSubscribed, WP!TellsTheSubscribed
<1>6. QED
  BY <1>3, <1>4, <1>5 DEF PushInv

\* The sender moves on, with the rows it has yet to see to.
LEMMA PushGoes ==
  ASSUME PushTypes, NEW next \in {"idle", "query", "loop", "done"},
         NEW left \in SUBSET Browsers, WP!Goes(next, left)
  PROVE  /\ send'.at = next /\ send'.for = send.for /\ send'.left = left
         /\ send' \in [at: {"idle", "query", "loop", "done"},
                       for: Extensions \cup {Nowhere}, left: SUBSET Browsers]
BY DEF PushTypes, WP!Goes

LEMMA PushQuery ==
  ASSUME PushInv, WP!PushSubsForExtension \/ WP!QueryFails \/ WP!SendDone
  PROVE  PushInv'
<1> DEFINE told == WP!Subscriptions(send.for)
<1>1. told \subseteq Browsers /\ {} \subseteq Browsers
  BY DEF WP!Subscriptions
<1>2. UNCHANGED <<row, wanted, known, tried, steady, touched>>
  BY DEF WP!PushSubsForExtension, WP!QueryFails, WP!SendDone
<1>3. \/ send.at = "query" /\ WP!Goes("loop", told)
      \/ send.at = "query" /\ WP!Goes("idle", {})
      \/ send.at = "loop" /\ send.left = {} /\ WP!Goes("done", {})
  BY DEF WP!PushSubsForExtension, WP!QueryFails, WP!SendDone
<1> HIDE DEF told
<1>4. /\ \/ send.at = "query" /\ send'.at = "loop" /\ send'.left = told
         \/ send'.at = "idle"
         \/ send.at = "loop" /\ send.left = {} /\ send'.at = "done"
      /\ send'.for = send.for
      /\ send' \in [at: {"idle", "query", "loop", "done"},
                    for: Extensions \cup {Nowhere}, left: SUBSET Browsers]
  <2>1. PushTypes
    BY DEF PushInv
  <2>2. QED
    BY <1>1, <1>3, <2>1, PushGoes
<1>5. PushTypes'
  BY <1>2, <1>4 DEF PushInv, PushTypes
<1>6. Asked'
  BY <1>2, <1>4 DEF PushInv, Asked
<1>7. ASSUME send.at = "query"
      PROVE  steady \subseteq told /\ told \subseteq touched
  <2>1. send.for # Nowhere
    BY <1>7, NowhereAssumption DEF PushInv, Sender
  <2>2. QED
    BY <2>1 DEF PushInv, PushTypes, Asked, told, WP!Subscriptions
<1>8. Sender'
  <2>1. CASE send.at = "query" /\ send'.at = "loop" /\ send'.left = told
    BY <1>2, <1>4, <1>7, <2>1 DEF PushInv, Sender, TellsTheSubscribed,
         WP!TellsTheSubscribed
  <2>2. CASE send'.at = "idle"
    BY <2>2 DEF Sender, TellsTheSubscribed, WP!TellsTheSubscribed
  <2>3. CASE send.at = "loop" /\ send.left = {} /\ send'.at = "done"
    BY <1>2, <1>4, <2>3 DEF PushInv, Sender, TellsTheSubscribed, WP!TellsTheSubscribed
  <2>4. QED
    BY <1>4, <2>1, <2>2, <2>3
<1>9. QED
  BY <1>5, <1>6, <1>8 DEF PushInv

LEMMA PushSend ==
  ASSUME PushInv, NEW b \in Browsers, WP!Send(b)
  PROVE  PushInv'
<1> DEFINE left == send.left \ {b}
<1>1. /\ send.at = "loop" /\ b \in send.left /\ tried' = tried \cup {b}
      /\ WP!Goes("loop", left)
      /\ \/ row' = row
         \/ b \notin known /\ row' = [row EXCEPT ![b] = Nowhere]
      /\ UNCHANGED <<wanted, known, steady, touched>>
  BY DEF WP!Send, WP!SendThen
<1>2. PushTypes /\ left \in SUBSET Browsers
  BY DEF PushInv, PushTypes
<1>3. /\ send'.at = "loop" /\ send'.for = send.for /\ send'.left = left
      /\ send' \in [at: {"idle", "query", "loop", "done"},
                    for: Extensions \cup {Nowhere}, left: SUBSET Browsers]
  <2> HIDE DEF left
  <2>1. QED
    BY <1>1, <1>2, PushGoes
<1>4. /\ row' \in [Browsers -> Extensions \cup {Nowhere}]
      /\ \A c \in Browsers : row'[c] = row[c] \/ (c \notin known /\ row'[c] = Nowhere)
  BY <1>1, <1>2 DEF PushTypes
<1>5. PushTypes'
  BY <1>1, <1>2, <1>3, <1>4 DEF PushTypes
<1>6. Asked'
  BY <1>1, <1>3, <1>4 DEF PushInv, Asked
<1>7. Sender'
  BY <1>1, <1>3 DEF PushInv, Sender, TellsTheSubscribed, WP!TellsTheSubscribed
<1>8. QED
  BY <1>5, <1>6, <1>7 DEF PushInv

LEMMA PushStep == PushInv /\ [WP!Next]_WP!vars => PushInv'
<1> SUFFICES ASSUME PushInv, [WP!Next]_WP!vars PROVE PushInv'
  OBVIOUS
<1>1. ASSUME NEW b \in Browsers, NEW x \in Extensions, WP!SavePushSub(b, x)
      PROVE  PushInv'
  BY <1>1, PushUpset DEF WP!SavePushSub
<1>2. ASSUME NEW b \in Browsers, WP!Unsubscribe(b)
      PROVE  PushInv'
  BY <1>2, PushUpset DEF WP!Unsubscribe
<1>3. ASSUME NEW b \in Browsers, WP!Forget(b)
      PROVE  PushInv'
  BY <1>3, PushUpset DEF WP!Forget
<1>4. CASE UNCHANGED WP!vars
  BY <1>4 DEF WP!vars, PushInv, PushTypes, Asked, Sender, TellsTheSubscribed,
       WP!TellsTheSubscribed
<1>5. QED
  BY <1>1, <1>2, <1>3, <1>4, PushBegin, PushQuery, PushSend DEF WP!Next

LEMMA PushInvariance == WP!Spec => []PushInv
BY PushInit, PushStep, PTL DEF WP!Spec

\* A notification that ran to its end was tried on every browser subscribed to
\* its extension all the time, and on none moved to another one before
\* (events/push.go, store/push.go).
THEOREM SubscribedTold == WP!Spec => []TellsTheSubscribed
<1>1. PushInv => TellsTheSubscribed
  BY DEF PushInv, Sender
<1>2. QED
  BY <1>1, PushInvariance, PTL

\* The notifier and the pushes side by side.
THEOREM Together ==
  AlertSpec => [](OneAlertPerMessage /\ EveryMessageAlerted /\ TellsTheSubscribed)
<1>1. AlertInit => Inv /\ PushInv
  BY InitInv, PushInit DEF AlertInit
<1>2. Inv /\ PushInv /\ [AlertNext]_<<part, vars, pushing>> => Inv' /\ PushInv'
  <2> SUFFICES ASSUME Inv, PushInv, [AlertNext]_<<part, vars, pushing>>
               PROVE  Inv' /\ PushInv'
    OBVIOUS
  <2>1. [Next]_vars /\ [WP!Next]_WP!vars
    BY DEF AlertNext, pushing, WP!vars
  <2>2. QED
    BY <2>1, StepInv, PushStep
<1>3. Inv /\ PushInv => OneAlertPerMessage /\ EveryMessageAlerted /\ TellsTheSubscribed
  BY ToldIsAlerted DEF Inv, PushInv, Sender
<1>4. QED
  BY <1>1, <1>2, <1>3, PTL DEF AlertSpec
================================================================================
