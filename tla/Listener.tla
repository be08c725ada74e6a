-------------------------------- MODULE Listener --------------------------------
(***************************************************************************)
(* The ESL event listener: internal/events/listener.go.                    *)
(*                                                                         *)
(* One goroutine keeps a TCP session with FreeSWITCH's event socket: dial, *)
(* read the greeting, authenticate, subscribe, then read frames and        *)
(* publish the events among them. When a session ends it sleeps and dials  *)
(* again; the delay doubles from 1 s until it passes 30 s. A second        *)
(* goroutine per session closes its connection on shutdown.                *)
(*                                                                         *)
(* FreeSWITCH answers each request in turn and, once it has acknowledged   *)
(* the subscription, sends every event it raises. Events are numbered in   *)
(* the order they are raised.                                              *)
(***************************************************************************)
EXTENDS Integers, Sequences

CONSTANTS
  MaxEvents,     \* bound: events raised
  MaxFaults      \* bound: connection cuts, FreeSWITCH crashes, refused logins

VARIABLES
  phase,         \* where Run is: before a read it is named by what it awaits
  backoff,       \* seconds
  cancelled,     \* ctx is done
  conn,          \* "none", "open", or "cut" by either side
  feed,          \* frames that can still be read from conn
  up,            \* FreeSWITCH is up
  asked,         \* the request FreeSWITCH has yet to answer
  subscribed,    \* FreeSWITCH sends its events on conn
  raised,        \* number of events raised
  faults,        \* number of faults so far
  published,     \* events handed to the hub, in order
  from           \* history: raised when FreeSWITCH took the subscription

vars == <<phase, backoff, cancelled, conn, feed, up, asked, subscribed, raised,
          faults, published, from>>

listenerVars == <<phase, backoff, published>>
peerVars     == <<up, raised, faults>>

Reading == {"greet", "auth", "subscribe", "stream"}

Event(n)       == [kind |-> "event", n |-> n]
ReplyFrame(ok) == [kind |-> "reply", ok |-> ok]
Notice         == [kind |-> "notice"]

Init ==
  /\ phase = "dial"
  /\ backoff = 1
  /\ cancelled = FALSE
  /\ conn = "none"
  /\ feed = <<>>
  /\ up \in BOOLEAN
  /\ asked = "nothing"
  /\ subscribed = FALSE
  /\ raised = 0
  /\ faults = 0
  /\ published = <<>>
  /\ from = 0

--------------------------------------------------------------------------------
(* FreeSWITCH and the network (external).                                  *)

\* FreeSWITCH greets a connection and answers each command; it may refuse a
\* login.
Reply(ok) ==
  /\ asked # "nothing"
  /\ feed' = Append(feed, ReplyFrame(ok))
  /\ asked' = "nothing"
  /\ UNCHANGED <<listenerVars, cancelled, conn, up, raised>>

Answer ==
  /\ Reply(TRUE)
  /\ subscribed' = (asked = "events")
  /\ from' = IF asked = "events" THEN raised ELSE from
  /\ faults' = faults

Refuse ==
  /\ asked = "auth"
  /\ faults < MaxFaults
  /\ Reply(FALSE)
  /\ faults' = faults + 1
  /\ UNCHANGED <<subscribed, from>>

Raise ==
  /\ up
  /\ raised < MaxEvents
  /\ raised' = raised + 1
  /\ feed' = IF subscribed THEN Append(feed, Event(raised + 1)) ELSE feed
  /\ UNCHANGED <<listenerVars, cancelled, conn, up, asked, subscribed, faults, from>>

\* A connection ends; the rest of its frames can still be read.
CutLeaving(rest) ==
  /\ conn' = IF conn = "open" THEN "cut" ELSE conn
  /\ feed' = rest
  /\ asked' = "nothing"
  /\ subscribed' = FALSE

Prefixes == {SubSeq(feed, 1, len) : len \in 0 .. Len(feed)}

Cut ==
  /\ conn = "open"
  /\ faults < MaxFaults
  /\ faults' = faults + 1
  /\ \E rest \in Prefixes : CutLeaving(rest)
  /\ UNCHANGED <<listenerVars, cancelled, up, raised, from>>

\* FreeSWITCH goes down, announcing it to its clients if it has the time.
Down ==
  /\ up
  /\ faults < MaxFaults
  /\ faults' = faults + 1
  /\ up' = FALSE
  /\ \/ \E rest \in Prefixes : CutLeaving(rest)
     \/ subscribed /\ CutLeaving(Append(feed, Notice))
  /\ UNCHANGED <<listenerVars, cancelled, raised, from>>

Up ==
  /\ ~up
  /\ up' = TRUE
  /\ UNCHANGED <<listenerVars, cancelled, conn, feed, asked, subscribed, raised,
                 faults, from>>

--------------------------------------------------------------------------------
(* Run and session.                                                        *)

\* session returns an error and its deferred Close runs; Run sleeps, or sees
\* that it is being stopped.
FailTo(next) ==
  /\ conn' = "none"
  /\ feed' = <<>>
  /\ asked' = "nothing"
  /\ subscribed' = FALSE
  /\ phase' = next
  /\ backoff' = IF cancelled THEN 1 ELSE backoff

\* Mutant: Run gives up once it has been backing off for long.
FailForGood == FailTo(IF cancelled \/ backoff > 8 THEN "ended" ELSE "sleep")

Fail == FailTo(IF cancelled THEN "ended" ELSE "sleep")

Dial ==
  /\ phase = "dial"
  /\ IF up
       THEN /\ conn' = "open"
            /\ asked' = "greeting"
            /\ phase' = "greet"
            /\ UNCHANGED <<backoff, feed, subscribed>>
       ELSE Fail
  /\ UNCHANGED <<cancelled, peerVars, published, from>>

\* The command that follows a reply. Writing to a connection that has been cut
\* goes nowhere; the next read fails.
SendThen(command, next, rest) ==
  /\ phase' = next
  /\ asked' = IF conn = "open" THEN command ELSE "nothing"
  /\ feed' = rest
  /\ UNCHANGED <<backoff, conn, subscribed>>

\* Mutant: each step reads through a buffer of its own, and what the last one
\* had buffered is lost.
SendNewReader(command, next) == SendThen(command, next, <<>>)

Send(command, next) == SendThen(command, next, Tail(feed))

\* The event loop: an event frame is published, any other is skipped.
StreamLeaving(rest) ==
  /\ feed' = rest
  /\ published' = IF Head(feed).kind = "event"
                    THEN Append(published, Head(feed).n) ELSE published
  /\ UNCHANGED <<phase, backoff, conn, asked, subscribed>>

\* Mutant: the last frame stays in the buffer.
StreamKeepLast == StreamLeaving(IF Len(feed) = 1 THEN feed ELSE Tail(feed))

Stream == StreamLeaving(Tail(feed))

\* The reader takes one frame: a reply moves the session on.
ReadFrame ==
  /\ phase \in Reading
  /\ feed # <<>>
  /\ \/ phase = "greet" /\ Send("auth", "auth") /\ published' = published
     \/ phase = "auth" /\ Head(feed).ok /\ Send("events", "subscribe") /\ published' = published
     \/ phase = "auth" /\ ~Head(feed).ok /\ Fail /\ published' = published
     \/ phase = "subscribe" /\ Send("nothing", "stream") /\ published' = published
     \/ phase = "stream" /\ Stream
  /\ UNCHANGED <<cancelled, peerVars, from>>

ReadError ==
  /\ phase \in Reading
  /\ conn = "cut"
  /\ feed = <<>>
  /\ Fail
  /\ UNCHANGED <<cancelled, peerVars, published, from>>

\* The delay has passed.
Wake ==
  /\ phase = "sleep"
  /\ phase' = IF cancelled THEN "ended" ELSE "dial"
  /\ backoff' = IF backoff < 30 THEN backoff * 2 ELSE backoff
  /\ UNCHANGED <<cancelled, conn, feed, asked, subscribed, peerVars, published, from>>

--------------------------------------------------------------------------------
(* Shutdown.                                                               *)

Cancel ==
  /\ ~cancelled
  /\ cancelled' = TRUE
  /\ UNCHANGED <<listenerVars, conn, feed, asked, subscribed, peerVars, from>>

\* ctx.Done() interrupts the sleep.
Interrupt ==
  /\ phase = "sleep"
  /\ cancelled
  /\ phase' = "ended"
  /\ UNCHANGED <<backoff, cancelled, conn, feed, asked, subscribed, peerVars,
                 published, from>>

\* The session's second goroutine closes the connection. The reader may still
\* find frames in its buffer.
CloseIn(phases) ==
  /\ cancelled
  /\ phase \in phases
  /\ conn = "open"
  /\ \E rest \in Prefixes : CutLeaving(rest)
  /\ UNCHANGED <<listenerVars, cancelled, peerVars, from>>

\* Mutant: the goroutine watches over the login only.
CloseDuringLogin == CloseIn(Reading \ {"stream"})

CloseOnCancel == CloseIn(Reading)

Next ==
  \/ Answer \/ Refuse \/ Raise \/ Cut \/ Down \/ Up
  \/ Dial \/ ReadFrame \/ ReadError \/ Wake
  \/ Cancel \/ Interrupt \/ CloseOnCancel

(* Goroutines run, timers fire, FreeSWITCH answers and comes back up.      *)
Fairness ==
  /\ WF_vars(Answer) /\ WF_vars(Up)
  /\ WF_vars(Dial) /\ WF_vars(ReadFrame) /\ WF_vars(ReadError) /\ WF_vars(Wake)
  /\ WF_vars(Interrupt) /\ WF_vars(CloseOnCancel)

Spec == Init /\ [][Next]_vars /\ Fairness

--------------------------------------------------------------------------------
(* Properties.                                                             *)

TypeOK ==
  /\ phase \in Reading \cup {"dial", "sleep", "ended"}
  /\ backoff \in {1, 2, 4, 8, 16, 32}
  /\ cancelled \in BOOLEAN
  /\ conn \in {"none", "open", "cut"}
  /\ \A i \in 1 .. Len(feed) : feed[i].kind \in {"reply", "event", "notice"}
  /\ up \in BOOLEAN
  /\ asked \in {"nothing", "greeting", "auth", "events"}
  /\ subscribed \in BOOLEAN
  /\ raised \in 0 .. MaxEvents
  /\ faults \in 0 .. MaxFaults
  /\ published \in Seq(1 .. MaxEvents)
  /\ from \in 0 .. MaxEvents

\* Across all reconnections the hub gets events in the order FreeSWITCH raised
\* them, each at most once: a new session never repeats what an old one gave.
PublishedInOrder ==
  \A i, j \in 1 .. Len(published) : i < j => published[i] < published[j]

\* While FreeSWITCH serves the subscription nothing is missed: every event it
\* raised since is published or still to be read. Events are lost only between
\* sessions.
NoGapInSession ==
  subscribed =>
    \A n \in from + 1 .. raised :
      \/ \E i \in 1 .. Len(published) : published[i] = n
      \/ \E i \in 1 .. Len(feed) : feed[i] = Event(n)

\* Once the faults are over, the listener streams again or is stopped.
Reconnects == []<>(phase = "stream" \/ cancelled)

\* A stopped listener returns, whatever it was waiting for.
Stops == cancelled ~> phase = "ended"
================================================================================
