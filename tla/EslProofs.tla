-------------------------------- MODULE EslProofs --------------------------------
(***************************************************************************)
(* Proofs about the two users of the event socket: the commands of         *)
(* Runtime, for any requests and any number of changes, and the Listener,  *)
(* for any number of events and faults.                                    *)
(*                                                                         *)
(* The argument for the listener: FreeSWITCH answers each request before   *)
(* anything else is sent on a session (Turns), so that the login takes     *)
(* nothing but replies from the feed; and the events in the feed are in    *)
(* the order they were raised, each later than all that were published     *)
(* (Ahead), so that an old session's frames, read or dropped, repeat       *)
(* nothing.                                                                *)
(***************************************************************************)
EXTENDS Esl, TLAPS, SequenceTheorems

--------------------------------------------------------------------------------
(* The commands.                                                           *)

Phases   == {"idle", "log", "answered"} \cup Waiting
Lines    == {"none", "greet", "auth", "run", "said"}
Words    == {"none", "+OK", "-ERR", "error"}
Statuses == {0, 200, 404, 502}

Exchange == [at: Phases, command: Commands \cup {"none"}, line: Lines, heard: Words,
             status: Statuses, asked: Nat]

TypeOK ==
  /\ req \in [Requests -> Exchange]
  /\ desired \in Nat /\ live \in Nat
  /\ talking \in BOOLEAN
  /\ jobs \subseteq Requests /\ carried \subseteq Requests
  /\ logged \subseteq Requests /\ unlogged \subseteq Requests

\* What FreeSWITCH is still to do on a connection is what its handler waits for.
InStep(e) ==
  /\ e.line \in {"greet", "auth", "run"} => e.at = e.line
  /\ e.at \in {"log", "answered"} => e.line = "none"
  /\ e.line = "said" => e.heard \in {"+OK", "-ERR"}

\* The reply +OK to a reload has been sent, or taken.
Reloaded(e) ==
  /\ e.command = "reload" /\ e.heard = "+OK"
  /\ \/ e.at = "run" /\ e.line = "said"
     \/ e.at \in {"log", "answered"}

\* Versions only grow, and FreeSWITCH has none that was never committed.
Versions ==
  /\ live <= desired
  /\ \A r \in Requests :
       /\ req[r].asked <= desired
       /\ InStep(req[r])
       /\ Reloaded(req[r]) => req[r].asked <= live

\* A request about a call is answered by way of the changelog.
ByTheLog ==
  \A r \in Requests :
    Answered(r) /\ OnChannel(req[r].command) => r \in logged \cup unlogged

Inv == TypeOK /\ Versions /\ ByTheLog

LEMMA InitInv == Init => Inv
<1> SUFFICES ASSUME Init PROVE Inv
  OBVIOUS
<1>1. TypeOK
  BY DEF Init, TypeOK, Exchange, Phases, Lines, Words, Statuses, Idle, Waiting
<1>2. Versions
  BY DEF Init, Versions, Idle, InStep, Reloaded
<1>3. ByTheLog
  BY DEF Init, ByTheLog, Idle, Answered
<1>4. QED
  BY <1>1, <1>2, <1>3 DEF Inv

LEMMA MovedAt ==
  ASSUME NEW x \in Exchange, NEW a \in Phases
  PROVE  /\ [x EXCEPT !.at = a] \in Exchange
         /\ \A l \in Lines : [x EXCEPT !.at = a, !.line = l] \in Exchange
BY DEF Exchange

LEMMA Spoken ==
  ASSUME NEW x \in Exchange, NEW l \in Lines, NEW w \in Words
  PROVE  [x EXCEPT !.line = l, !.heard = w] \in Exchange
BY DEF Exchange

LEMMA Moved ==
  ASSUME NEW x \in Exchange, NEW a \in Phases, NEW l \in Lines, NEW w \in Words,
         NEW c \in Statuses
  PROVE  [x EXCEPT !.at = a, !.line = l, !.heard = w, !.status = c] \in Exchange
BY DEF Exchange

\* A step that gives one request another state and leaves the versions, or lets
\* FreeSWITCH run the version that is committed.
LEMMA Keeps ==
  ASSUME Inv, NEW r \in Requests, NEW e \in Exchange, req' = [req EXCEPT ![r] = e],
         desired' = desired, live' \in {live, desired}, talking' \in BOOLEAN,
         jobs' \subseteq Requests, carried' \subseteq Requests,
         logged' \subseteq Requests, unlogged' \subseteq Requests,
         logged \subseteq logged', unlogged \subseteq unlogged',
         e.asked <= desired, InStep(e), Reloaded(e) => e.asked <= live',
         e.at = "answered" /\ OnChannel(e.command) => r \in logged' \cup unlogged'
  PROVE  Inv'
<1>1. TypeOK'
  BY DEF Inv, TypeOK
<1>2. \A s \in Requests : req'[s] = IF s = r THEN e ELSE req[s]
  BY DEF Inv, TypeOK
<1>3. live <= live' /\ live' <= desired'
  BY DEF Inv, TypeOK, Versions
<1>4. Versions'
  <2>1. ASSUME NEW s \in Requests
        PROVE  /\ req'[s].asked <= desired'
               /\ InStep(req'[s])
               /\ Reloaded(req'[s]) => req'[s].asked <= live'
    <3>1. CASE s = r
      BY <3>1, <1>2
    <3>2. CASE s # r
      <4>1. req'[s] = req[s] /\ req[s].asked \in Nat
        BY <3>2, <1>2 DEF Inv, TypeOK, Exchange
      <4>2. /\ req[s].asked <= desired
            /\ InStep(req[s])
            /\ Reloaded(req[s]) => req[s].asked <= live
        BY DEF Inv, Versions
      <4>3. live \in Nat /\ live' \in Nat
        BY DEF Inv, TypeOK
      <4>4. QED
        BY <4>1, <4>2, <4>3, <1>3
    <3>3. QED
      BY <3>1, <3>2
  <2>2. QED
    BY <1>3, <2>1 DEF Versions, InStep, Reloaded
<1>5. ByTheLog'
  BY <1>2 DEF Inv, ByTheLog, Answered, OnChannel
<1>6. QED
  BY <1>1, <1>4, <1>5 DEF Inv

\* Handing over: the handler goes on to its next phase, or FreeSWITCH speaks.
LEMMA ReturnKeeps ==
  ASSUME Inv, NEW r \in Requests, req[r].at \in Waiting, NEW out \in {"+OK", "-ERR", "error"},
         Return(r, out),
         out = "+OK" => req[r].at = "run" /\ req[r].line = "said" /\ req[r].heard = "+OK",
         UNCHANGED <<desired, live, talking, carried, changelog>>, jobs' \subseteq Requests
  PROVE  Inv'
<1> DEFINE next == IF Logs(req[r].command, out) THEN "log" ELSE "answered"
           e == [req[r] EXCEPT !.at = next, !.line = "none", !.heard = out,
                               !.status = Status(req[r].command, out)]
<1>1. req \in [Requests -> Exchange] /\ req[r] \in Exchange
  BY DEF Inv, TypeOK
<1>2. next \in {"log", "answered"} /\ Status(req[r].command, out) \in {200, 404, 502}
  BY DEF Status
<1>3. e \in Exchange
  <2>1. /\ next \in Phases /\ "none" \in Lines /\ out \in Words
        /\ Status(req[r].command, out) \in Statuses
    BY <1>2 DEF Phases, Lines, Words, Statuses
  <2> HIDE DEF next
  <2>2. QED
    BY <1>1, <2>1, Moved
<1>4. req' = [req EXCEPT ![r] = e]
  BY <1>1 DEF Return
<1>5. /\ e.at = next /\ e.line = "none" /\ e.heard = out
      /\ e.command = req[r].command /\ e.asked = req[r].asked
  BY <1>1 DEF Exchange
<1>6. e.asked <= desired /\ InStep(e)
  BY <1>2, <1>5 DEF InStep, Inv, Versions
<1>7. Reloaded(e) => e.asked <= live'
  BY <1>5 DEF Reloaded, Inv, Versions, changelog
<1>8. ~(e.at = "answered" /\ OnChannel(e.command))
  BY <1>5 DEF Logs
<1> HIDE DEF e, next
<1>9. QED
  BY <1>3, <1>4, <1>6, <1>7, <1>8, Keeps DEF Inv, TypeOK, changelog

LEMMA HandlerKeeps ==
  ASSUME Inv, NEW r \in Requests, Handler(r)
  PROVE  Inv'
<1>1. req \in [Requests -> Exchange] /\ req[r] \in Exchange /\ r \in Requests
  BY DEF Inv, TypeOK
<1>2. /\ req[r].asked <= desired /\ InStep(req[r])
      /\ Reloaded(req[r]) => req[r].asked <= live
  BY DEF Inv, Versions
<1>3. CASE Dial(r)
  <2> DEFINE e == [req[r] EXCEPT !.at = "greet", !.line = "greet"]
  <2>1. e \in Exchange /\ req' = [req EXCEPT ![r] = e]
    <3>1. e \in Exchange
      BY <1>1, MovedAt DEF Phases, Lines, Waiting
    <3>2. req' = [req EXCEPT ![r] = e]
      BY <1>1, <1>3 DEF Dial
    <3>3. QED
      BY <3>1, <3>2
  <2>2. e.at = "greet" /\ e.line = "greet" /\ e.asked = req[r].asked
    BY <1>1 DEF Exchange
  <2>3. e.asked <= desired /\ InStep(e) /\ ~Reloaded(e) /\ e.at # "answered"
    BY <1>2, <2>2 DEF InStep, Reloaded
  <2> HIDE DEF e
  <2>4. QED
    BY <1>3, <2>1, <2>3, Keeps DEF Dial, Inv, TypeOK, changelog, freeswitch
<1>4. CASE SendAuth(r)
  <2> DEFINE e == [req[r] EXCEPT !.at = "auth", !.line = "auth"]
  <2>1. e \in Exchange /\ req' = [req EXCEPT ![r] = e]
    <3>1. e \in Exchange
      BY <1>1, MovedAt DEF Phases, Lines, Waiting
    <3>2. req' = [req EXCEPT ![r] = e]
      BY <1>1, <1>4 DEF SendAuth
    <3>3. QED
      BY <3>1, <3>2
  <2>2. e.at = "auth" /\ e.line = "auth" /\ e.asked = req[r].asked
    BY <1>1 DEF Exchange
  <2>3. e.asked <= desired /\ InStep(e) /\ ~Reloaded(e) /\ e.at # "answered"
    BY <1>2, <2>2 DEF InStep, Reloaded
  <2> HIDE DEF e
  <2>4. QED
    BY <1>4, <2>1, <2>3, Keeps DEF SendAuth, Inv, TypeOK, changelog, freeswitch
<1>5. CASE SendCommand(r) /\ req[r].heard = "+OK"
  <2> DEFINE e == [req[r] EXCEPT !.at = "run", !.line = "run"]
  <2>1. e \in Exchange /\ req' = [req EXCEPT ![r] = e]
    <3>1. e \in Exchange
      BY <1>1, MovedAt DEF Phases, Lines, Waiting
    <3>2. req' = [req EXCEPT ![r] = e]
      BY <1>1, <1>5 DEF SendCommand
    <3>3. QED
      BY <3>1, <3>2
  <2>2. e.at = "run" /\ e.line = "run" /\ e.asked = req[r].asked
    BY <1>1 DEF Exchange
  <2>3. e.asked <= desired /\ InStep(e) /\ ~Reloaded(e) /\ e.at # "answered"
    BY <1>2, <2>2 DEF InStep, Reloaded
  <2> HIDE DEF e
  <2>4. QED
    BY <1>5, <2>1, <2>3, Keeps DEF SendCommand, Inv, TypeOK, changelog, freeswitch
<1>6. CASE SendCommand(r) /\ req[r].heard # "+OK"
  <2>1. Return(r, "error") /\ req[r].at \in Waiting
    BY <1>6 DEF SendCommand, Waiting
  <2>2. UNCHANGED <<desired, live, talking, carried, changelog>> /\ jobs' \subseteq Requests
    BY <1>6 DEF SendCommand, freeswitch, Inv, TypeOK
  <2>3. QED
    BY <2>1, <2>2, ReturnKeeps
<1>7. CASE ReadReply(r)
  <2>1. /\ req[r].at = "run" /\ req[r].line = "said" /\ req[r].at \in Waiting
        /\ Return(r, req[r].heard)
        /\ UNCHANGED <<desired, live, talking, carried, changelog>> /\ jobs' \subseteq Requests
    BY <1>7 DEF ReadReply, Waiting, freeswitch, Inv, TypeOK
  <2>2. req[r].heard \in {"+OK", "-ERR", "error"}
    BY <1>2, <2>1 DEF InStep
  <2>3. QED
    BY <2>1, <2>2, ReturnKeeps
<1>8. CASE Fail(r)
  <2>1. Return(r, "error") /\ req[r].at \in Waiting
    BY <1>8 DEF Fail, FailIn
  <2>2. UNCHANGED <<desired, live, talking, carried, changelog>> /\ jobs' \subseteq Requests
    BY <1>8 DEF Fail, FailIn, Inv, TypeOK
  <2>3. QED
    BY <2>1, <2>2, ReturnKeeps
<1>9. CASE Log(r)
  <2> DEFINE e == [req[r] EXCEPT !.at = "answered"]
  <2>1. e \in Exchange /\ req' = [req EXCEPT ![r] = e]
    <3>1. e \in Exchange
      BY <1>1, MovedAt DEF Phases, Lines, Waiting
    <3>2. req' = [req EXCEPT ![r] = e]
      BY <1>1, <1>9 DEF Log
    <3>3. QED
      BY <3>1, <3>2
  <2>2. /\ e.at = "answered" /\ e.asked = req[r].asked /\ e.line = req[r].line
        /\ e.heard = req[r].heard /\ e.command = req[r].command /\ req[r].at = "log"
    BY <1>1, <1>9 DEF Exchange, Log
  <2>3. e.asked <= desired /\ InStep(e) /\ (Reloaded(e) => e.asked <= live')
    BY <1>2, <1>9, <2>2 DEF InStep, Reloaded, Log, freeswitch
  <2>4. /\ r \in logged' \cup unlogged'
        /\ logged \subseteq logged' /\ unlogged \subseteq unlogged'
        /\ logged' \subseteq Requests /\ unlogged' \subseteq Requests
    BY <1>9 DEF Log, Inv, TypeOK
  <2> HIDE DEF e
  <2>5. QED
    BY <1>9, <2>1, <2>3, <2>4, Keeps DEF Log, Inv, TypeOK, freeswitch
<1>10. QED
  BY <1>3, <1>4, <1>5, <1>6, <1>7, <1>8, <1>9 DEF Handler

\* FreeSWITCH speaks. Of a reload, +OK says that the committed version is live.
LEMMA SayKeeps ==
  ASSUME Inv, NEW r \in Requests, NEW result \in {"+OK", "-ERR"}, Say(r, result),
         req[r].line \in {"greet", "auth", "run"},
         desired' = desired, live' \in {live, desired}, talking' \in BOOLEAN,
         jobs' \subseteq Requests, carried' \subseteq Requests, UNCHANGED changelog,
         req[r].at = "run" /\ req[r].command = "reload" /\ result = "+OK" => live' = desired
  PROVE  Inv'
<1> DEFINE e == [req[r] EXCEPT !.line = "said", !.heard = result]
<1>1. req \in [Requests -> Exchange] /\ req[r] \in Exchange
  BY DEF Inv, TypeOK
<1>2. e \in Exchange
  BY <1>1, Spoken DEF Lines, Words
<1>3. req' = [req EXCEPT ![r] = e]
  BY <1>1 DEF Say
<1>4. /\ e.at = req[r].at /\ e.line = "said" /\ e.heard = result
      /\ e.command = req[r].command /\ e.asked = req[r].asked
  BY <1>1 DEF Exchange
<1>5. req[r].asked <= desired /\ req[r].at = req[r].line
  BY DEF Inv, Versions, InStep
<1>6. e.asked <= desired /\ InStep(e) /\ e.at \notin {"log", "answered"}
  BY <1>4, <1>5 DEF InStep
<1>7. Reloaded(e) => e.asked <= live'
  BY <1>4, <1>5, <1>6 DEF Reloaded
<1> HIDE DEF e
<1>8. QED
  BY <1>2, <1>3, <1>6, <1>7, Keeps DEF Inv, TypeOK, changelog

\* What a command does to FreeSWITCH.
LEMMA EffectOf ==
  ASSUME TypeOK, NEW c, NEW result, Effect(c, result)
  PROVE  /\ live' \in {live, desired} /\ talking' \in BOOLEAN
         /\ c = "reload" /\ result = "+OK" => live' = desired
BY DEF Effect, TypeOK

LEMMA NextInv == Inv /\ [Next]_vars => Inv'
<1> SUFFICES ASSUME Inv, [Next]_vars PROVE Inv'
  OBVIOUS
<1>t. TypeOK
  BY DEF Inv
<1>1. CASE Change
  <2>1. TypeOK'
    BY <1>1 DEF Change, Inv, TypeOK, freeswitch, changelog
  <2>2. desired <= desired' /\ live' = live /\ req' = req
    BY <1>1 DEF Change, Inv, TypeOK, freeswitch
  <2>3. Versions'
    <3>1. ASSUME NEW r \in Requests PROVE req[r].asked <= desired'
      <4>1. req[r].asked \in Nat /\ req[r].asked <= desired
        BY DEF Inv, TypeOK, Exchange, Versions
      <4>2. QED
        BY <1>t, <2>1, <2>2, <4>1 DEF TypeOK
    <3>2. live' <= desired'
      BY <1>t, <2>1, <2>2 DEF TypeOK, Inv, Versions
    <3>3. QED
      BY <2>2, <3>1, <3>2 DEF Inv, Versions, InStep, Reloaded
  <2>4. ByTheLog'
    BY <1>1 DEF Change, Inv, ByTheLog, Answered, changelog
  <2>5. QED
    BY <2>1, <2>3, <2>4 DEF Inv
<1>2. CASE CallEnds
  BY <1>2
     DEF CallEnds, Inv, TypeOK, Versions, InStep, Reloaded, ByTheLog, Answered,
         changelog
<1>3. ASSUME NEW r \in Requests, NEW c \in Commands, Ask(r, c) PROVE Inv'
  <2> DEFINE e == [req[r] EXCEPT !.at = "dial", !.command = c, !.asked = desired]
  <2>1. req \in [Requests -> Exchange] /\ req[r] \in Exchange /\ desired \in Nat
    BY <1>t DEF TypeOK
  <2>2. \A a \in Phases, d \in Commands \cup {"none"}, n \in Nat :
          [req[r] EXCEPT !.at = a, !.command = d, !.asked = n] \in Exchange
    BY <2>1 DEF Exchange
  <2>3. e \in Exchange
    BY <2>1, <2>2 DEF Phases, Waiting
  <2>4. req' = [req EXCEPT ![r] = e]
    BY <1>3, <2>1 DEF Ask
  <2>5. e.at = "dial" /\ e.line = req[r].line /\ e.heard = req[r].heard /\ e.asked = desired
    BY <2>1 DEF Exchange
  <2>6. InStep(e) /\ ~Reloaded(e)
    BY <1>3, <2>5 DEF Ask, Inv, Versions, InStep, Reloaded
  <2>7. e.asked <= desired
    BY <2>1, <2>5
  <2> HIDE DEF e
  <2>8. QED
    BY <1>3, <1>t, <2>3, <2>4, <2>5, <2>6, <2>7, Keeps
       DEF Ask, TypeOK, freeswitch, changelog
<1>4. ASSUME NEW r \in Requests, Greet(r) PROVE Inv'
  <2>1. req[r].at = "greet"
    BY <1>4 DEF Greet, Inv, Versions, InStep
  <2>2. QED
    BY <1>4, <1>t, <2>1, SayKeeps DEF Greet, TypeOK, freeswitch
<1>5. ASSUME NEW r \in Requests, Login(r) PROVE Inv'
  <2>1. req[r].at = "auth"
    BY <1>5 DEF Login, Inv, Versions, InStep
  <2>2. QED
    BY <1>5, <1>t, <2>1, SayKeeps DEF Login, TypeOK, freeswitch
<1>6. ASSUME NEW r \in Requests, Execute(r), Background(req[r].command) PROVE Inv'
  BY <1>6, <1>t, SayKeeps DEF Execute, Background, TypeOK
<1>7. ASSUME NEW r \in Requests, Execute(r), ~Background(req[r].command) PROVE Inv'
  <2>1. PICK result \in {"+OK", "-ERR"} : Effect(req[r].command, result) /\ Say(r, result)
    BY <1>7 DEF Execute
  <2>2. QED
    BY <1>7, <1>t, <2>1, EffectOf, SayKeeps DEF Execute, TypeOK
<1>8. ASSUME NEW r \in Requests, RunJob(r) PROVE Inv'
  <2>1. live' \in {live, desired} /\ talking' \in BOOLEAN
    BY <1>8, <1>t, EffectOf DEF RunJob
  <2>2. TypeOK'
    BY <1>8, <1>t, <2>1 DEF RunJob, TypeOK, changelog
  <2>3. live <= live' /\ live' <= desired' /\ req' = req /\ desired' = desired
    BY <1>8, <1>t, <2>1 DEF RunJob, TypeOK, Inv, Versions
  <2>4. Versions'
    <3>1. ASSUME NEW s \in Requests, Reloaded(req[s]) PROVE req[s].asked <= live'
      <4>1. req[s].asked \in Nat /\ req[s].asked <= live
        BY <1>t, <3>1 DEF Inv, TypeOK, Exchange, Versions
      <4>2. QED
        BY <1>t, <2>2, <2>3, <4>1 DEF TypeOK
    <3>2. QED
      BY <2>3, <3>1 DEF Inv, Versions, InStep, Reloaded
  <2>5. ByTheLog'
    BY <1>8 DEF RunJob, Inv, ByTheLog, Answered, changelog
  <2>6. QED
    BY <2>2, <2>4, <2>5 DEF Inv
<1>9. ASSUME NEW r \in Requests, Handler(r) PROVE Inv'
  BY <1>9, HandlerKeeps
<1>10. CASE UNCHANGED vars
  BY <1>10 DEF vars, Inv, TypeOK, Versions, InStep, Reloaded, ByTheLog, Answered
<1>11. QED
  BY <1>1, <1>2, <1>3, <1>4, <1>5, <1>6, <1>7, <1>8, <1>9, <1>10 DEF Next

\* Requests, FreeSWITCH and the changelog keep their types.
THEOREM Typing == Spec => []TypeOK
<1>1. Inv => TypeOK
  BY DEF Inv
<1>2. QED
  BY <1>1, InitInv, NextInv, PTL DEF Spec

LEMMA InvFresh == Inv => ReloadFresh
<1> SUFFICES ASSUME Inv, NEW r \in Requests, Answered(r), req[r].command = "reload",
                    req[r].heard = "+OK"
             PROVE  live >= req[r].asked
  BY DEF ReloadFresh
<1>1. req[r].asked <= live
  BY DEF Inv, Versions, Reloaded, Answered
<1>2. req[r].asked \in Nat /\ live \in Nat
  BY DEF Inv, TypeOK, Exchange
<1>3. QED
  BY <1>1, <1>2

LEMMA InvLogged == Inv => SupervisionLogged
BY DEF Inv, TypeOK, ByTheLog, SupervisionLogged

\* A reload that is answered +OK has put into effect every change committed
\* before it was asked for, whatever else ran meanwhile (runtime.go:83-97).
THEOREM ReloadsAreFresh == Spec => []ReloadFresh
BY InvFresh, InitInv, NextInv, PTL DEF Spec

\* What was done to a call is in the changelog when its request is answered,
\* unless the row could not be written, also when the command was carried out
\* after its handler had given up (channels.go:66, 81, 114, 140).
THEOREM SupervisionIsLogged == Spec => []SupervisionLogged
BY InvLogged, InitInv, NextInv, PTL DEF Spec

--------------------------------------------------------------------------------
(* The listener.                                                           *)

Frames == [kind: {"event"}, n: 1 .. MaxEvents] \cup [kind: {"reply"}, ok: BOOLEAN]
            \cup [kind: {"notice"}]

IsEvent(f) == f.kind = "event"

FeedTyped ==
  /\ feed \in Seq(Frames)
  /\ published \in Seq(1 .. MaxEvents)
  /\ raised \in 0 .. MaxEvents

\* The feed is in the order FreeSWITCH raised, and ahead of what was published.
Ahead ==
  /\ \A i \in 1 .. Len(feed) : IsEvent(feed[i]) => feed[i].n <= raised
  /\ \A i, j \in 1 .. Len(feed) :
       i < j /\ IsEvent(feed[i]) /\ IsEvent(feed[j]) => feed[i].n < feed[j].n
  /\ \A i \in 1 .. Len(published) : published[i] <= raised
  /\ \A i \in 1 .. Len(published), j \in 1 .. Len(feed) :
       IsEvent(feed[j]) => published[i] < feed[j].n

\* Which phase awaits the answer to a request.
AwaitedIn(request) ==
  CASE request = "greeting" -> "greet"
    [] request = "auth"     -> "auth"
    [] request = "events"   -> "subscribe"

\* There is no session outside Reading; a request is the only thing under way on
\* its connection; and while logging in the next frame is the reply.
Turns ==
  /\ phase \notin LS!Reading =>
       conn = "none" /\ feed = <<>> /\ asked = "nothing" /\ ~subscribed
  /\ asked # "nothing" =>
       conn = "open" /\ feed = <<>> /\ ~subscribed /\ phase = AwaitedIn(asked)
  /\ phase \in {"greet", "auth"} => ~subscribed /\ Len(feed) <= 1
  /\ subscribed /\ phase # "stream" => feed # <<>> /\ ~IsEvent(feed[1])

ListenerInv ==
  /\ LS!TypeOK /\ FeedTyped
  /\ Ahead /\ PublishedInOrder
  /\ Turns /\ NoGapInSession

LEMMA ListenerStarts == LS!Init \/ Stopped => ListenerInv
<1> SUFFICES ASSUME LS!Init \/ Stopped PROVE ListenerInv
  OBVIOUS
<1>1. /\ feed = <<>> /\ published = <<>> /\ raised = 0 /\ from = 0 /\ faults = 0
      /\ phase \in {"dial", "ended"} /\ conn = "none" /\ asked = "nothing"
      /\ subscribed = FALSE /\ backoff = 1 /\ cancelled \in BOOLEAN /\ up \in BOOLEAN
  BY DEF LS!Init, Stopped
<1>2. LS!TypeOK /\ FeedTyped
  <2>1. raised \in 0 .. MaxEvents /\ from \in 0 .. MaxEvents /\ faults \in 0 .. MaxFaults
    BY <1>1, BoundsAssumption
  <2>2. published \in Seq(1 .. MaxEvents) /\ feed \in Seq(Frames) /\ 1 .. Len(feed) = {}
    BY <1>1
  <2>3. QED
    BY <1>1, <2>1, <2>2 DEF LS!TypeOK, FeedTyped
<1>3. Ahead /\ PublishedInOrder /\ NoGapInSession
  BY <1>1
     DEF Ahead, PublishedInOrder, NoGapInSession, LS!PublishedInOrder,
         LS!NoGapInSession
<1>4. Turns
  BY <1>1 DEF Turns, LS!Reading
<1>5. QED
  BY <1>2, <1>3, <1>4 DEF ListenerInv

\* What is left of the feed when frames are taken from its front (d of them) or
\* its end.
LEMMA Fewer ==
  ASSUME FeedTyped, Ahead, PublishedInOrder, NEW d \in Nat,
         feed' \in Seq(Frames), Len(feed') + d <= Len(feed),
         \A i \in 1 .. Len(feed') : feed'[i] = feed[i + d],
         raised' = raised, published' = published
  PROVE  FeedTyped' /\ Ahead' /\ PublishedInOrder'
<1>1. Len(feed) \in Nat /\ Len(feed') \in Nat
  BY DEF FeedTyped
<1>2. \A i \in 1 .. Len(feed') : i + d \in 1 .. Len(feed)
  BY <1>1
<1>3. FeedTyped' /\ PublishedInOrder'
  BY DEF FeedTyped, PublishedInOrder, LS!PublishedInOrder
<1>4. \A i \in 1 .. Len(feed') : IsEvent(feed'[i]) => feed'[i].n <= raised'
  BY <1>2 DEF Ahead
<1>5. \A i, j \in 1 .. Len(feed') :
        i < j /\ IsEvent(feed'[i]) /\ IsEvent(feed'[j]) => feed'[i].n < feed'[j].n
  <2> SUFFICES ASSUME NEW i \in 1 .. Len(feed'), NEW j \in 1 .. Len(feed'), i < j,
                      IsEvent(feed'[i]), IsEvent(feed'[j])
               PROVE  feed'[i].n < feed'[j].n
    OBVIOUS
  <2>1. i + d \in 1 .. Len(feed) /\ j + d \in 1 .. Len(feed) /\ i + d < j + d
    BY <1>1, <1>2
  <2>2. feed'[i] = feed[i + d] /\ feed'[j] = feed[j + d]
    OBVIOUS
  <2>3. QED
    BY <2>1, <2>2 DEF Ahead
<1>6. \A i \in 1 .. Len(published'), j \in 1 .. Len(feed') :
        IsEvent(feed'[j]) => published'[i] < feed'[j].n
  BY <1>2 DEF Ahead
<1>7. QED
  BY <1>3, <1>4, <1>5, <1>6 DEF Ahead

LEMMA PrefixOf ==
  ASSUME FeedTyped, NEW rest \in LS!Prefixes
  PROVE  /\ rest \in Seq(Frames) /\ Len(rest) <= Len(feed)
         /\ \A i \in 1 .. Len(rest) : rest[i] = feed[i]
<1>1. PICK len \in 0 .. Len(feed) : rest = SubSeq(feed, 1, len)
  BY DEF LS!Prefixes
<1>2. feed \in Seq(Frames) /\ Len(feed) \in Nat /\ len \in Int /\ 1 \in Int
  BY <1>1 DEF FeedTyped
<1>3. \A i \in 1 .. len : feed[i] \in Frames
  BY <1>1, <1>2
<1>4. /\ SubSeq(feed, 1, len) \in Seq(Frames)
      /\ Len(SubSeq(feed, 1, len)) = IF 1 <= len THEN len - 1 + 1 ELSE 0
      /\ \A i \in 1 .. len - 1 + 1 : SubSeq(feed, 1, len)[i] = feed[1 + i - 1]
  BY <1>2, <1>3, SubSeqProperties
<1>5. Len(rest) = len
  BY <1>1, <1>2, <1>4
<1>6. QED
  BY <1>1, <1>2, <1>4, <1>5

\* The first frame is taken.
LEMMA RestOf ==
  ASSUME FeedTyped, feed # <<>>
  PROVE  /\ Tail(feed) \in Seq(Frames) /\ Len(Tail(feed)) + 1 = Len(feed)
         /\ \A i \in 1 .. Len(Tail(feed)) : Tail(feed)[i] = feed[i + 1]
         /\ Head(feed) = feed[1] /\ feed[1] \in Frames
<1>1. feed \in Seq(Frames)
  BY DEF FeedTyped
<1>2. /\ Tail(feed) \in Seq(Frames) /\ Len(Tail(feed)) = Len(feed) - 1
      /\ \A i \in 1 .. Len(Tail(feed)) : Tail(feed)[i] = feed[i + 1]
  BY <1>1, HeadTailProperties
<1>3. Head(feed) = feed[1] /\ Len(feed) \in Nat /\ Len(feed) >= 1
  BY <1>1
<1>4. QED
  BY <1>1, <1>2, <1>3

\* A session that loses its connection keeps part of its feed.
LEMMA CutKeeps ==
  ASSUME ListenerInv, NEW rest \in LS!Prefixes, LS!CutLeaving(rest),
         UNCHANGED <<phase, published, raised, from>>
  PROVE  /\ FeedTyped' /\ Ahead' /\ PublishedInOrder' /\ Turns' /\ NoGapInSession'
         /\ conn' \in {"none", "open", "cut"} /\ asked' = "nothing" /\ subscribed' = FALSE
<1>1. /\ feed' = rest /\ asked' = "nothing" /\ subscribed' = FALSE
      /\ conn' = IF conn = "open" THEN "cut" ELSE conn
  BY DEF LS!CutLeaving
<1>2. /\ rest \in Seq(Frames) /\ Len(rest) + 0 <= Len(feed)
      /\ \A i \in 1 .. Len(rest) : rest[i] = feed[i + 0]
  <2>1. FeedTyped /\ Len(feed) \in Nat
    BY DEF ListenerInv, FeedTyped
  <2>2. /\ rest \in Seq(Frames) /\ Len(rest) <= Len(feed)
        /\ \A i \in 1 .. Len(rest) : rest[i] = feed[i]
    BY <2>1, PrefixOf
  <2>3. Len(rest) \in Nat
    BY <2>2
  <2>4. QED
    BY <2>1, <2>2, <2>3
<1>3. FeedTyped' /\ Ahead' /\ PublishedInOrder'
  BY <1>1, <1>2, Fewer DEF ListenerInv
<1>4. feed = <<>> => feed' = <<>>
  BY <1>1, <1>2
<1>5. phase \in {"greet", "auth"} => Len(feed') <= 1
  <2>1. phase \in {"greet", "auth"} => Len(feed) <= 1
    BY DEF ListenerInv, Turns
  <2>2. Len(feed) \in Nat /\ Len(feed') \in Nat
    BY <1>1, <1>2 DEF ListenerInv, FeedTyped
  <2>3. QED
    BY <1>1, <1>2, <2>1, <2>2
<1>6. Turns'
  BY <1>1, <1>4, <1>5 DEF ListenerInv, Turns
<1>7. NoGapInSession'
  BY <1>1 DEF NoGapInSession, LS!NoGapInSession
<1>8. QED
  BY <1>1, <1>3, <1>6, <1>7 DEF ListenerInv, LS!TypeOK

\* A session that fails.
LEMMA FailKeeps ==
  ASSUME ListenerInv, LS!Fail, UNCHANGED <<published, raised, from>>
  PROVE  /\ FeedTyped' /\ Ahead' /\ PublishedInOrder' /\ Turns' /\ NoGapInSession'
         /\ phase' \in {"sleep", "ended"} /\ conn' = "none" /\ asked' = "nothing"
         /\ subscribed' = FALSE /\ backoff' \in {1, backoff}
<1>1. /\ feed' = <<>> /\ asked' = "nothing" /\ subscribed' = FALSE /\ conn' = "none"
      /\ phase' \in {"sleep", "ended"} /\ backoff' \in {1, backoff}
  BY DEF LS!Fail, LS!FailTo
<1>2. FeedTyped' /\ Ahead' /\ PublishedInOrder'
  BY <1>1 DEF ListenerInv, FeedTyped, Ahead, PublishedInOrder, LS!PublishedInOrder
<1>3. Turns'
  BY <1>1 DEF Turns, LS!Reading
<1>4. NoGapInSession'
  BY <1>1 DEF NoGapInSession, LS!NoGapInSession
<1>5. QED
  BY <1>1, <1>2, <1>3, <1>4

LEMMA Answers ==
  ASSUME ListenerInv, NEW ok \in BOOLEAN, LS!Reply(ok), subscribed' \in BOOLEAN,
         subscribed' => asked = "events" /\ from' = raised,
         from' \in {from, raised}, faults' \in 0 .. MaxFaults
  PROVE  ListenerInv'
<1>1. /\ asked \in {"greeting", "auth", "events"} /\ feed = <<>> /\ conn = "open"
      /\ phase = AwaitedIn(asked) /\ subscribed = FALSE
  BY DEF LS!Reply, ListenerInv, LS!TypeOK, Turns
<1>2. /\ feed' = <<LS!ReplyFrame(ok)>> /\ asked' = "nothing"
      /\ UNCHANGED <<phase, backoff, published, cancelled, conn, up, raised>>
  BY <1>1 DEF LS!Reply, LS!listenerVars
<1>3. /\ LS!ReplyFrame(ok) \in Frames /\ LS!ReplyFrame(ok).kind = "reply"
      /\ ~IsEvent(LS!ReplyFrame(ok))
  BY DEF LS!ReplyFrame, Frames, IsEvent
<1> DEFINE f == LS!ReplyFrame(ok)
<1>4. /\ feed' = <<f>> /\ f \in Frames /\ f.kind = "reply" /\ ~IsEvent(f)
      /\ Len(feed') = 1 /\ feed'[1] = f
  BY <1>2, <1>3
<1> HIDE DEF f
<1>5. feed' \in Seq(Frames) /\ feed' # <<>> /\ \A i \in 1 .. Len(feed') : feed'[i] = f
  BY <1>4
<1>6. LS!TypeOK' /\ FeedTyped'
  BY <1>2, <1>4, <1>5 DEF ListenerInv, LS!TypeOK, FeedTyped
<1>7. Ahead' /\ PublishedInOrder'
  BY <1>2, <1>4, <1>5
     DEF ListenerInv, Ahead, PublishedInOrder, LS!PublishedInOrder
<1>8. Turns'
  BY <1>1, <1>2, <1>4, <1>5 DEF Turns, AwaitedIn, LS!Reading
<1>9. NoGapInSession'
  <2>1. subscribed' => from' = raised' /\ raised' \in Nat
    BY <1>2 DEF ListenerInv, FeedTyped
  <2>2. subscribed' => from' + 1 .. raised' = {}
    BY <2>1
  <2>3. QED
    BY <2>2 DEF NoGapInSession, LS!NoGapInSession
<1>10. QED
  BY <1>6, <1>7, <1>8, <1>9 DEF ListenerInv

LEMMA RaiseKeeps == ListenerInv /\ LS!Raise => ListenerInv'
<1> SUFFICES ASSUME ListenerInv, LS!Raise PROVE ListenerInv'
  OBVIOUS
<1>1. /\ raised < MaxEvents /\ raised' = raised + 1
      /\ feed' = IF subscribed THEN Append(feed, LS!Event(raised + 1)) ELSE feed
      /\ UNCHANGED <<phase, backoff, published, cancelled, conn, up, asked, subscribed,
                     faults, from>>
  BY DEF LS!Raise, LS!listenerVars
<1>2. /\ feed \in Seq(Frames) /\ raised \in Nat /\ raised' \in 1 .. MaxEvents
      /\ published \in Seq(1 .. MaxEvents) /\ Len(feed) \in Nat
  BY <1>1, BoundsAssumption DEF ListenerInv, FeedTyped
<1> DEFINE f == LS!Event(raised + 1)
<1>3. f \in Frames /\ IsEvent(f) /\ f.n = raised' /\ f.kind = "event"
  BY <1>1, <1>2 DEF LS!Event, Frames, IsEvent
<1>4. /\ feed' = IF subscribed THEN Append(feed, f) ELSE feed
      /\ f = LS!Event(raised')
  BY <1>1
<1> HIDE DEF f
<1>5. /\ feed' \in Seq(Frames) /\ Len(feed') \in Nat /\ Len(feed) <= Len(feed')
      /\ \A i \in 1 .. Len(feed) : feed'[i] = feed[i]
      /\ \A i \in 1 .. Len(feed') : i \in 1 .. Len(feed) \/ (i = Len(feed') /\ feed'[i] = f)
      /\ subscribed => Len(feed') = Len(feed) + 1 /\ feed'[Len(feed')] = f
      /\ ~subscribed => feed' = feed
  BY <1>2, <1>3, <1>4
<1>6. \A i \in 1 .. Len(feed) : IsEvent(feed[i]) => feed[i].n \in Nat /\ feed[i].n <= raised
  BY <1>2 DEF ListenerInv, Ahead, Frames, IsEvent
<1>7. \A i \in 1 .. Len(published) : published[i] \in Nat /\ published[i] <= raised
  <2>1. \A i \in 1 .. Len(published) : published[i] \in 1 .. MaxEvents
    BY <1>2, ElementOfSeq
  <2>2. QED
    BY <2>1 DEF ListenerInv, Ahead
<1>8. LS!TypeOK' /\ FeedTyped'
  <2>1. \A i \in 1 .. Len(feed') : feed'[i].kind \in {"reply", "event", "notice"}
    BY <1>5 DEF Frames
  <2>2. QED
    BY <1>1, <1>2, <1>5, <2>1 DEF ListenerInv, LS!TypeOK, FeedTyped
<1>9. Ahead'
  <2>1. \A i \in 1 .. Len(feed') : IsEvent(feed'[i]) => feed'[i].n <= raised'
    BY <1>1, <1>2, <1>3, <1>5, <1>6
  <2>2. ASSUME NEW i \in 1 .. Len(feed'), NEW j \in 1 .. Len(feed'), i < j,
               IsEvent(feed'[i]), IsEvent(feed'[j])
        PROVE  feed'[i].n < feed'[j].n
    <3>1. i \in 1 .. Len(feed) /\ feed'[i] = feed[i]
      BY <1>2, <1>5, <2>2
    <3>2. CASE j \in 1 .. Len(feed)
      BY <1>5, <2>2, <3>1, <3>2 DEF ListenerInv, Ahead
    <3>3. CASE feed'[j] = f
      BY <1>1, <1>2, <1>3, <1>6, <2>2, <3>1, <3>3
    <3>4. QED
      BY <1>5, <3>2, <3>3
  <2>3. \A i \in 1 .. Len(published) : published[i] <= raised'
    BY <1>1, <1>2, <1>7
  <2>4. ASSUME NEW i \in 1 .. Len(published), NEW j \in 1 .. Len(feed'), IsEvent(feed'[j])
        PROVE  published[i] < feed'[j].n
    <3>1. CASE j \in 1 .. Len(feed)
      BY <1>5, <2>4, <3>1 DEF ListenerInv, Ahead
    <3>2. CASE feed'[j] = f
      BY <1>1, <1>2, <1>3, <1>7, <3>2
    <3>3. QED
      BY <1>5, <3>1, <3>2
  <2>5. QED
    BY <1>1, <2>1, <2>2, <2>3, <2>4 DEF Ahead
<1>10. PublishedInOrder'
  BY <1>1 DEF ListenerInv, PublishedInOrder, LS!PublishedInOrder
<1>11. Turns'
  <2>1. ~subscribed => Turns'
    BY <1>1, <1>5 DEF ListenerInv, Turns
  <2>2. ASSUME subscribed PROVE Turns'
    <3>1. /\ phase \in LS!Reading \ {"greet", "auth"} /\ asked = "nothing"
          /\ phase # "stream" => feed # <<>> /\ ~IsEvent(feed[1])
      BY <2>2 DEF ListenerInv, Turns
    <3>2. phase # "stream" => feed' # <<>> /\ ~IsEvent(feed'[1])
      BY <1>2, <1>5, <3>1
    <3>3. QED
      BY <1>1, <3>1, <3>2 DEF Turns
  <2>3. QED
    BY <2>1, <2>2
<1>12. NoGapInSession'
  <2> SUFFICES ASSUME subscribed, NEW n \in from + 1 .. raised'
               PROVE  \/ \E i \in 1 .. Len(published) : published[i] = n
                      \/ \E i \in 1 .. Len(feed') : feed'[i] = LS!Event(n)
    BY <1>1 DEF NoGapInSession, LS!NoGapInSession, LS!Event
  <2>1. CASE n = raised'
    <3>1. Len(feed') \in 1 .. Len(feed') /\ feed'[Len(feed')] = LS!Event(n)
      BY <1>2, <1>4, <1>5, <2>1
    <3>2. QED
      BY <3>1
  <2>2. CASE n # raised'
    <3>1. from \in Int
      BY DEF ListenerInv, LS!TypeOK
    <3>2. n \in from + 1 .. raised
      BY <1>1, <1>2, <2>2, <3>1
    <3>3. \/ \E i \in 1 .. Len(published) : published[i] = n
          \/ \E i \in 1 .. Len(feed) : feed[i] = LS!Event(n)
      BY <3>2 DEF ListenerInv, NoGapInSession, LS!NoGapInSession
    <3>4. QED
      BY <1>2, <1>5, <3>3
  <2>3. QED
    BY <2>1, <2>2
<1>13. QED
  BY <1>8, <1>9, <1>10, <1>11, <1>12 DEF ListenerInv

\* The reader takes the reply it awaited and goes on.
LEMMA SendKeeps ==
  ASSUME ListenerInv, feed # <<>>, NEW command, NEW next, LS!Send(command, next),
         \/ phase = "greet" /\ command = "auth" /\ next = "auth"
         \/ phase = "auth" /\ command = "events" /\ next = "subscribe"
         \/ phase = "subscribe" /\ command = "nothing" /\ next = "stream",
         UNCHANGED <<cancelled, up, raised, faults, published, from>>
  PROVE  ListenerInv'
<1>1. /\ phase' = next /\ asked' = (IF conn = "open" THEN command ELSE "nothing")
      /\ feed' = Tail(feed)
      /\ UNCHANGED <<backoff, conn, subscribed>>
  BY DEF LS!Send, LS!SendThen
<1>2. /\ feed' \in Seq(Frames) /\ Len(feed') + 1 = Len(feed)
      /\ \A i \in 1 .. Len(feed') : feed'[i] = feed[i + 1]
      /\ Head(feed) = feed[1] /\ feed[1] \in Frames
      /\ Len(feed) \in Nat /\ Len(feed') \in Nat
  BY <1>1, RestOf DEF ListenerInv, FeedTyped
<1>3. FeedTyped' /\ Ahead' /\ PublishedInOrder'
  BY <1>2, Fewer DEF ListenerInv
<1>4. LS!TypeOK'
  <2>1. \A i \in 1 .. Len(feed') : feed'[i].kind \in {"reply", "event", "notice"}
    BY <1>2 DEF Frames
  <2>2. phase' \in LS!Reading /\ asked' \in {"nothing", "greeting", "auth", "events"}
    BY <1>1 DEF LS!Reading
  <2>3. published \in Seq(1 .. MaxEvents) /\ raised \in 0 .. MaxEvents
    BY DEF ListenerInv, FeedTyped
  <2>4. QED
    BY <1>1, <2>1, <2>2, <2>3 DEF ListenerInv, LS!TypeOK
<1>5. Turns'
  <2>1. asked = "nothing"
    BY DEF ListenerInv, Turns
  <2>2. CASE phase \in {"greet", "auth"}
    <3>1. ~subscribed /\ feed' = <<>>
      <4>1. Len(feed') = 0
        BY <1>2, <2>2 DEF ListenerInv, Turns
      <4>2. QED
        BY <1>2, <2>2, <4>1 DEF ListenerInv, Turns
    <3>2. phase' = AwaitedIn(command)
      BY <1>1, <2>2 DEF AwaitedIn
    <3>3. Len(feed') <= 1 /\ phase' \in LS!Reading
      BY <1>1, <2>2, <3>1 DEF LS!Reading
    <3>4. QED
      BY <1>1, <3>1, <3>2, <3>3 DEF Turns
  <2>3. CASE phase = "subscribe"
    BY <1>1, <2>1, <2>3 DEF Turns, LS!Reading
  <2>4. QED
    BY <2>2, <2>3
<1>6. NoGapInSession'
  <2> SUFFICES ASSUME subscribed, NEW n \in from + 1 .. raised
               PROVE  \/ \E i \in 1 .. Len(published) : published[i] = n
                      \/ \E i \in 1 .. Len(feed') : feed'[i] = LS!Event(n)
    BY <1>1 DEF NoGapInSession, LS!NoGapInSession, LS!Event
  <2>1. ~IsEvent(feed[1])
    BY DEF ListenerInv, Turns
  <2>2. ASSUME NEW i \in 1 .. Len(feed), feed[i] = LS!Event(n)
        PROVE  \E j \in 1 .. Len(feed') : feed'[j] = LS!Event(n)
    <3>1. i # 1
      BY <2>1, <2>2 DEF IsEvent, LS!Event
    <3>2. i - 1 \in 1 .. Len(feed') /\ feed'[i - 1] = feed[i]
      BY <1>2, <3>1
    <3>3. QED
      BY <2>2, <3>2
  <2>3. QED
    BY <2>2 DEF ListenerInv, NoGapInSession, LS!NoGapInSession
<1>7. QED
  BY <1>3, <1>4, <1>5, <1>6 DEF ListenerInv

\* The event loop takes a frame.
LEMMA StreamKeeps ==
  ASSUME ListenerInv, feed # <<>>, phase = "stream", LS!Stream,
         UNCHANGED <<cancelled, up, raised, faults, from>>
  PROVE  ListenerInv'
<1>1. /\ feed' = Tail(feed) /\ UNCHANGED <<phase, backoff, conn, asked, subscribed>>
      /\ published' = IF IsEvent(feed[1]) THEN Append(published, feed[1].n) ELSE published
  BY RestOf DEF LS!Stream, LS!StreamLeaving, IsEvent, ListenerInv
<1>2. /\ feed' \in Seq(Frames) /\ Len(feed') + 1 = Len(feed)
      /\ \A i \in 1 .. Len(feed') : feed'[i] = feed[i + 1] /\ i + 1 \in 1 .. Len(feed)
      /\ feed[1] \in Frames /\ 1 \in 1 .. Len(feed)
      /\ Len(feed) \in Nat /\ Len(feed') \in Nat
  BY <1>1, RestOf DEF ListenerInv, FeedTyped
<1>3. /\ published \in Seq(1 .. MaxEvents) /\ raised \in 0 .. MaxEvents
      /\ Len(published) \in Nat
  BY DEF ListenerInv, FeedTyped
<1>4. asked = "nothing"
  BY DEF ListenerInv, Turns
<1>5. Turns'
  BY <1>1, <1>4 DEF Turns, ListenerInv, LS!Reading
<1>6. \A i \in 1 .. Len(feed') : feed'[i].kind \in {"reply", "event", "notice"}
  BY <1>2 DEF Frames
<1>7. CASE ~IsEvent(feed[1])
  <2>1. published' = published
    BY <1>1, <1>7
  <2>2. FeedTyped' /\ Ahead' /\ PublishedInOrder'
    BY <1>2, <2>1, Fewer DEF ListenerInv
  <2>3. LS!TypeOK'
    BY <1>1, <1>6, <2>1 DEF ListenerInv, LS!TypeOK
  <2>4. NoGapInSession'
    <3> SUFFICES ASSUME subscribed, NEW n \in from + 1 .. raised
                 PROVE  \/ \E i \in 1 .. Len(published) : published[i] = n
                        \/ \E i \in 1 .. Len(feed') : feed'[i] = LS!Event(n)
      BY <1>1, <2>1 DEF NoGapInSession, LS!NoGapInSession, LS!Event
    <3>1. ASSUME NEW i \in 1 .. Len(feed), feed[i] = LS!Event(n)
          PROVE  \E j \in 1 .. Len(feed') : feed'[j] = LS!Event(n)
      <4>1. i # 1
        BY <1>7, <3>1 DEF IsEvent, LS!Event
      <4>2. i - 1 \in 1 .. Len(feed') /\ feed'[i - 1] = feed[i]
        BY <1>2, <4>1
      <4>3. QED
        BY <3>1, <4>2
    <3>2. QED
      BY <3>1 DEF ListenerInv, NoGapInSession, LS!NoGapInSession
  <2>5. QED
    BY <1>5, <2>2, <2>3, <2>4 DEF ListenerInv
<1>8. CASE IsEvent(feed[1])
  <2> DEFINE m == feed[1].n
  <2>1. /\ m \in 1 .. MaxEvents /\ m <= raised /\ feed[1] = LS!Event(m)
        /\ published' = Append(published, m)
    BY <1>1, <1>2, <1>8 DEF ListenerInv, Ahead, Frames, IsEvent, LS!Event
  <2>2. \A i \in 1 .. Len(published) : published[i] < m
    BY <1>2, <1>8 DEF ListenerInv, Ahead
  <2>3. \A i \in 1 .. Len(feed') : IsEvent(feed'[i]) =>
          feed'[i].n \in Nat /\ m < feed'[i].n /\ feed'[i].n <= raised
    <3> SUFFICES ASSUME NEW i \in 1 .. Len(feed'), IsEvent(feed'[i])
                 PROVE  feed'[i].n \in Nat /\ m < feed'[i].n /\ feed'[i].n <= raised
      OBVIOUS
    <3>1. /\ feed'[i] = feed[i + 1] /\ i + 1 \in 1 .. Len(feed) /\ 1 < i + 1
          /\ feed[i + 1] \in Frames
      BY <1>2
    <3>2. m < feed[i + 1].n /\ feed[i + 1].n <= raised
      BY <1>2, <1>8, <3>1 DEF ListenerInv, Ahead
    <3>3. feed[i + 1].n \in Nat
      BY <3>1 DEF Frames, IsEvent
    <3>4. QED
      BY <3>1, <3>2, <3>3
  <2> HIDE DEF m
  <2>4. /\ published' \in Seq(1 .. MaxEvents) /\ Len(published') = Len(published) + 1
        /\ \A i \in 1 .. Len(published) : published'[i] = published[i]
        /\ published'[Len(published')] = m
        /\ \A i \in 1 .. Len(published') : i \in 1 .. Len(published) \/ i = Len(published')
    BY <1>3, <2>1
  <2>5. FeedTyped' /\ LS!TypeOK'
    BY <1>1, <1>2, <1>3, <1>6, <2>4 DEF ListenerInv, FeedTyped, LS!TypeOK
  <2>6. PublishedInOrder'
    <3> SUFFICES ASSUME NEW i \in 1 .. Len(published'), NEW j \in 1 .. Len(published'), i < j
                 PROVE  published'[i] < published'[j]
      BY DEF PublishedInOrder, LS!PublishedInOrder
    <3>1. i \in 1 .. Len(published)
      BY <1>3, <2>4
    <3>2. CASE j = Len(published')
      BY <2>2, <2>4, <3>1, <3>2
    <3>3. CASE j \in 1 .. Len(published)
      BY <2>4, <3>1, <3>3 DEF ListenerInv, PublishedInOrder, LS!PublishedInOrder
    <3>4. QED
      BY <2>4, <3>2, <3>3
  <2>7. Ahead'
    <3>1. \A i \in 1 .. Len(feed') : IsEvent(feed'[i]) => feed'[i].n <= raised'
      BY <2>3
    <3>2. ASSUME NEW i \in 1 .. Len(feed'), NEW j \in 1 .. Len(feed'), i < j,
                 IsEvent(feed'[i]), IsEvent(feed'[j])
          PROVE  feed'[i].n < feed'[j].n
      <4>1. /\ feed'[i] = feed[i + 1] /\ feed'[j] = feed[j + 1] /\ i + 1 < j + 1
            /\ i + 1 \in 1 .. Len(feed) /\ j + 1 \in 1 .. Len(feed)
        BY <1>2, <3>2
      <4>2. QED
        BY <3>2, <4>1 DEF ListenerInv, Ahead
    <3>3. \A i \in 1 .. Len(published') : published'[i] <= raised'
      BY <2>1, <2>4 DEF ListenerInv, Ahead
    <3>4. ASSUME NEW i \in 1 .. Len(published'), NEW j \in 1 .. Len(feed'),
                 IsEvent(feed'[j])
          PROVE  published'[i] < feed'[j].n
      <4>1. m < feed'[j].n /\ feed'[j].n \in Nat /\ m \in Nat
        BY <2>1, <2>3, <3>4
      <4>2. CASE i = Len(published')
        BY <2>4, <4>1, <4>2
      <4>3. CASE i \in 1 .. Len(published)
        <5>1. published'[i] < m /\ published[i] \in 1 .. MaxEvents
          BY <1>3, <2>2, <2>4, <4>3, ElementOfSeq
        <5>2. published'[i] = published[i]
          BY <2>4, <4>3
        <5>3. QED
          BY <4>1, <5>1, <5>2
      <4>4. QED
        BY <2>4, <4>2, <4>3
    <3>5. QED
      BY <3>1, <3>2, <3>3, <3>4 DEF Ahead
  <2>8. NoGapInSession'
    <3> SUFFICES ASSUME subscribed, NEW n \in from + 1 .. raised
                 PROVE  \/ \E i \in 1 .. Len(published') : published'[i] = n
                        \/ \E i \in 1 .. Len(feed') : feed'[i] = LS!Event(n)
      BY <1>1 DEF NoGapInSession, LS!NoGapInSession, LS!Event
    <3>1. CASE \E i \in 1 .. Len(published) : published[i] = n
      BY <1>3, <2>4, <3>1
    <3>2. ASSUME NEW i \in 1 .. Len(feed), feed[i] = LS!Event(n)
          PROVE  \/ \E j \in 1 .. Len(published') : published'[j] = n
                 \/ \E j \in 1 .. Len(feed') : feed'[j] = LS!Event(n)
      <4>1. CASE i = 1
        <5>1. LS!Event(m).n = LS!Event(n).n
          BY <2>1, <3>2, <4>1
        <5>2. m = n /\ Len(published') \in 1 .. Len(published')
          BY <1>3, <2>4, <5>1 DEF LS!Event
        <5>3. QED
          BY <2>4, <5>2
      <4>2. CASE i # 1
        <5>1. i - 1 \in 1 .. Len(feed') /\ feed'[i - 1] = feed[i]
          BY <1>2, <4>2
        <5>2. QED
          BY <3>2, <5>1
      <4>3. QED
        BY <4>1, <4>2
    <3>3. QED
      BY <3>1, <3>2 DEF ListenerInv, NoGapInSession, LS!NoGapInSession
  <2>9. QED
    BY <1>5, <2>5, <2>6, <2>7, <2>8 DEF ListenerInv
<1>9. QED
  BY <1>7, <1>8

LEMMA ListenerNext == ListenerInv /\ [LS!Next]_events => ListenerInv'
<1> SUFFICES ASSUME ListenerInv, [LS!Next]_events PROVE ListenerInv'
  OBVIOUS
<1>t. /\ LS!TypeOK /\ FeedTyped /\ Ahead /\ PublishedInOrder /\ Turns /\ NoGapInSession
      /\ faults \in 0 .. MaxFaults /\ feed \in Seq(Frames) /\ published \in Seq(1 .. MaxEvents)
  BY DEF ListenerInv, LS!TypeOK, FeedTyped
<1>u. ASSUME feed' \in Seq(Frames)
      PROVE  \A i \in 1 .. Len(feed') : feed'[i].kind \in {"reply", "event", "notice"}
  <2>1. \A i \in 1 .. Len(feed') : feed'[i] \in Frames
    BY <1>u
  <2>2. QED
    BY <2>1 DEF Frames
<1>1. CASE LS!Answer
  <2>1. /\ LS!Reply(TRUE) /\ faults' = faults
        /\ subscribed' = (asked = "events")
        /\ from' = IF asked = "events" THEN raised ELSE from
    BY <1>1 DEF LS!Answer
  <2>2. QED
    BY <1>t, <2>1, Answers
<1>2. CASE LS!Refuse
  <2>1. LS!Reply(FALSE) /\ UNCHANGED <<subscribed, from>>
    BY <1>2 DEF LS!Refuse
  <2>2. faults' \in 0 .. MaxFaults
    BY <1>2, <1>t, BoundsAssumption DEF LS!Refuse
  <2>3. subscribed = FALSE
    BY <1>2, <1>t DEF LS!Refuse, Turns, LS!TypeOK
  <2>4. QED
    BY <2>1, <2>2, <2>3, Answers
<1>3. CASE LS!Raise
  BY <1>3, RaiseKeeps
<1>4. CASE LS!Cut
  <2>1. PICK rest \in LS!Prefixes : LS!CutLeaving(rest)
    BY <1>4 DEF LS!Cut
  <2>2. /\ UNCHANGED <<phase, backoff, published, cancelled, up, raised, from>>
        /\ faults' \in 0 .. MaxFaults
    BY <1>4, <1>t, BoundsAssumption DEF LS!Cut, LS!listenerVars
  <2>3. /\ FeedTyped' /\ Ahead' /\ PublishedInOrder' /\ Turns' /\ NoGapInSession'
        /\ conn' \in {"none", "open", "cut"} /\ asked' = "nothing" /\ subscribed' = FALSE
    BY <2>1, <2>2, CutKeeps
  <2>4. QED
    BY <1>t, <1>u, <2>2, <2>3 DEF ListenerInv, LS!TypeOK, FeedTyped
<1>5. CASE LS!Down
  <2>1. /\ UNCHANGED <<phase, backoff, published, cancelled, raised, from>>
        /\ faults' \in 0 .. MaxFaults /\ up' = FALSE
    BY <1>5, <1>t, BoundsAssumption DEF LS!Down, LS!listenerVars
  <2>2. ASSUME NEW rest \in LS!Prefixes, LS!CutLeaving(rest) PROVE ListenerInv'
    <3>1. /\ FeedTyped' /\ Ahead' /\ PublishedInOrder' /\ Turns' /\ NoGapInSession'
          /\ conn' \in {"none", "open", "cut"} /\ asked' = "nothing" /\ subscribed' = FALSE
      BY <2>1, <2>2, CutKeeps
    <3>2. QED
      BY <1>t, <1>u, <2>1, <3>1 DEF ListenerInv, LS!TypeOK, FeedTyped
  <2>3. ASSUME subscribed, LS!CutLeaving(Append(feed, LS!Notice)) PROVE ListenerInv'
    <3>1. /\ asked' = "nothing" /\ subscribed' = FALSE
          /\ conn' = IF conn = "open" THEN "cut" ELSE conn
          /\ feed' = Append(feed, LS!Notice)
      BY <2>3 DEF LS!CutLeaving
    <3> DEFINE f == LS!Notice
    <3>2. f \in Frames /\ ~IsEvent(f)
      BY DEF LS!Notice, Frames, IsEvent
    <3>3. feed' = Append(feed, f)
      BY <3>1
    <3> HIDE DEF f
    <3>4. /\ feed' \in Seq(Frames) /\ feed' # <<>> /\ Len(feed) \in Nat
          /\ \A i \in 1 .. Len(feed') :
               \/ i \in 1 .. Len(feed) /\ feed'[i] = feed[i]
               \/ ~IsEvent(feed'[i])
      BY <1>t, <3>2, <3>3
    <3>5. Ahead'
      BY <1>t, <2>1, <3>4 DEF Ahead
    <3>6. FeedTyped' /\ PublishedInOrder' /\ NoGapInSession'
      BY <1>t, <2>1, <3>1, <3>4
         DEF FeedTyped, PublishedInOrder, LS!PublishedInOrder, NoGapInSession,
             LS!NoGapInSession
    <3>7. Turns'
      BY <1>t, <2>1, <2>3, <3>1 DEF Turns, LS!Reading
    <3>8. LS!TypeOK'
      BY <1>t, <1>u, <2>1, <3>1, <3>4 DEF LS!TypeOK
    <3>9. QED
      BY <3>5, <3>6, <3>7, <3>8 DEF ListenerInv
  <2>4. QED
    BY <1>5, <2>2, <2>3 DEF LS!Down
<1>6. CASE LS!Up
  BY <1>6 DEF LS!Up, LS!listenerVars, ListenerInv, LS!TypeOK, FeedTyped, Ahead,
              PublishedInOrder, LS!PublishedInOrder, Turns, NoGapInSession,
              LS!NoGapInSession
<1>7. CASE LS!Dial
  <2>1. UNCHANGED <<cancelled, up, raised, faults, published, from>>
    BY <1>7 DEF LS!Dial, LS!peerVars
  <2>2. CASE up
    <3>1. /\ phase = "dial" /\ conn' = "open" /\ asked' = "greeting" /\ phase' = "greet"
          /\ UNCHANGED <<backoff, feed, subscribed>>
      BY <1>7, <2>2 DEF LS!Dial
    <3>2. feed = <<>> /\ subscribed = FALSE
      BY <1>t, <3>1 DEF Turns, LS!Reading, LS!TypeOK
    <3>3. Turns'
      BY <3>1, <3>2 DEF Turns, AwaitedIn, LS!Reading
    <3>4. NoGapInSession'
      BY <3>1, <3>2 DEF NoGapInSession, LS!NoGapInSession
    <3>5. LS!TypeOK' /\ FeedTyped' /\ Ahead' /\ PublishedInOrder'
      BY <1>t, <2>1, <3>1
         DEF LS!TypeOK, FeedTyped, Ahead, PublishedInOrder, LS!PublishedInOrder,
             LS!Reading
    <3>6. QED
      BY <3>3, <3>4, <3>5 DEF ListenerInv
  <2>3. CASE ~up
    <3>1. LS!Fail
      BY <1>7, <2>3 DEF LS!Dial
    <3>2. QED
      BY <1>t, <1>u, <2>1, <3>1, FailKeeps DEF ListenerInv, LS!TypeOK, FeedTyped
  <2>4. QED
    BY <2>2, <2>3
<1>8. CASE LS!ReadFrame
  <2>1. UNCHANGED <<cancelled, up, raised, faults, from>> /\ feed # <<>>
    BY <1>8 DEF LS!ReadFrame, LS!peerVars
  <2>2. CASE phase = "stream"
    <3>1. LS!Stream
      BY <1>8, <2>2 DEF LS!ReadFrame
    <3>2. QED
      BY <2>1, <2>2, <3>1, StreamKeeps
  <2>3. CASE LS!Fail /\ published' = published
    BY <1>t, <1>u, <2>1, <2>3, FailKeeps DEF ListenerInv, LS!TypeOK, FeedTyped
  <2>4. CASE /\ \/ phase = "greet" /\ LS!Send("auth", "auth")
                \/ phase = "auth" /\ LS!Send("events", "subscribe")
                \/ phase = "subscribe" /\ LS!Send("nothing", "stream")
             /\ published' = published
    BY <2>1, <2>4, SendKeeps
  <2>5. QED
    BY <1>8, <2>2, <2>3, <2>4 DEF LS!ReadFrame
<1>9. CASE LS!ReadError
  <2>1. LS!Fail /\ UNCHANGED <<cancelled, up, raised, faults, published, from>>
    BY <1>9 DEF LS!ReadError, LS!peerVars
  <2>2. QED
    BY <1>t, <1>u, <2>1, FailKeeps DEF ListenerInv, LS!TypeOK, FeedTyped
<1>10. ASSUME phase = "sleep", phase' \in {"dial", "ended"},
              backoff' \in {1, 2, 4, 8, 16, 32},
              UNCHANGED <<cancelled, conn, feed, asked, subscribed, up, raised, faults,
                          published, from>>
       PROVE  ListenerInv'
  <2>1. LS!TypeOK' /\ FeedTyped' /\ Ahead' /\ PublishedInOrder' /\ NoGapInSession'
    BY <1>10, <1>t
       DEF LS!TypeOK, FeedTyped, Ahead, PublishedInOrder, LS!PublishedInOrder,
           NoGapInSession, LS!NoGapInSession
  <2>2. Turns'
    BY <1>10, <1>t DEF Turns, LS!Reading
  <2>3. QED
    BY <2>1, <2>2 DEF ListenerInv
<1>11. CASE LS!Wake
  BY <1>10, <1>11, <1>t DEF LS!Wake, LS!peerVars, LS!TypeOK
<1>12. CASE LS!Cancel
  BY <1>12
     DEF LS!Cancel, LS!listenerVars, LS!peerVars, ListenerInv, LS!TypeOK, FeedTyped,
               Ahead, PublishedInOrder, LS!PublishedInOrder, Turns, NoGapInSession,
               LS!NoGapInSession
<1>13. CASE LS!Interrupt
  BY <1>10, <1>13, <1>t DEF LS!Interrupt, LS!peerVars, LS!TypeOK
<1>14. CASE LS!CloseOnCancel
  <2>1. PICK rest \in LS!Prefixes : LS!CutLeaving(rest)
    BY <1>14 DEF LS!CloseOnCancel, LS!CloseIn
  <2>2. UNCHANGED <<phase, backoff, published, cancelled, up, raised, faults, from>>
    BY <1>14 DEF LS!CloseOnCancel, LS!CloseIn, LS!listenerVars, LS!peerVars
  <2>3. /\ FeedTyped' /\ Ahead' /\ PublishedInOrder' /\ Turns' /\ NoGapInSession'
        /\ conn' \in {"none", "open", "cut"} /\ asked' = "nothing" /\ subscribed' = FALSE
    BY <2>1, <2>2, CutKeeps
  <2>4. QED
    BY <1>t, <1>u, <2>2, <2>3 DEF ListenerInv, LS!TypeOK, FeedTyped
<1>15. CASE UNCHANGED events
  BY <1>15 DEF events, ListenerInv, LS!TypeOK, FeedTyped, Ahead, PublishedInOrder,
               LS!PublishedInOrder, Turns, NoGapInSession, LS!NoGapInSession
<1>16. QED
  BY <1>1, <1>2, <1>3, <1>4, <1>5, <1>6, <1>7, <1>8, <1>9, <1>11, <1>12, <1>13,
  <1>14, <1>15
     DEF LS!Next

LEMMA ListenerAlways == LS!Spec => []ListenerInv
<1>1. ListenerInv /\ [LS!Next]_(LS!vars) => ListenerInv'
  BY ListenerNext DEF LS!vars, events
<1>2. LS!Init => ListenerInv
  BY ListenerStarts
<1>3. QED
  BY <1>1, <1>2, PTL DEF LS!Spec

\* The listener, the event socket and the feed keep their types.
THEOREM ListenerTyping == LS!Spec => []LS!TypeOK
<1>1. ListenerInv => LS!TypeOK
  BY DEF ListenerInv
<1>2. QED
  BY <1>1, ListenerAlways, PTL

\* Across reconnections the hub gets events in the order FreeSWITCH raised them,
\* each at most once (listener.go:35-56, 89-107).
THEOREM InOrderAlways == LS!Spec => []PublishedInOrder
<1>1. ListenerInv => PublishedInOrder
  BY DEF ListenerInv
<1>2. QED
  BY <1>1, ListenerAlways, PTL

\* While FreeSWITCH serves the subscription the listener misses nothing, from the
\* acknowledgement on: the login takes no event from the feed, and the loop
\* publishes each (listener.go:65-88, 89-107).
THEOREM NoGapAlways == LS!Spec => []NoGapInSession
<1>1. ListenerInv => NoGapInSession
  BY DEF ListenerInv
<1>2. QED
  BY <1>1, ListenerAlways, PTL

\* The same of the composition that is model-checked, commands included
\* (listener.go, runtime/esl.go, api/runtime.go, api/channels.go).
THEOREM Together ==
  EslSpec => [](PublishedInOrder /\ NoGapInSession /\ ReloadFresh /\ SupervisionLogged)
<1>1. EslInit => Inv /\ ListenerInv
  BY InitInv, ListenerStarts DEF EslInit
<1>2. Inv /\ ListenerInv /\ [EslNext]_<<part, vars, events>> => (Inv /\ ListenerInv)'
  <2> SUFFICES ASSUME Inv, ListenerInv, [EslNext]_<<part, vars, events>>
               PROVE  Inv' /\ ListenerInv'
    OBVIOUS
  <2>1. [Next]_vars /\ [LS!Next]_events
    BY DEF EslNext
  <2>2. QED
    BY <2>1, NextInv, ListenerNext
<1>3. Inv /\ ListenerInv =>
        PublishedInOrder /\ NoGapInSession /\ ReloadFresh /\ SupervisionLogged
  BY InvFresh, InvLogged DEF ListenerInv
<1>4. QED
  BY <1>1, <1>2, <1>3, PTL DEF EslSpec
================================================================================
