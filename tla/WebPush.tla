--------------------------------- MODULE WebPush ---------------------------------
(***************************************************************************)
(* Web push: the subscriptions of store/push.go, changed by the handlers   *)
(* of api/push.go, and the sender of events/push.go that tells an          *)
(* extension's browsers of a voicemail and drops those whose push service  *)
(* has forgotten them. A browser stands for its endpoint, which is the key *)
(* of its row. One goroutine per notification reads the rows once and      *)
(* tells the browsers one after the other; the model follows one of them   *)
(* at a time, since they share only the table.                             *)
(***************************************************************************)
EXTENDS Naturals

CONSTANTS
  Browsers,
  Extensions,
  Nowhere,       \* not an extension
  MaxChanges     \* bound: subscriptions, unsubscriptions, deaths

VARIABLES
  row,           \* push_subscriptions: the extension in each browser's row
  wanted,        \* history: what each browser asked for last
  known,         \* browsers whose push service knows them
  send,          \* the sender: what it does and for whom, the rows left to it
  tried,         \* history: browsers it has tried to tell
  steady,        \* history: browsers that asked for its extension before it
                 \* began, and that nothing has happened to since
  touched,       \* history: browsers that asked for its extension at some time
                 \* since it began
  changes

vars == <<row, wanted, known, send, tried, steady, touched, changes>>

Init ==
  /\ row = [b \in Browsers |-> Nowhere]
  /\ wanted = [b \in Browsers |-> Nowhere]
  /\ known = Browsers
  /\ send = [at |-> "idle", for |-> Nowhere, left |-> {}]
  /\ tried = {} /\ steady = {} /\ touched = {}
  /\ changes = 0

--------------------------------------------------------------------------------
(* Browsers and push services.                                             *)

Upset(b, x) ==
  /\ changes < MaxChanges
  /\ changes' = changes + 1
  /\ steady' = steady \ {b}
  /\ touched' = IF x = send.for /\ x # Nowhere THEN touched \cup {b} ELSE touched

Asks(b, x) == wanted' = [wanted EXCEPT ![b] = x] /\ Upset(b, x)

\* Mutant: ON CONFLICT (endpoint) DO NOTHING.
SaveOnce(b, x) ==
  /\ Asks(b, x)
  /\ row' = [row EXCEPT ![b] = IF @ = Nowhere THEN x ELSE @]
  /\ UNCHANGED <<known, send, tried>>

\* The upsert: a browser that subscribes again, under the same operator or
\* another, keeps its one row.
SavePushSub(b, x) ==
  /\ Asks(b, x)
  /\ row' = [row EXCEPT ![b] = x]
  /\ UNCHANGED <<known, send, tried>>

Unsubscribe(b) ==
  /\ Asks(b, Nowhere)
  /\ row' = [row EXCEPT ![b] = Nowhere]
  /\ UNCHANGED <<known, send, tried>>

\* External: a push service forgets a browser for good.
Forget(b) ==
  /\ b \in known
  /\ known' = known \ {b}
  /\ Upset(b, Nowhere)
  /\ UNCHANGED <<row, wanted, send, tried>>

--------------------------------------------------------------------------------
(* The sender.                                                             *)

Begin(x) ==
  /\ send.at \in {"idle", "done"}
  /\ send' = [at |-> "query", for |-> x, left |-> {}]
  /\ tried' = {}
  /\ touched' = {b \in Browsers : wanted[b] = x}
  /\ steady' = {b \in known : wanted[b] = x}
  /\ UNCHANGED <<row, wanted, known, changes>>

Goes(next, left) == send' = [send EXCEPT !.at = next, !.left = left]

Subscriptions(x) == {b \in Browsers : row[b] = x}

PushSubsForExtension ==
  /\ send.at = "query"
  /\ Goes("loop", Subscriptions(send.for))
  /\ UNCHANGED <<row, wanted, known, tried, steady, touched, changes>>

\* The query fails: nobody is told.
QueryFails ==
  /\ send.at = "query"
  /\ Goes("idle", {})
  /\ UNCHANGED <<row, wanted, known, tried, steady, touched, changes>>

\* One browser is told, or its push service cannot be reached, or refuses; a
\* browser it does not know loses its row, if the statement succeeds.
SendThen(b, leftAfterError) ==
  /\ send.at = "loop" /\ b \in send.left
  /\ tried' = tried \cup {b}
  /\ \/ Goes("loop", send.left \ {b}) /\ UNCHANGED row
     \/ Goes("loop", leftAfterError) /\ UNCHANGED row
     \/ /\ b \notin known
        /\ Goes("loop", send.left \ {b})
        /\ row' = [row EXCEPT ![b] = Nowhere]
  /\ UNCHANGED <<wanted, known, steady, touched, changes>>

\* Mutant: an error ends the loop.
SendOrReturn(b) == SendThen(b, {})

Send(b) == SendThen(b, send.left \ {b})

SendDone ==
  /\ send.at = "loop" /\ send.left = {}
  /\ Goes("done", {})
  /\ UNCHANGED <<row, wanted, known, tried, steady, touched, changes>>

Next ==
  \/ \E b \in Browsers : Unsubscribe(b) \/ Forget(b) \/ Send(b)
                         \/ \E x \in Extensions : SavePushSub(b, x)
  \/ \E x \in Extensions : Begin(x)
  \/ PushSubsForExtension \/ QueryFails \/ SendDone

Spec == Init /\ [][Next]_vars

--------------------------------------------------------------------------------
(* Properties.                                                             *)

\* A notification that ran to its end was tried on every browser that was
\* subscribed to its extension all the time, whatever the others' push
\* services answered, and on none that had been moved to another extension
\* before (push.go:45-83, store/push.go:20-33).
TellsTheSubscribed == send.at = "done" => steady \subseteq tried /\ tried \subseteq touched
================================================================================
