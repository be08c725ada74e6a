-------------------------------- MODULE Shutdown --------------------------------
(***************************************************************************)
(* Graceful shutdown: cmd/api/main.go:157-167 and the deferred calls of    *)
(* main, with the handlers it waits for.                                   *)
(*                                                                         *)
(* On SIGTERM main stops the listener, closes the listening socket and     *)
(* waits up to 10 s for the handlers. It does not tell them: a handler's   *)
(* context ends with its client, and the hub closes no channel, so that    *)
(* an SSE stream lasts as long as its browser likes. Then the deferred     *)
(* calls close the pools, which refuse new statements and wait for those   *)
(* under way, and main returns, which ends whatever still runs.            *)
(***************************************************************************)
EXTENDS Naturals

CONSTANT Handlers

VARIABLES
  main,          \* "serving", "draining", "closing", "exited"
  expired,       \* has the timeout of Shutdown passed?
  pool,          \* "open" or "closed" (refuses new statements)
  handler,       \* what each handler is doing
  left,          \* statements it has yet to make: its change, its changelog row
  cut            \* history: handlers refused the pool or ended by the exit

vars == <<main, expired, pool, handler, left, cut>>

Active == {"working", "querying", "streaming"}
Busy   == {h \in Handlers : handler[h] \in Active}

Init ==
  /\ main = "serving"
  /\ expired = FALSE
  /\ pool = "open"
  /\ handler = [h \in Handlers |-> "away"]
  /\ left = [h \in Handlers |-> 2]
  /\ cut = {}

--------------------------------------------------------------------------------
(* Handlers.                                                               *)

Move(h, from, to) ==
  /\ main # "exited"
  /\ handler[h] = from
  /\ handler' = [handler EXCEPT ![h] = to]
  /\ UNCHANGED <<main, expired, pool>>

\* A request may still begin on a connection that was accepted before the
\* signal: Shutdown waits for it, and leaves it alone when it gives up.
Arrive(h) ==
  /\ main \in {"serving", "draining"} \/ expired
  /\ \/ Move(h, "away", "working")
     \/ Move(h, "away", "streaming")
  /\ UNCHANGED <<left, cut>>

Acquire(h) ==
  /\ left[h] > 0 /\ pool = "open"
  /\ Move(h, "working", "querying")
  /\ UNCHANGED <<left, cut>>

Release(h) ==
  /\ Move(h, "querying", "working")
  /\ left' = [left EXCEPT ![h] = @ - 1]
  /\ UNCHANGED cut

\* Without the pool a change fails and a changelog row is left out.
Refused(h) ==
  /\ left[h] > 0 /\ pool = "closed"
  /\ Move(h, "working", "answered")
  /\ cut' = cut \cup {h}
  /\ UNCHANGED left

Answer(h) ==
  /\ left[h] = 0
  /\ Move(h, "working", "answered")
  /\ UNCHANGED <<left, cut>>

\* The browser goes away.
Leave(h) ==
  /\ Move(h, "streaming", "answered")
  /\ UNCHANGED <<left, cut>>

--------------------------------------------------------------------------------
(* main.                                                                   *)

Signal ==
  /\ main = "serving"
  /\ main' = "draining"
  /\ UNCHANGED <<expired, pool, handler, left, cut>>

\* Mutant: Close instead of Shutdown.
DrainAtOnce ==
  /\ main = "draining"
  /\ main' = "closing"
  /\ UNCHANGED <<expired, pool, handler, left, cut>>

Drain == Busy = {} /\ DrainAtOnce

ExpireIf(limited) ==
  /\ limited
  /\ main = "draining"
  /\ main' = "closing"
  /\ expired' = TRUE
  /\ UNCHANGED <<pool, handler, left, cut>>

\* Mutant: Shutdown is given a context without a timeout.
ExpireNever == ExpireIf(FALSE)

Expire == ExpireIf(TRUE)

ClosePool ==
  /\ main = "closing" /\ pool = "open"
  /\ pool' = "closed"
  /\ UNCHANGED <<main, expired, handler, left, cut>>

Exit ==
  /\ main = "closing" /\ pool = "closed"
  /\ \A h \in Handlers : handler[h] # "querying"
  /\ main' = "exited"
  /\ cut' = cut \cup Busy
  /\ UNCHANGED <<expired, pool, handler, left>>

Next ==
  \/ Signal \/ Drain \/ Expire \/ ClosePool \/ Exit
  \/ \E h \in Handlers : Arrive(h) \/ Acquire(h) \/ Release(h) \/ Refused(h)
                         \/ Answer(h) \/ Leave(h)

(* main runs, the 10 s pass, statements end. A stream need never end.       *)
Fairness ==
  /\ WF_vars(Drain) /\ WF_vars(Expire) /\ WF_vars(ClosePool) /\ WF_vars(Exit)
  /\ \A h \in Handlers : WF_vars(Acquire(h) \/ Release(h) \/ Refused(h) \/ Answer(h))

Spec == Init /\ [][Next]_vars /\ Fairness

--------------------------------------------------------------------------------
(* Properties.                                                             *)

\* Once told to stop, the process does, whatever streams its browsers keep
\* open (main.go:163).
Exits == main = "draining" ~> main = "exited"

\* As long as the timeout has not passed no handler is ended before its answer
\* and none finds the pool closed: the pools outlive the handlers
\* (main.go:40, 163-166).
CutOnlyByTimeout == cut # {} => expired
================================================================================
