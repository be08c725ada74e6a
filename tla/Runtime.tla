--------------------------------- MODULE Runtime ---------------------------------
(***************************************************************************)
(* Commands to FreeSWITCH: runtime/esl.go and the handlers of              *)
(* api/runtime.go and api/channels.go.                                     *)
(*                                                                         *)
(* A handler opens a connection of its own, waits for the greeting, logs   *)
(* in, sends one command and waits for the reply; one deadline covers the  *)
(* whole exchange. The client's context plays no part in it, and           *)
(* FreeSWITCH carries a command out whether or not anybody still waits.    *)
(* Four commands stand for the handlers:                                   *)
(*                                                                         *)
(*   reload     reload mod_callcenter, reloadxml, conference kick and mute *)
(*   hangup     uuid_kill, also for uuid_park and uuid_transfer            *)
(*   eavesdrop  the only one sent with bgapi: the reply comes first        *)
(*   show       status, registrations, channels, agent status, layout      *)
(*                                                                         *)
(* The call-centre tables are a version number that changes raise. A       *)
(* reload makes FreeSWITCH fetch callcenter.conf (Callcenter.tla) and run  *)
(* what it got. Without an ESL address every handler answers 503 at once.  *)
(***************************************************************************)
EXTENDS Naturals

CONSTANTS
  Requests,
  MaxChanges     \* bound: changes of the call-centre tables

VARIABLES
  req,           \* the requests and their connections
  desired,       \* version of the call-centre tables
  live,          \* FreeSWITCH: version it runs
  talking,       \* FreeSWITCH: is the call that supervisors act on up?
  jobs,          \* FreeSWITCH: commands nobody waits for, not yet carried out
  carried,       \* FreeSWITCH: commands carried out
  logged,        \* requests with a changelog row
  unlogged       \* history: requests whose changelog row could not be written

vars == <<req, desired, live, talking, jobs, carried, logged, unlogged>>

freeswitch == <<live, talking, jobs, carried>>
changelog  == <<logged, unlogged>>

Commands  == {"reload", "hangup", "eavesdrop", "show"}
OnChannel(c) == c \in {"hangup", "eavesdrop"}

\* at: the exchange the handler waits for, or what it is about to do.
\* line: what FreeSWITCH is to do on the connection, or that it has spoken.
Idle == [at |-> "idle", command |-> "none", line |-> "none", heard |-> "none",
         status |-> 0, asked |-> 0]

Waiting == {"dial", "greet", "auth", "run"}

Init ==
  /\ req = [r \in Requests |-> Idle]
  /\ desired = 0 /\ live = 0
  /\ talking = TRUE
  /\ jobs = {} /\ carried = {} /\ logged = {} /\ unlogged = {}

--------------------------------------------------------------------------------
(* Clients, the call, FreeSWITCH (external).                               *)

Change ==
  /\ desired < MaxChanges
  /\ desired' = desired + 1
  /\ UNCHANGED <<req, freeswitch, changelog>>

Ask(r, c) ==
  /\ req[r].at = "idle"
  /\ req' = [req EXCEPT ![r].at = "dial", ![r].command = c, ![r].asked = desired]
  /\ UNCHANGED <<desired, freeswitch, changelog>>

CallEnds ==
  /\ talking
  /\ talking' = FALSE
  /\ UNCHANGED <<req, desired, live, jobs, carried, changelog>>

\* What a command does. A reload may fail to fetch or to parse.
Effect(c, result) ==
  \/ c = "reload" /\ result = "+OK" /\ live' = desired /\ UNCHANGED talking
  \/ c = "reload" /\ result = "-ERR" /\ UNCHANGED <<live, talking>>
  \/ /\ c = "hangup" /\ result = (IF talking THEN "+OK" ELSE "-ERR")
     /\ talking' = FALSE /\ UNCHANGED live
  \/ c \in {"eavesdrop", "show"} /\ result = "+OK" /\ UNCHANGED <<live, talking>>

Say(r, result) == req' = [req EXCEPT ![r].line = "said", ![r].heard = result]

Greet(r) ==
  /\ req[r].line = "greet"
  /\ Say(r, "+OK")
  /\ UNCHANGED <<desired, freeswitch, changelog>>

Login(r) ==
  /\ req[r].line = "auth"
  /\ \E result \in {"+OK", "-ERR"} : Say(r, result)
  /\ UNCHANGED <<desired, freeswitch, changelog>>

\* Mutant: a reload is sent with bgapi too.
BackgroundReload(c) == c \in {"eavesdrop", "reload"}

Background(c) == c = "eavesdrop"

Execute(r) ==
  /\ req[r].line = "run"
  /\ IF Background(req[r].command)
       THEN /\ Say(r, "+OK")
            /\ jobs' = jobs \cup {r}
            /\ UNCHANGED <<live, talking, carried>>
       ELSE /\ \E result \in {"+OK", "-ERR"} : Effect(req[r].command, result) /\ Say(r, result)
            /\ carried' = carried \cup {r}
            /\ jobs' = jobs
  /\ UNCHANGED <<desired, changelog>>

RunJob(r) ==
  /\ r \in jobs
  /\ jobs' = jobs \ {r}
  /\ carried' = carried \cup {r}
  /\ \E result \in {"+OK", "-ERR"} : Effect(req[r].command, result)
  /\ UNCHANGED <<req, desired, changelog>>

--------------------------------------------------------------------------------
(* The handler.                                                            *)

\* Mutant: the channel handlers log what succeeded, as the others do.
LogsSuccess(c, out) == c # "show" /\ out # "error"

\* A channel command is logged whatever came of it, a reload once it was sent
\* and replied to.
Logs(c, out) == OnChannel(c) \/ (c = "reload" /\ out # "error")

Status(c, out) ==
  CASE out = "error"                  -> 502
    [] out = "-ERR" /\ OnChannel(c)   -> 404
    [] OTHER                          -> 200

\* The exchange is over and the connection closed.
Return(r, out) ==
  req' = [req EXCEPT ![r].at = IF Logs(req[r].command, out) THEN "log" ELSE "answered",
                     ![r].line = "none",
                     ![r].heard = out,
                     ![r].status = Status(req[r].command, out)]

Dial(r) ==
  /\ req[r].at = "dial"
  /\ req' = [req EXCEPT ![r].at = "greet", ![r].line = "greet"]
  /\ UNCHANGED <<desired, freeswitch, changelog>>

SendAuth(r) ==
  /\ req[r].at = "greet" /\ req[r].line = "said"
  /\ req' = [req EXCEPT ![r].at = "auth", ![r].line = "auth"]
  /\ UNCHANGED <<desired, freeswitch, changelog>>

SendCommand(r) ==
  /\ req[r].at = "auth" /\ req[r].line = "said"
  /\ IF req[r].heard = "+OK"
       THEN req' = [req EXCEPT ![r].at = "run", ![r].line = "run"]
       ELSE Return(r, "error")
  /\ UNCHANGED <<desired, freeswitch, changelog>>

ReadReply(r) ==
  /\ req[r].at = "run" /\ req[r].line = "said"
  /\ Return(r, req[r].heard)
  /\ UNCHANGED <<desired, freeswitch, changelog>>

\* The connection is refused or lost, or the deadline passes. A command that
\* was sent is with FreeSWITCH.
FailIn(r, phases) ==
  /\ req[r].at \in phases
  /\ Return(r, "error")
  /\ jobs' = IF req[r].line = "run" THEN jobs \cup {r} ELSE jobs
  /\ UNCHANGED <<desired, live, talking, carried, changelog>>

\* Mutant: the timeout is the dial's only; no deadline is set on the connection.
FailDialling(r) == FailIn(r, {"dial"})

Fail(r) == FailIn(r, Waiting)

\* The row is written, unless the client has gone, which cancels the
\* statement, or PostgreSQL refuses; the answer is the same.
Log(r) ==
  /\ req[r].at = "log"
  /\ req' = [req EXCEPT ![r].at = "answered"]
  /\ \/ logged' = logged \cup {r} /\ UNCHANGED unlogged
     \/ unlogged' = unlogged \cup {r} /\ UNCHANGED logged
  /\ UNCHANGED <<desired, freeswitch>>

Handler(r) == Dial(r) \/ SendAuth(r) \/ SendCommand(r) \/ ReadReply(r) \/ Fail(r) \/ Log(r)

Next ==
  \/ Change \/ CallEnds
  \/ \E r \in Requests :
       \/ \E c \in Commands : Ask(r, c)
       \/ Greet(r) \/ Login(r) \/ Execute(r) \/ RunJob(r)
       \/ Handler(r)

(* Handlers run and deadlines pass. FreeSWITCH may hang at any point.       *)
Fairness == \A r \in Requests : WF_vars(Handler(r))

Spec == Init /\ [][Next]_vars /\ Fairness

--------------------------------------------------------------------------------
(* Properties.                                                             *)

Answered(r) == req[r].at = "answered"

\* Every request is answered although FreeSWITCH accepts the connection and
\* never says another word (esl.go:95).
CommandsReturn == \A r \in Requests : req[r].at # "idle" ~> Answered(r)

\* A reload that is answered 200 with +OK has put into effect at least every
\* change that was committed before it was asked for: the "apply" step of
\* docs/api.md:325 (runtime.go:83-97).
ReloadFresh ==
  \A r \in Requests :
    Answered(r) /\ req[r].command = "reload" /\ req[r].status = 200 /\ req[r].heard = "+OK" =>
      live >= req[r].asked

\* Whatever FreeSWITCH did to a call at a supervisor's request is in the
\* changelog once the request is answered, if the row could be written: also
\* a command that was carried out after its handler had given it up with 502
\* (channels.go:66, 81, 114, 140).
SupervisionLogged ==
  \A r \in carried :
    OnChannel(req[r].command) /\ Answered(r) => r \in logged \cup unlogged
================================================================================
