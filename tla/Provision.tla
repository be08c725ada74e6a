-------------------------------- MODULE Provision --------------------------------
(***************************************************************************)
(* Provisioning of phones: store/devices.go, api/devices.go and            *)
(* api/provision.go. A device's row names the user it registers as; the    *)
(* password is the user's own and is read by a second query when a phone   *)
(* asks for its configuration. A MAC may be written in several ways and is *)
(* normalised before it reaches the table. The model has one phone, and    *)
(* users that change as Accounts.tla lets them: here a user is no more     *)
(* than its password, or None (no user, or a user without one).            *)
(***************************************************************************)
EXTENDS Naturals

CONSTANTS
  Users,
  Passwords,
  None,          \* no row, no password
  MaxWrites      \* bound: writes of the API

VARIABLES
  device,        \* provisioned_devices: the row under each spelling of the MAC
  password,      \* users: the SIP password of each
  fetch,         \* the phone's request
  quiet,         \* history: nothing was written since it began
  bound,         \* history: users the enabled device was bound to since then
  valid,         \* history: users' passwords since then
  writes

vars == <<device, password, fetch, quiet, bound, valid, writes>>

\* The first is the normal form: lower case, without separators.
Spellings == {"plain", "dashed"}
Row == [user: Users, enabled: BOOLEAN]

NormalizeMAC(mac) == "plain"

Bound(dev)   == {dev[m].user : m \in {n \in Spellings : dev[n] # None /\ dev[n].enabled}}
Valid(pass) == {<<u, pass[u]>> : u \in {v \in Users : pass[v] # None}}

NoFetch  == [at |-> "idle", row |-> None, config |-> None]
NotFound == [NoFetch EXCEPT !.at = "not found"]

Init ==
  /\ device = [m \in Spellings |-> None]
  /\ password \in [Users -> Passwords \cup {None}]
  /\ fetch = NoFetch
  /\ quiet = TRUE /\ bound = {} /\ valid = {}
  /\ writes = 0

--------------------------------------------------------------------------------
(* Writes: each is one statement. One that finds no row, or a row in its   *)
(* way, changes nothing and is answered 404 or 409.                        *)

Written ==
  /\ writes < MaxWrites
  /\ writes' = writes + 1
  /\ quiet' = FALSE
  /\ bound' = bound \cup Bound(device')
  /\ valid' = valid \cup Valid(password')
  /\ fetch' = fetch

\* Mutant: the MAC is stored as it was written.
CreateVerbatim(mac, r) ==
  /\ device[mac] = None
  /\ device' = [device EXCEPT ![mac] = r]
  /\ password' = password
  /\ Written

CreateDevice(mac, r) ==
  /\ device[NormalizeMAC(mac)] = None
  /\ device' = [device EXCEPT ![NormalizeMAC(mac)] = r]
  /\ password' = password
  /\ Written

UpdateDevice(mac, r) ==
  /\ device[NormalizeMAC(mac)] # None
  /\ device' = [device EXCEPT ![NormalizeMAC(mac)] = r]
  /\ password' = password
  /\ Written

DeleteDevice(mac) ==
  /\ device[NormalizeMAC(mac)] # None
  /\ device' = [device EXCEPT ![NormalizeMAC(mac)] = None]
  /\ password' = password
  /\ Written

WriteUser(u, p) ==
  /\ password[u] # p
  /\ password' = [password EXCEPT ![u] = p]
  /\ device' = device
  /\ Written

--------------------------------------------------------------------------------
(* The phone's request.                                                    *)

Begin ==
  /\ fetch.at \notin {"device", "password"}
  /\ fetch' = [NoFetch EXCEPT !.at = "device"]
  /\ quiet' = TRUE
  /\ bound' = Bound(device)
  /\ valid' = Valid(password)
  /\ UNCHANGED <<device, password, writes>>

Fetches(state) ==
  /\ fetch' = state
  /\ UNCHANGED <<device, password, quiet, bound, valid, writes>>

GetDevice ==
  /\ fetch.at = "device"
  /\ LET d == device[NormalizeMAC("plain")]
     IN  Fetches(IF d = None \/ ~d.enabled THEN NotFound
                 ELSE [NoFetch EXCEPT !.at = "password", !.row = d])

GetPassword ==
  /\ fetch.at = "password"
  /\ LET u == fetch.row.user
     IN  Fetches(IF password[u] = None THEN NotFound
                 ELSE [fetch EXCEPT !.at = "served", !.config = <<u, password[u]>>])

\* A query fails: the handler answers 404 as it does when there is no row.
QueryFails ==
  /\ fetch.at \in {"device", "password"}
  /\ Fetches([NoFetch EXCEPT !.at = "failed"])

Next ==
  \/ \E mac \in Spellings, r \in Row : CreateDevice(mac, r) \/ UpdateDevice(mac, r)
  \/ \E mac \in Spellings : DeleteDevice(mac)
  \/ \E u \in Users, p \in Passwords \cup {None} : WriteUser(u, p)
  \/ Begin \/ GetDevice \/ GetPassword \/ QueryFails

Spec == Init /\ [][Next]_vars

--------------------------------------------------------------------------------
(* Properties.                                                             *)

\* What a phone is given is the password, at some time during its request, of
\* a user that its device was bound to, enabled, at some time during it; and
\* if nothing is written meanwhile it is given exactly that, however its MAC
\* was spelled when the device was registered (devices.go:13-17, 99-119).
PhoneServed ==
  /\ fetch.at = "served" => fetch.config[1] \in bound /\ fetch.config \in valid
  /\ fetch.at = "not found" /\ quiet => \A u \in bound, p \in Passwords : <<u, p>> \notin valid
================================================================================
