------------------------------- MODULE Conference -------------------------------
(***************************************************************************)
(* Conference profiles and rooms, and a call that enters a room:           *)
(* internal/store/conference.go, ConferenceRoomExtension of                *)
(* internal/renderer/conference.go, handleXMLDialplan and                  *)
(* serveConferenceConf of internal/api/xml.go.                             *)
(*                                                                         *)
(* Each write is one statement, with the answer its error is given by      *)
(* writeStoreError; the audit row that follows it is left to Accounts. A   *)
(* call fetches the dialplan, which sends it to conference(name@profile),  *)
(* then conference.conf, where the profile is looked for: two requests,    *)
(* with writes between them.                                               *)
(*                                                                         *)
(* PostgreSQL (external): a statement is atomic; unique keys hold; a       *)
(* profile that a room refers to cannot be deleted.                        *)
(***************************************************************************)
EXTENDS Naturals

CONSTANTS
  ProfileNames,
  RoomNames,
  Places,        \* what a caller dials: a number in a context
  MaxWrites      \* bound: writes

\* Rows. "by" is the write that made the row what it is, 0 for those that were
\* there before.
Writer     == Nat
ProfileRow == [name: ProfileNames, by: Writer]
RoomRow    == [name: RoomNames, place: Places, profile: ProfileNames,
               enabled: BOOLEAN, by: Writer]

VARIABLES
  profiles,      \* table conference_profiles
  rooms,         \* table conference_rooms
  writes,        \* writes made
  answer,        \* of the last write
  pc,            \* where the call is
  room,          \* the room the dialplan sent it to: a set of at most one
  conf,          \* the profiles of its conference.conf
  kept           \* history: its room has been what it was since

vars   == <<profiles, rooms, writes, answer, pc, room, conf, kept>>
tables == <<profiles, rooms>>
caller == <<pc, room, conf>>

HasProfile(n) == \E p \in profiles : p.name = n
Room(n)       == {r \in rooms : r.name = n}
At(p)         == {r \in rooms : r.place = p}

Init ==
  /\ \E P \in SUBSET ProfileNames :
       /\ profiles = {[name |-> p, by |-> 0] : p \in P}
       /\ rooms \in SUBSET [name: RoomNames, place: Places, profile: P,
                            enabled: BOOLEAN, by: {0}]
  /\ \A r, q \in rooms : r.name = q.name \/ r.place = q.place => r = q
  /\ writes = 0
  /\ answer = "none"
  /\ pc = "idle"
  /\ room = {}
  /\ conf = {}
  /\ kept = TRUE

--------------------------------------------------------------------------------
(* Writes.                                                                 *)

Refuse(why) ==
  /\ answer' = why
  /\ UNCHANGED <<tables, writes, caller, kept>>

Commit(P, R) ==
  /\ writes < MaxWrites
  /\ profiles' = P
  /\ rooms' = R
  /\ writes' = writes + 1
  /\ answer' = "ok"
  /\ kept' = (kept /\ room \subseteq R)
  /\ UNCHANGED caller

By == writes + 1

CreateConferenceProfile(n) ==
  \/ HasProfile(n) /\ Refuse("already_exists")
  \/ ~HasProfile(n) /\ Commit(profiles \cup {[name |-> n, by |-> By]}, rooms)

UpdateConferenceProfile(n) ==
  \/ ~HasProfile(n) /\ Refuse("not_found")
  \/ \E p \in profiles :
       /\ p.name = n
       /\ Commit((profiles \ {p}) \cup {[p EXCEPT !.by = By]}, rooms)

DeleteProfileUnless(n, used) ==
  \/ ~HasProfile(n) /\ Refuse("not_found")
  \/ HasProfile(n) /\ used /\ Refuse("conflict")
  \/ HasProfile(n) /\ ~used /\ Commit({p \in profiles : p.name # n}, rooms)

Used(n) == \E r \in rooms : r.profile = n

\* Mutant: nothing keeps a profile.
DeleteProfileAnyway(n) == DeleteProfileUnless(n, FALSE)

DeleteConferenceProfile(n) == DeleteProfileUnless(n, Used(n))

\* What a request asks of a room.
Body == [place: Places, profile: ProfileNames, enabled: BOOLEAN]

RowOf(n, b) ==
  [name |-> n, place |-> b.place, profile |-> b.profile, enabled |-> b.enabled,
   by |-> By]

CreateConferenceRoom(n, b) ==
  LET taken == Room(n) # {} \/ At(b.place) # {}
  IN  \/ taken /\ Refuse("already_exists")
      \/ ~taken /\ ~HasProfile(b.profile) /\ Refuse("not_found")
      \/ ~taken /\ HasProfile(b.profile) /\ Commit(profiles, rooms \cup {RowOf(n, b)})

\* The name stays. A unique violation is not mapped: the API answers with 500.
UpdateConferenceRoom(n, b) ==
  LET taken == At(b.place) \ Room(n) # {}
  IN  \/ Room(n) = {} /\ Refuse("not_found")
      \/ Room(n) # {} /\ taken /\ Refuse("internal_error")
      \/ Room(n) # {} /\ ~taken /\ ~HasProfile(b.profile) /\ Refuse("not_found")
      \/ /\ Room(n) # {} /\ ~taken /\ HasProfile(b.profile)
         /\ Commit(profiles, (rooms \ Room(n)) \cup {RowOf(n, b)})

DeleteConferenceRoom(n) ==
  \/ Room(n) = {} /\ Refuse("not_found")
  \/ Room(n) # {} /\ Commit(profiles, rooms \ Room(n))

--------------------------------------------------------------------------------
(* The call.                                                               *)

\* The extensions the dialplan has for what is dialled.
Extensions(p) == {r \in At(p) : r.enabled}

\* ListConferenceRooms, for the dialplan; without a room for it, the call is
\* not for a conference.
Dial(p) ==
  /\ pc = "idle"
  /\ \/ Extensions(p) = {} /\ pc' = "elsewhere" /\ room' = {}
     \/ \E r \in Extensions(p) : pc' = "conference.conf" /\ room' = {r}
  /\ UNCHANGED <<tables, writes, answer, conf, kept>>

\* ListConferenceProfiles; without profiles FreeSWITCH uses its files.
FetchConf ==
  /\ pc = "conference.conf"
  /\ \/ profiles = {} /\ pc' = "files"
     \/ profiles # {} /\ pc' = "served"
  /\ conf' = profiles
  /\ UNCHANGED <<tables, writes, answer, room, kept>>

\* A query fails: FreeSWITCH is told to use its files.
QueryFails ==
  /\ \/ pc = "idle" /\ pc' = "elsewhere"
     \/ pc = "conference.conf" /\ pc' = "failed"
  /\ UNCHANGED <<tables, writes, answer, room, conf, kept>>

Write ==
  \/ \E n \in ProfileNames :
       \/ CreateConferenceProfile(n) \/ UpdateConferenceProfile(n)
       \/ DeleteConferenceProfile(n)
  \/ \E n \in RoomNames :
       \/ \E b \in Body : CreateConferenceRoom(n, b) \/ UpdateConferenceRoom(n, b)
       \/ DeleteConferenceRoom(n)

Call == FetchConf \/ QueryFails \/ \E p \in Places : Dial(p)

Next == Write \/ Call

Spec == Init /\ [][Next]_vars

--------------------------------------------------------------------------------
(* Properties.                                                             *)

TypeOK ==
  /\ profiles \subseteq ProfileRow
  /\ rooms \subseteq RoomRow
  /\ writes \in Writer
  /\ answer \in {"none", "ok", "already_exists", "not_found", "conflict",
                "internal_error"}
  /\ pc \in {"idle", "conference.conf", "served", "files", "elsewhere", "failed"}
  /\ room \subseteq RoomRow
  /\ conf \subseteq ProfileRow
  /\ kept \in BOOLEAN

\* However creations, moves and deletions cross, each room has a profile that
\* exists, a name of its own, and a number of its own in its context: a call is
\* sent to one room.
RoomsResolve ==
  /\ \A r \in rooms : HasProfile(r.profile)
  /\ \A p, q \in profiles : p.name = q.name => p = q
  /\ \A r, q \in rooms : r.name = q.name \/ r.place = q.place => r = q

\* A call that was sent to a room finds the room's profile in conference.conf,
\* though the two come from different requests, unless the room was changed or
\* deleted in between.
CallFindsProfile ==
  pc \in {"served", "files"} /\ kept =>
    \A r \in room : \E p \in conf : p.name = r.profile
================================================================================
