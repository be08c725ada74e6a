-------------------------------- MODULE Catalog --------------------------------
(***************************************************************************)
(* Callcenter and Conference side by side. They share no table and no      *)
(* document: a step of one commutes with every step of the other, so       *)
(* behaviours that exercise one of them show what all behaviours do.       *)
(* "part" is the one a behaviour exercises; the one that rests is empty.   *)
(***************************************************************************)
EXTENDS Callcenter

CONSTANTS ProfileNames, RoomNames, Places     \* of Conference

VARIABLES
  part,
  profiles, rooms, roomWrites, roomAnswer, callPc, room, conf, kept

CF == INSTANCE Conference WITH writes <- roomWrites, answer <- roomAnswer, pc <- callPc

conference == <<profiles, rooms, roomWrites, roomAnswer, callPc, room, conf, kept>>

CatalogInit ==
  /\ Init /\ CF!Init
  /\ part \in {"callcenter", "conference"}
  /\ part # "callcenter" => db = Nothing
  /\ part # "conference" => profiles = {}

CatalogNext ==
  /\ part' = part
  /\ \/ part = "callcenter" /\ Next /\ UNCHANGED conference
     \/ part = "conference" /\ CF!Next /\ UNCHANGED vars

CatalogSpec == CatalogInit /\ [][CatalogNext]_<<part, vars, conference>>

\* The property of Conference, in that module's words.
CallFindsProfile == CF!CallFindsProfile
================================================================================
