---------------------------------- MODULE Store ----------------------------------
(***************************************************************************)
(* DialplanStore and Provision side by side: two reads of several queries  *)
(* with no transaction around them. They share no table: a behaviour       *)
(* exercises one of them, "part", while the other rests.                   *)
(***************************************************************************)
EXTENDS DialplanStore

CONSTANTS Users, Passwords, MaxWrites     \* of Provision

VARIABLES
  part,
  device, password, fetch, quiet, bound, valid, writes

PR == INSTANCE Provision

phone == <<device, password, fetch, quiet, bound, valid, writes>>

StoreInit ==
  /\ Init /\ PR!Init
  /\ part \in {"dialplan", "phone"}
  /\ part = "dialplan" => \A u \in Users : password[u] = None

StoreNext ==
  /\ part' = part
  /\ \/ part = "dialplan" /\ Next /\ UNCHANGED phone
     \/ part = "phone" /\ PR!Next /\ UNCHANGED vars

StoreSpec == StoreInit /\ [][StoreNext]_<<part, vars, phone>> /\ Fairness

\* The property of Provision, in that module's words.
PhoneServed == PR!PhoneServed
================================================================================
