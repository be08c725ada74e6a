------------------------------- MODULE MCAccounts -------------------------------
(* Accounts for TLC.                                                       *)
EXTENDS Accounts

CONSTANTS n1, u1

OneName   == {n1}
OneNumber == {u1}
================================================================================
