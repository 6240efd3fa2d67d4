------------------------------- MODULE MCLogon --------------------------------
(***************************************************************************)
(* Instances of Logon.  Accounts do not touch each other's rows, so one is *)
(* enough.                                                                 *)
(***************************************************************************)
EXTENDS Logon

CONSTANTS h1, h2, h3, u1
===============================================================================
