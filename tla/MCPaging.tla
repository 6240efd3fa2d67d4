------------------------------- MODULE MCPaging --------------------------------
(***************************************************************************)
(* Instances of Paging: four rows, pages of one, two or three.             *)
(***************************************************************************)
EXTENDS Paging, TLC

CONSTANTS a1, a2, a3, a4

(* a2 and a3 were written in the same second. *)
Seconds == (a1 :> 1) @@ (a2 :> 2) @@ (a3 :> 2) @@ (a4 :> 3)

(* All in seconds of their own. *)
Distinct == (a1 :> 1) @@ (a2 :> 2) @@ (a3 :> 3) @@ (a4 :> 4)
================================================================================
