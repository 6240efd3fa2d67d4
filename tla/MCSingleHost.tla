----------------------------- MODULE MCSingleHost ------------------------------
(***************************************************************************)
(* Instances of SingleHost: two machines called PC1 in two domains, one    *)
(* that writes its name pc1, and one called PC10.                          *)
(***************************************************************************)
EXTENDS SingleHost, TLC

CONSTANTS here, there, small, ten, PC1, pc1, PC10, XYZ

NameOf == (here :> PC1) @@ (there :> PC1) @@ (small :> pc1) @@ (ten :> PC10)

LowerOf == (PC1 :> pc1) @@ (pc1 :> pc1) @@ (PC10 :> PC10)

(* LIKE tells upper from lower case.  PC1 is part of two names, XYZ of     *)
(* none.                                                                   *)
Names == (PC1 :> {PC1, PC10}) @@ (pc1 :> {pc1}) @@ (PC10 :> {PC10}) @@ (XYZ :> {})

(* The two domains are alike.                                              *)
Domains == Permutations({here, there})
================================================================================
