--------------------------- MODULE AccountLedger ---------------------------
(***************************************************************************)
(* What adding a user promises an administrator, without the statements,   *)
(* retries, restarts and browsers of module UserAdmin.                     *)
(*                                                                         *)
(*  - A post adds its account in one moment, never after a definite        *)
(*    answer, and with a unique key no other account has the name then.    *)
(*  - "added", with the password, is told in the moment the account gets   *)
(*    that password.                                                       *)
(*  - "exists" is told when there is an account of the name, and like      *)
(*    "invalid" it means that the post never adds one.                     *)
(*  - After "unknown" the account may be there or not, with the password   *)
(*    or the empty one, or may come late.                                  *)
(***************************************************************************)

CONSTANTS Posts, Names, BadNames

VARIABLES
    unique,     \* does the schema keep the user names apart?
    name,       \* name[p]: the user name posted
    row,        \* row[p]: the account post p added, by its password
    told        \* told[p]: what the administrator is told

vars == <<unique, name, row, told>>

Init == /\ unique \in BOOLEAN
        /\ \E n \in Names : name = [p \in Posts |-> n]
        /\ row = [p \in Posts |-> "none"]
        /\ told = [p \in Posts |-> "idle"]

Holders(n) == {p \in Posts : row[p] # "none" /\ name[p] = n}

Ask(p) == /\ told[p] = "idle"
          /\ told' = [told EXCEPT ![p] = "open"]
          /\ \E n \in Names : name' = [name EXCEPT ![p] = n]
          /\ UNCHANGED <<unique, row>>

(* The account is there, with the empty password.                          *)
Born(p) == /\ row[p] = "none"
           /\ name[p] \notin BadNames
           /\ unique => Holders(name[p]) = {}
           /\ row' = [row EXCEPT ![p] = "empty"]

(* It has its password.                                                    *)
Keyed(p) == /\ row[p] = "empty"
            /\ row' = [row EXCEPT ![p] = "set"]

Tell(p, what) == /\ told[p] = "open"
                 /\ told' = [told EXCEPT ![p] = what]
                 /\ UNCHANGED <<unique, name>>

Create(p) == told[p] = "open" /\ Born(p) /\ UNCHANGED <<unique, name, told>>

Announce(p) == Keyed(p) /\ Tell(p, "added")

Refuse(p) == /\ row[p] = "none" /\ UNCHANGED row
             /\ \/ Holders(name[p]) # {} /\ Tell(p, "exists")
                \/ name[p] \in BadNames /\ Tell(p, "invalid")

GiveUp(p) == /\ UNCHANGED row \/ Born(p) \/ Keyed(p)
             /\ Tell(p, "unknown")

Late(p) == /\ told[p] = "unknown"
           /\ Born(p) \/ Keyed(p)
           /\ UNCHANGED <<unique, name, told>>

Crash == /\ told' = [p \in Posts |-> IF told[p] = "open" THEN "unknown" ELSE told[p]]
         /\ UNCHANGED <<unique, name, row>>

Next == \/ \E p \in Posts : Ask(p) \/ Create(p) \/ Announce(p) \/ Refuse(p)
                            \/ GiveUp(p) \/ Late(p)
        \/ Crash

Spec == Init /\ [][Next]_vars
=============================================================================
