--------------------------- MODULE SessionLedger ---------------------------
(***************************************************************************)
(* What the sessions promise, without the requests, tabs, redirects and    *)
(* errors of module Session: which cookies are in circulation in a browser *)
(* (in its jar, with a request, in an answer), and what may be done to the *)
(* rows with them.                                                         *)
(*                                                                         *)
(*  - A cookie is issued to who has passed the lock on the way to a right  *)
(*    password, with the flag his row had then, or in exchange for one of  *)
(*    the same user and browser whose row says the second factor is set.   *)
(*  - The second factor is set only for the user of a cookie in            *)
(*    circulation, an account locked only by who found it open.            *)
(*  - Cookies do not pass from browser to browser, and may get lost.       *)
(***************************************************************************)

CONSTANTS Browsers, Users

VARIABLES
    users,      \* the rows
    held,       \* held[b]: the cookies in circulation in browser b
    passing     \* passing[b]: those its log-ons are about to be issued

vars == <<users, held, passing>>

Init == /\ users \in [Users -> [mfa : BOOLEAN, locked : {FALSE}]]
        /\ held = [b \in Browsers |-> {}]
        /\ passing = [b \in Browsers |-> {}]

(* What each browser has is what it had at most, and cookie c in b.        *)
Gains(new, old, b, c) ==
    \A a \in Browsers : new[a] \subseteq (IF a = b THEN old[a] \cup {c} ELSE old[a])
Drops(new, old) == \A a \in Browsers : new[a] \subseteq old[a]

(* A log-on finds the account open.                                        *)
Find(b, u) == /\ ~users[u].locked
              /\ Gains(passing', passing, b, [user |-> u, mfa |-> users[u].mfa])
              /\ Drops(held', held)
              /\ UNCHANGED users

(* The right password.                                                     *)
Issue(b, c) == /\ c \in passing[b]
               /\ Gains(held', held, b, c)
               /\ Drops(passing', passing)
               /\ UNCHANGED users

(* One wrong password too many.                                            *)
Lock(b, c) == /\ c \in passing[b]
              /\ users' = [users EXCEPT ![c.user].locked = TRUE]
              /\ Drops(held', held) /\ Drops(passing', passing)

(* The right code.                                                         *)
Enrol(b, c) == /\ c \in held[b]
               /\ users' = [users EXCEPT ![c.user].mfa = TRUE]
               /\ Drops(held', held) /\ Drops(passing', passing)

Exchange(b, c) == /\ c \in held[b] /\ users[c.user].mfa
                  /\ Gains(held', held, b, [c EXCEPT !.mfa = TRUE])
                  /\ Drops(passing', passing)
                  /\ UNCHANGED users

(* Cookies are replaced, expire or get lost, and log-ons fail.             *)
Drop == Drops(held', held) /\ Drops(passing', passing) /\ UNCHANGED users

Next == \/ Drop
        \/ \E b \in Browsers : \/ \E u \in Users : Find(b, u)
                               \/ \E c \in passing[b] : Issue(b, c) \/ Lock(b, c)
                               \/ \E c \in held[b] : Enrol(b, c) \/ Exchange(b, c)

Spec == Init /\ [][Next]_vars
=============================================================================
