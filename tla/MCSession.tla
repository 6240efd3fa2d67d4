----------------------------- MODULE MCSession -----------------------------
(* Two tabs of one browser or of two, two accounts, one an administrator's. *)
EXTENDS Session

CONSTANTS b1, t1

(* The browsers are alike: the first tab may as well be the first one's.   *)
MCInit == Init /\ browser[t1] = b1
MCSpec == MCInit /\ [][Next]_vars /\ Fairness
=============================================================================
