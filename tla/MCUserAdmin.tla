---------------------------- MODULE MCUserAdmin ----------------------------
(* Three posts of two administrators, of a good name and a refused one.    *)
(* Posts differ in nothing but what they do, so their names are exchanged  *)
(* freely; administrators do not, as one of them is chosen in Init.        *)
EXTENDS UserAdmin, TLC

SamePosts == Permutations(Posts)
=============================================================================
