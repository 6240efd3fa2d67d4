---------------------------- MODULE SearchProofs ----------------------------
(***************************************************************************)
(* What becomes of every search, for any values, rows and page counts.     *)
(***************************************************************************)
EXTENDS Search, TLAPS

(* The page of the first visit, with no result and no field filled in.     *)
NothingSearched == page = Blank(NoFields, 0)

(* The only button such a page has is "Search".                            *)
LEMMA OnlySearchButton == NothingSearched => Buttons(page) = {NoMode}
BY DEF NothingSearched, Blank, Buttons

(* No sequence of clicks, with whatever filled in, starts a search: the    *)
(* button of the first page posts no mode, routeSearch answers that with   *)
(* the first page (routes.go:31-38), and every other button is part of a   *)
(* result (templates/search.html:75-85).                                   *)
THEOREM SearchNeverStarts == Spec => []NothingSearched
<1>1. Init => NothingSearched
  BY DEF Init, NothingSearched
<1>2. NothingSearched /\ [Next]_vars => NothingSearched'
  <2> SUFFICES ASSUME NothingSearched, [Next]_vars PROVE NothingSearched'
    OBVIOUS
  <2>1. ASSUME NEW f \in Fields, NEW mode \in Modes \cup {NoMode}, Press(f, mode)
        PROVE  NothingSearched'
    <3>1. mode = NoMode /\ page' = Answer(f, mode, page.num)
      BY <2>1, OnlySearchButton DEF Press
    <3> QED BY <3>1 DEF Answer, Modes, NoMode, NothingSearched
  <2>2. CASE OpenMenu
    BY <2>2 DEF OpenMenu, NothingSearched
  <2>3. ASSUME NEW f, Change(f)
        PROVE  NothingSearched'
    BY <2>3 DEF Change, NothingSearched
  <2>4. CASE UNCHANGED vars
    BY <2>4 DEF vars, NothingSearched
  <2> QED BY <2>1, <2>2, <2>3, <2>4 DEF Next
<1> QED BY <1>1, <1>2, PTL DEF Spec
=============================================================================
