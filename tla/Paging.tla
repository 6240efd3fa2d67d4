-------------------------------- MODULE Paging ---------------------------------
(***************************************************************************)
(* How the pages of a list are cut: getAlerts, getClassifiedAlerts,        *)
(* getSearch and getPagedSingleHostAutoruns, and an analyst who leafs      *)
(* through one of their lists while other analysts classify and the        *)
(* analysis server writes.                                                 *)
(*                                                                         *)
(* A page is asked for by its number, one more or one less than the number *)
(* in the page the browser shows, which may be old.  The query asks for    *)
(* one row more than a page has, to learn whether there is a next page.    *)
(*                                                                         *)
(* The two lists of alerts are cut by a subquery that has no ORDER BY; its *)
(* rows are sorted by timestamp afterwards, and the last of the sorted     *)
(* rows is the one dropped.  PostgreSQL scans the table as it was written. *)
(* The other lists are sorted before they are cut, with ties in any order, *)
(* a different one for every query if it likes.                            *)
(***************************************************************************)
EXTENDS Integers, FiniteSets

CONSTANTS
    Alerts,         \* the rows the analysis server writes
    Stamp,          \* Stamp[a]: the column the list is sorted by
    Views,          \* the lists that may be leafed through, see `view`
    PageSizes,      \* values of num_recs_per_page: 10 .. 1000
    Tidy,           \* are rows written in the strict order of Stamp?
    MaxMarks,       \* classifications the schema allows of one alert
    MaxChanges      \* bound: classifications, unclassifications, replaced rows

ASSUME RowsAssumption == IsFiniteSet(Alerts) /\ Stamp \in [Alerts -> Nat]

ASSUME ViewsAssumption == Views \subseteq {"alerts", "classified", "sorted"} /\ Views # {}

ASSUME SizesAssumption == PageSizes \subseteq Nat \ {0} /\ PageSizes # {}

ASSUME BoundsAssumption ==
    Tidy \in BOOLEAN /\ MaxMarks \in Nat \ {0} /\ MaxChanges \in Nat

VARIABLES
    view,       \* the list: "alerts", "classified", "sorted" (search, single host)
    written,    \* written[a]: the place of a in the table, 0 if not yet written;
                \* 1 in a sorted list, which does not depend on the place
    marks,      \* marks[a]: how often a is classified; an autorun: 1 if replaced
    changes,    \* classifications, unclassifications, replaced rows so far
    pc,         \* "page": the browser shows one; "asked": it waits for one
    page,       \* current_page_num of the page shown
    size,       \* num_recs_per_page of the page shown
    ask,        \* page and size the browser waits for
    shown,      \* the rows on the page
    noMore,     \* no_more_records: the page has no Next button
    fresh,      \* history: the list is as it was when the page was made
    walked,     \* history: rows shown since the first page was
    staying,    \* history: rows of the list ever since then
    gone        \* history: entries the list has lost since then

list == <<view, written, marks, changes>>
answer == <<page, size, shown, noMore>>
walk == <<walked, staying, gone>>
vars == <<view, written, marks, changes, pc, page, size, ask, shown, noMore, fresh, walked, staying, gone>>

Rows == {a \in Alerts : written[a] # 0}

TypeOK ==
    /\ view \in Views
    /\ written \in [Alerts -> Nat]
    /\ \A a, b \in Rows :
          /\ written[a] <= Cardinality(Rows)
          /\ a # b /\ view # "sorted" => written[a] # written[b]
    /\ marks \in [Alerts -> 0 .. MaxMarks]
    /\ changes \in 0 .. MaxChanges
    /\ pc \in {"page", "asked"}
    /\ page \in Nat /\ size \in PageSizes
    /\ ask \in [page : Nat, size : PageSizes]
    /\ shown \subseteq Rows
    /\ noMore \in BOOLEAN /\ fresh \in BOOLEAN
    /\ walked \subseteq Rows /\ staying \subseteq Rows
    /\ gone \in Nat

Init ==
    /\ view \in Views
    /\ written = [a \in Alerts |-> 0]
    /\ marks = [a \in Alerts |-> 0]
    /\ changes = 0
    /\ pc = "page" /\ page = 0 /\ size \in PageSizes
    /\ ask = [page |-> 0, size |-> size]
    /\ shown = {} /\ noMore = TRUE /\ fresh = FALSE
    /\ walked = {} /\ staying = {} /\ gone = 0

--------------------------------------------------------------------------------
(* The lists: what a query finds before LIMIT and OFFSET.                  *)

(* How often row a is in the list: an alert joined with its                *)
(* classifications is one row for each of them.  In a sorted list a row is *)
(* an autorun, until an import replaces it.                                *)
Entries(a) ==
    CASE view = "classified" -> marks[a]
      [] view \in {"alerts", "sorted"} -> IF marks[a] = 0 THEN 1 ELSE 0

Listed == {a \in Rows : Entries(a) > 0}
List == {e \in Listed \X (1 .. MaxMarks) : e[2] <= Entries(e[1])}

(* The orders in which the query may find its rows.                        *)
Orders ==
    IF view = "sorted"
    THEN {o \in [Rows -> 1 .. Cardinality(Rows)] :
             \A a, b \in Rows : a # b => o[a] # o[b] /\ (Stamp[a] < Stamp[b] => o[a] < o[b])}
    ELSE {[a \in Rows |-> written[a]]}

Before(o, d, e) == o[d[1]] < o[e[1]] \/ (d[1] = e[1] /\ d[2] < e[2])
Index(o, e) == Cardinality({d \in List : Before(o, d, e)})

(* Fault: as many rows as the page has. *)
Cut_NoExtra(o) ==
    {e \in List : Index(o, e) \in ask.size * ask.page .. ask.size * (ask.page + 1) - 1}

(* LIMIT numRecsPerPage + 1 OFFSET numRecsPerPage * currentPageNumber      *)
Cut(o) == {e \in List : Index(o, e) \in ask.size * ask.page .. ask.size * (ask.page + 1)}

(* data: the rows the handler gets for the cut c.  The classified list     *)
(* joins the classifications a second time.                                *)
Data(c) ==
    {d \in c \X (1 .. MaxMarks) : d[2] <= IF view = "classified" THEN marks[d[1][1]] ELSE 1}

(* Fault: the first of the rows is the one dropped. *)
Dropped_First(o, data) ==
    {d \in data : \A x \in data : IF view = "sorted" THEN ~Before(o, x[1], d[1])
                                  ELSE Stamp[d[1][1]] <= Stamp[x[1][1]]}

(* The rows that may be the last of data: ties are in any order.           *)
Dropped(o, data) ==
    {d \in data : \A x \in data : IF view = "sorted" THEN ~Before(o, d[1], x[1])
                                  ELSE Stamp[x[1][1]] <= Stamp[d[1][1]]}

RowsOf(data) == {d[1][1] : d \in data}

--------------------------------------------------------------------------------
(* The browser and its handler.                                            *)

(* Fault: Next counts twice, in the page and in the handler. *)
Turned_Jump(mode) == IF mode = "next" THEN page + 2 ELSE IF mode = "previous" THEN page - 1 ELSE 0

(* processCurrentPageNumber, of the number the shown page carries. *)
Turned(mode) ==
    CASE mode = "next" -> page + 1
      [] mode = "previous" -> page - 1
      [] OTHER -> 0

(* Fault: the first page has a Previous button too. *)
Click_AlwaysPrevious(mode) ==
    /\ pc = "page"
    /\ mode = "next" => ~noMore
    /\ pc' = "asked"
    /\ ask' = [page |-> Turned(mode), size |-> size]
    /\ UNCHANGED <<list, answer, fresh, walk>>

(* A click on a button the page has.  "classify" and "unclassify" answer   *)
(* with the first page, like a fresh GET; what they change is Mark and     *)
(* Unmark, the doing of any analyst.                                       *)
Click(mode) ==
    /\ pc = "page"
    /\ mode = "next" => ~noMore
    /\ mode = "previous" => page # 0 /\ (view = "sorted" => shown # {})
    /\ pc' = "asked"
    /\ ask' = [page |-> Turned(mode), size |-> size]
    /\ UNCHANGED <<list, answer, fresh, walk>>

(* The drop down of the page sizes posts "first" with it. *)
Resize ==
    /\ pc = "page"
    /\ pc' = "asked"
    /\ \E k \in PageSizes : ask' = [page |-> 0, size |-> k]
    /\ UNCHANGED <<list, answer, fresh, walk>>

(* What the page adds to the walk that began with the last first page. *)
Walked(rows) ==
    \/ /\ ask.page = 0
       /\ walked' = rows /\ staying' = Listed /\ gone' = 0
    \/ /\ ask.page # 0
       /\ walked' = walked \cup rows
       /\ UNCHANGED <<staying, gone>>

(* The query, and the page made of it. *)
Read ==
    /\ pc = "asked"
    /\ \E o \in Orders :
          LET data == Data(Cut(o))
          IN  \/ /\ Cardinality(data) < ask.size + 1
                 /\ noMore' = TRUE
                 /\ shown' = RowsOf(data)
              \/ /\ Cardinality(data) >= ask.size + 1
                 /\ noMore' = FALSE
                 /\ \E last \in Dropped(o, data) : shown' = RowsOf(data \ {last})
    /\ page' = ask.page /\ size' = ask.size
    /\ Walked(shown')
    /\ pc' = "page"
    /\ fresh' = TRUE
    /\ UNCHANGED <<list, ask>>

(* The query fails: an empty answer, and the analyst goes back to the page *)
(* before.                                                                 *)
ReadFails ==
    /\ pc = "asked"
    /\ pc' = "page"
    /\ UNCHANGED <<list, answer, ask, fresh, walk>>

--------------------------------------------------------------------------------
(* The others.                                                             *)

Place == IF view = "sorted" THEN 1 ELSE Cardinality(Rows) + 1

(* The analysis server writes a row. *)
Arrive(a) ==
    /\ a \notin Rows
    /\ Tidy => \A b \in Rows : IF view = "sorted" THEN Stamp[b] # Stamp[a] ELSE Stamp[b] < Stamp[a]
    /\ written' = [written EXCEPT ![a] = Place]
    /\ fresh' = FALSE
    /\ UNCHANGED <<view, marks, changes, pc, answer, ask, walk>>

(* The number n of a's entries changes: a leaves the list, or joins it. *)
Marked(a, n) ==
    /\ changes < MaxChanges
    /\ changes' = changes + 1
    /\ UNCHANGED view
    /\ marks' = [marks EXCEPT ![a] = n]
    /\ fresh' = FALSE
    /\ staying' = {b \in staying : Entries(b)' > 0}
    /\ gone' = gone + (IF Entries(a)' < Entries(a) THEN Entries(a) - Entries(a)' ELSE 0)
    /\ UNCHANGED <<written, pc, answer, ask, walked>>

(* An analyst, this or another, classifies a: see Classification. *)
Mark(a) ==
    /\ view # "sorted" /\ a \in Rows /\ marks[a] < MaxMarks
    /\ Marked(a, marks[a] + 1)

(* An analyst unclassifies a, however often it was classified. *)
Unmark(a) ==
    /\ view # "sorted" /\ a \in Rows /\ marks[a] > 0
    /\ Marked(a, 0)

(* An import takes row a of its host out of current_autoruns.  What it     *)
(* writes instead are new rows, in a single host's list none, as it goes   *)
(* by the instance: see SingleHost.                                        *)
Replace(a) ==
    /\ view = "sorted" /\ a \in Rows /\ marks[a] = 0
    /\ Marked(a, 1)

--------------------------------------------------------------------------------

Next ==
    \/ \E mode \in {"first", "next", "previous"} : Click(mode)
    \/ Resize
    \/ Read \/ ReadFails
    \/ \E a \in Alerts : Arrive(a) \/ Mark(a) \/ Unmark(a) \/ Replace(a)

Spec == Init /\ [][Next]_vars

--------------------------------------------------------------------------------
(* Properties                                                              *)

(* Whoever leafs from the first page to the last sees every row that was   *)
(* in the list all the time, but for at most one row for each entry the    *)
(* list lost meanwhile: an offset skips what moves up over a page's edge,  *)
(* and nothing else.                                                       *)
MissedBounded ==
    pc = "page" /\ noMore => Cardinality(staying \ walked) <= gone

(* As long as the list does not change, a page has a Next button exactly   *)
(* if there is a row behind it, for every list and every page size.        *)
NextIsTrue ==
    pc = "page" /\ fresh => (noMore <=> Cardinality(List) <= size * (page + 1))

(* Somebody who leafs through the list again and again, from the first     *)
(* page to the last, sees every row that stays in it, however the list     *)
(* changed before and whichever queries failed.                            *)
EveryRowSeen ==
    \A a \in Alerts :
        []<>(pc = "page" /\ fresh /\ page = 0) /\ []<>(pc = "page" /\ fresh /\ noMore)
        => (a \in Listed ~> (a \notin Listed \/ (pc = "page" /\ a \in shown)))
================================================================================
