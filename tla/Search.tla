------------------------------- MODULE Search -------------------------------
(***************************************************************************)
(* The search page: the fields and buttons it offers, and what             *)
(* routeSearch makes of the posted form.  The cut of a result is Paging's. *)
(***************************************************************************)
EXTENDS Naturals

CONSTANTS
    Values,     \* search values
    Empty,      \* the search box left empty
    MaxPages    \* bound: pages of a result

VARIABLES
    page,       \* the page in the browser: its fields and its result
    pages,      \* pages[f]: pages of rows that match the fields f now
    pressed     \* the fields posted and the button pressed last

vars == <<page, pages, pressed>>

(* The drop downs are blank (0) or one of their entries, the box may be    *)
(* empty.  One entry of each drop down stands for all.                     *)
Fields == [data : {0, 1}, type : {0, 1}, value : Values \cup {Empty}]
Complete(f) == f.data # 0 /\ f.type # 0 /\ f.value # Empty
NoFields == [data |-> 0, type |-> 0, value |-> Empty]

Modes == {"first", "previous", "next"}
NoMode == "none"
Error500 == [fields |-> NoFields, num |-> 0, hasData |-> FALSE, more |-> FALSE, failed |-> TRUE]

(* The modes a page can post.  The button "Search" has no mode; First,     *)
(* Previous and Next, and the drop downs of records per page, which post   *)
(* "first", are part of the result.                                        *)
Buttons(p) ==
    {NoMode} \cup (IF p.hasData THEN {"first"} ELSE {})
             \cup (IF p.hasData /\ p.num # 0 THEN {"previous"} ELSE {})
             \cup (IF p.hasData /\ p.more THEN {"next"} ELSE {})

Turned(num, mode) == CASE mode = "next" -> num + 1
                       [] mode = "previous" -> num - 1
                       [] OTHER -> 0

(* loadSearchData: an empty page if there is nothing to search for, else   *)
(* the page of the result.                                                 *)
Blank(f, num) == [fields |-> [NoFields EXCEPT !.value = f.value], num |-> num,
             hasData |-> FALSE, more |-> FALSE, failed |-> FALSE]
Result(f, num) ==
    IF ~Complete(f) THEN Blank(f, num)
    ELSE [fields |-> f, num |-> num, hasData |-> num < pages[f],
          more |-> num + 1 < pages[f], failed |-> FALSE]

(* routeSearch *)
Answer(f, mode, num) ==
    IF mode \notin Modes THEN Blank(NoFields, 0)
    ELSE IF f.value = Empty THEN Error500
    ELSE Result(f, Turned(num, mode))

Init == /\ pages \in [{f \in Fields : Complete(f)} -> 0 .. MaxPages]
        /\ page = Blank(NoFields, 0)
        /\ pressed = [fields |-> NoFields, mode |-> NoMode]

(* The analyst fills in the fields, or leaves them, and presses a button   *)
(* (or Enter, which presses the first one, "Search").                      *)
Press(f, mode) ==
    /\ ~page.failed
    /\ mode \in Buttons(page)
    /\ pressed' = [fields |-> f, mode |-> mode]
    /\ page' = Answer(f, mode, page.num)
    /\ UNCHANGED pages

(* The link "Search" in the menu.                                          *)
OpenMenu == /\ page' = Blank(NoFields, 0)
            /\ pressed' = [fields |-> NoFields, mode |-> NoMode]
            /\ UNCHANGED pages

(* Rows that match appear or disappear.                                    *)
Change(f) == \E n \in 0 .. MaxPages : /\ pages' = [pages EXCEPT ![f] = n]
                                      /\ UNCHANGED <<page, pressed>>

Next == \/ \E f \in Fields, mode \in Modes \cup {NoMode} : Press(f, mode)
        \/ OpenMenu
        \/ \E f \in DOMAIN pages : Change(f)

Spec == Init /\ [][Next]_vars

(* "The Search view permits simple searching of the Alert/Autorun data":   *)
(* who has filled in data, type and value and pressed a button gets the    *)
(* answer of that search, rows or none, and not an empty form.             *)
SearchSearches == Complete(pressed.fields) => page.fields = pressed.fields
=============================================================================
