------------------------------ MODULE PagingProofs -----------------------------
(***************************************************************************)
(* Theorems of Paging, for any number of rows, any page sizes and any      *)
(* number of changes: the cut of a page leaves out no row, neither when    *)
(* nothing changes nor, but for those an entry that left has moved up over *)
(* its edge, when something does.                                          *)
(***************************************************************************)
EXTENDS Paging, FiniteSetTheorems, TLAPS

(* A list with one entry for each of its rows: the classified one has it   *)
(* if the schema allows one classification of an alert.                    *)
OneEach == MaxMarks = 1 \/ "classified" \notin Views

--------------------------------------------------------------------------------
(* Types                                                                   *)

LEMMA RowsFinite == IsFiniteSet(Rows) /\ Cardinality(Rows) \in Nat
<1>1. Rows \in SUBSET Alerts
  BY DEF Rows
<1> QED BY <1>1, RowsAssumption, FS_Subset, FS_CardinalityType

LEMMA EntriesType == ASSUME TypeOK, NEW a \in Rows PROVE Entries(a) \in 0 .. MaxMarks
BY ViewsAssumption, BoundsAssumption DEF TypeOK, Entries, Rows

LEMMA ListFinite ==
    ASSUME TypeOK
    PROVE  /\ IsFiniteSet(Listed) /\ Cardinality(Listed) \in Nat
           /\ IsFiniteSet(List) /\ Cardinality(List) \in Nat
<1>1. IsFiniteSet(Listed)
  BY RowsFinite, FS_Subset DEF Listed
<1>2. IsFiniteSet(1 .. MaxMarks)
  BY BoundsAssumption, FS_Interval
<1>3. IsFiniteSet(Listed \X (1 .. MaxMarks))
  BY <1>1, <1>2, FS_Product
<1>4. IsFiniteSet(List)
  BY <1>3, FS_Subset DEF List
<1> QED BY <1>1, <1>4, FS_CardinalityType

(* Pages show rows of the list. *)
LEMMA RowsShown == ASSUME NEW o, NEW D, D \subseteq Data(Cut(o)) PROVE RowsOf(D) \subseteq Listed
BY DEF RowsOf, Data, Cut, List

LEMMA TypeInit == Init => TypeOK
<1> SUFFICES ASSUME Init PROVE TypeOK
  OBVIOUS
<1>1. Rows = {}
  BY DEF Init, Rows
<1>2. 0 \in 0 .. MaxMarks /\ 0 \in 0 .. MaxChanges
  BY BoundsAssumption
<1> QED BY <1>1, <1>2 DEF Init, TypeOK

LEMMA ReadType == ASSUME TypeOK, Read PROVE TypeOK'
<1>1. shown' \subseteq Rows /\ noMore' \in BOOLEAN
  <2> SUFFICES ASSUME NEW o \in Orders,
                      \/ noMore' = TRUE /\ shown' = RowsOf(Data(Cut(o)))
                      \/ noMore' = FALSE /\ \E last \in Dropped(o, Data(Cut(o))) :
                                               shown' = RowsOf(Data(Cut(o)) \ {last})
               PROVE  shown' \subseteq Rows /\ noMore' \in BOOLEAN
    BY DEF Read
  <2>1. Listed \subseteq Rows
    BY DEF Listed
  <2> QED BY <2>1, RowsShown
<1>2. UNCHANGED <<view, written, marks, changes, ask>> /\ page' = ask.page /\ size' = ask.size
      /\ pc' = "page" /\ fresh' = TRUE
  BY DEF Read, list
<1>3. walked' \subseteq Rows /\ staying' \subseteq Rows /\ gone' \in Nat
  BY <1>1 DEF Read, Walked, TypeOK, Listed
<1>4. Rows' = Rows
  BY <1>2 DEF Rows
<1>5. ask.page \in Nat /\ ask.size \in PageSizes
  BY DEF TypeOK
<1>6. written' = written /\ ask' = ask /\ marks' = marks
  BY <1>2
<1>7. (\A a, b \in Rows : /\ written[a] <= Cardinality(Rows)
                          /\ a # b /\ view # "sorted" => written[a] # written[b])'
  BY <1>2, <1>4, <1>6 DEF TypeOK
<1>8. /\ (view \in Views)' /\ (written \in [Alerts -> Nat])'
      /\ (marks \in [Alerts -> 0 .. MaxMarks])' /\ (changes \in 0 .. MaxChanges)'
      /\ (ask \in [page : Nat, size : PageSizes])' /\ page' \in Nat /\ size' \in PageSizes
  BY <1>2, <1>5, <1>6 DEF TypeOK
<1>9. /\ (pc \in {"page", "asked"})' /\ (fresh \in BOOLEAN)' /\ (noMore \in BOOLEAN)'
      /\ (shown \subseteq Rows)' /\ (walked \subseteq Rows)' /\ (staying \subseteq Rows)'
  BY <1>1, <1>2, <1>3, <1>4
<1> QED BY <1>3, <1>7, <1>8, <1>9, Zenon DEF TypeOK

LEMMA ArriveType == ASSUME TypeOK, NEW a \in Alerts, Arrive(a) PROVE TypeOK'
<1>1. Rows' = Rows \cup {a} /\ a \notin Rows
  <2>1. a \notin Rows /\ written' = [written EXCEPT ![a] = Place]
    BY DEF Arrive
  <2>2. Place # 0
    BY RowsFinite DEF Place
  <2>3. written \in [Alerts -> Nat]
    BY DEF TypeOK
  <2>4. \A b \in Alerts : written'[b] # 0 <=> (b = a \/ written[b] # 0)
    BY <2>1, <2>2, <2>3
  <2> QED BY <2>1, <2>4 DEF Rows
<1>2. Cardinality(Rows') = Cardinality(Rows) + 1
  BY <1>1, RowsFinite, FS_AddElement
<1>3. written' \in [Alerts -> Nat]
  BY RowsFinite DEF Arrive, TypeOK, Place
<1>4. \A b, c \in Rows' : /\ written'[b] <= Cardinality(Rows')
                          /\ b # c /\ view # "sorted" => written'[b] # written'[c]
  <2>1. \A b \in Rows : b \in Alerts /\ b # a /\ written'[b] = written[b] /\ written[b] \in Nat
    BY <1>1 DEF Arrive, TypeOK, Rows
  <2>2. written'[a] = IF view = "sorted" THEN 1 ELSE Cardinality(Rows) + 1
    BY DEF Arrive, TypeOK, Place
  <2>3. \A b, c \in Rows : /\ written[b] <= Cardinality(Rows)
                           /\ b # c /\ view # "sorted" => written[b] # written[c]
    BY DEF TypeOK
  <2> QED BY <1>1, <1>2, <2>1, <2>2, <2>3, RowsFinite
<1>5. UNCHANGED <<view, marks, changes, pc, page, size, shown, noMore, ask, walked, staying, gone>>
      /\ fresh' = FALSE
  BY DEF Arrive, answer, walk
<1> QED BY <1>1, <1>3, <1>4, <1>5 DEF TypeOK

LEMMA MarkType == ASSUME TypeOK, NEW a \in Alerts, Mark(a) \/ Unmark(a) \/ Replace(a) PROVE TypeOK'
<1>1. PICK n \in 0 .. MaxMarks : Marked(a, n) /\ a \in Rows
  BY BoundsAssumption DEF Mark, Unmark, Replace, TypeOK
<1>2. UNCHANGED <<view, written, pc, page, size, shown, noMore, ask, walked>>
      /\ changes' = changes + 1 /\ changes < MaxChanges /\ fresh' = FALSE
      /\ marks' = [marks EXCEPT ![a] = n]
  BY <1>1 DEF Marked, answer
<1>3. Rows' = Rows
  BY <1>2 DEF Rows
<1>4. marks' \in [Alerts -> 0 .. MaxMarks] /\ changes' \in 0 .. MaxChanges
  BY <1>2, BoundsAssumption DEF TypeOK
<1>5. staying' \subseteq staying
  BY <1>1 DEF Marked
<1>6. gone' \in Nat
  <2>1. Entries(a) \in Nat /\ gone \in Nat
    BY <1>1, EntriesType, BoundsAssumption DEF TypeOK
  <2>2. Entries(a)' \in Nat
    BY <1>1, <1>2, <1>4, ViewsAssumption, BoundsAssumption DEF TypeOK, Entries
  <2> QED BY <1>1, <2>1, <2>2 DEF Marked
<1> QED BY <1>2, <1>3, <1>4, <1>5, <1>6 DEF TypeOK

LEMMA TypeStep == TypeOK /\ [Next]_vars => TypeOK'
<1> SUFFICES ASSUME TypeOK, [Next]_vars PROVE TypeOK'
  OBVIOUS
<1>1. ASSUME UNCHANGED <<view, written, marks, changes, page, size, shown, noMore, fresh>>,
             UNCHANGED <<walked, staying, gone>>, pc' \in {"page", "asked"},
             ask' \in [page : Nat, size : PageSizes]
      PROVE  TypeOK'
  <2>1. Rows' = Rows
    BY <1>1 DEF Rows
  <2> QED BY <1>1, <2>1 DEF TypeOK
<1>2. ASSUME NEW mode \in {"first", "next", "previous"}, Click(mode) PROVE TypeOK'
  <2>1. Turned(mode) \in Nat
    BY <1>2 DEF Click, Turned, TypeOK
  <2> QED BY <1>1, <1>2, <2>1 DEF Click, list, answer, walk, TypeOK
<1>3. CASE Resize
  BY <1>1, <1>3 DEF Resize, list, answer, walk, TypeOK
<1>4. CASE ReadFails
  BY <1>1, <1>4 DEF ReadFails, list, answer, walk, TypeOK
<1>5. CASE UNCHANGED vars
  BY <1>1, <1>5 DEF vars, TypeOK
<1> QED BY <1>2, <1>3, <1>4, <1>5, ReadType, ArriveType, MarkType DEF Next

(* The variables keep their types: no page number below zero is asked for, *)
(* and a page shows rows of the table.                                     *)
THEOREM PagingTypeCorrect == Spec => []TypeOK
BY TypeInit, TypeStep, PTL DEF Spec
--------------------------------------------------------------------------------
(* Places in a list                                                        *)

(* Places without gaps or ties: every place is taken. *)
LEMMA PlacesTaken ==
    ASSUME NEW S, IsFiniteSet(S), NEW f \in [S -> 0 .. Cardinality(S) - 1],
           \A x, y \in S : x # y => f[x] # f[y],
           NEW k \in 0 .. Cardinality(S) - 1
    PROVE  \E x \in S : f[x] = k
<1> DEFINE T == 0 .. Cardinality(S) - 1
<1>1. Cardinality(S) \in Nat
  BY FS_CardinalityType
<1>2. IsFiniteSet(T) /\ Cardinality(T) = Cardinality(S)
  BY <1>1, FS_Interval
<1>3. f \in Injection(S, T)
  BY DEF Injection, IsInjective
<1>4. f \in Surjection(S, T)
  BY <1>2, <1>3, FS_Injection
<1> QED BY <1>4 DEF Surjection

(* The members of S at the places lo .. lo + n. *)
Places(S, f, lo, n) == {x \in S : f[x] \in lo .. lo + n}

(* The places lo .. lo + n hold n + 1 members, or fewer if S ends there.   *)
LEMMA PlacesCut ==
    ASSUME NEW S, IsFiniteSet(S), NEW f \in [S -> 0 .. Cardinality(S) - 1],
           \A x, y \in S : x # y => f[x] # f[y],
           NEW lo \in Nat, NEW n \in Nat
    PROVE  /\ IsFiniteSet(Places(S, f, lo, n)) /\ Cardinality(Places(S, f, lo, n)) \in Nat
           /\ Cardinality(Places(S, f, lo, n)) <= n <=> Cardinality(S) <= lo + n
<1> DEFINE C == {x \in S : f[x] \in lo .. lo + n}
           g == [x \in C |-> f[x]]
<1>1. Cardinality(S) \in Nat
  BY FS_CardinalityType
<1>2. IsFiniteSet(C) /\ Cardinality(C) \in Nat
  BY FS_Subset, FS_CardinalityType
<1>3. ASSUME Cardinality(S) <= lo + n
      PROVE  Cardinality(C) <= n
  <2> DEFINE T == lo .. Cardinality(S) - 1
  <2>1. g \in Injection(C, T)
    BY <1>1 DEF Injection, IsInjective
  <2>2. IsFiniteSet(T) /\ Cardinality(T) = IF lo > Cardinality(S) - 1 THEN 0 ELSE (Cardinality(S) - 1) - lo + 1
    <3>1. lo \in Int /\ Cardinality(S) - 1 \in Int
      BY <1>1
    <3> QED BY <3>1, FS_Interval
  <2>3. Cardinality(C) <= Cardinality(T)
    BY <2>1, <2>2, FS_Injection
  <2> HIDE DEF C, T
  <2> QED BY <1>1, <1>2, <1>3, <2>2, <2>3
<1>4. ASSUME ~(Cardinality(S) <= lo + n)
      PROVE  ~(Cardinality(C) <= n)
  <2> DEFINE T == lo .. lo + n
  <2>1. \A k \in T : \E x \in S : f[x] = k
    BY <1>1, <1>4, PlacesTaken
  <2>2. g \in Surjection(C, T)
    BY <2>1 DEF Surjection
  <2>3. Cardinality(T) <= Cardinality(C)
    BY <1>2, <2>2, FS_Surjection
  <2>4. Cardinality(T) = n + 1
    BY FS_Interval
  <2> HIDE DEF C, T
  <2> QED BY <1>2, <2>3, <2>4
<1> QED BY <1>2, <1>3, <1>4 DEF Places

LEMMA OrdersAreStrict ==
    ASSUME TypeOK, NEW o \in Orders, NEW a \in Rows, NEW b \in Rows
    PROVE  o[a] \in Nat /\ (a # b => o[a] # o[b])
<1>1. CASE view = "sorted"
  BY <1>1, RowsFinite DEF Orders
<1>2. CASE view # "sorted"
  <2>1. o = [x \in Rows |-> written[x]]
    BY <1>2 DEF Orders
  <2> QED BY <1>2, <2>1 DEF TypeOK, Rows
<1> QED BY <1>1, <1>2

LEMMA EntryType == ASSUME NEW e \in List PROVE e[1] \in Rows /\ e[2] \in Nat /\ e = <<e[1], e[2]>>
BY BoundsAssumption DEF List, Listed

(* The entries of the list are in a line. *)
LEMMA BeforeOrders ==
    ASSUME TypeOK, NEW o \in Orders, NEW c \in List, NEW d \in List, NEW e \in List
    PROVE  /\ ~Before(o, d, d)
           /\ Before(o, c, d) /\ Before(o, d, e) => Before(o, c, e)
           /\ d # e => Before(o, d, e) \/ Before(o, e, d)
BY OrdersAreStrict, EntryType DEF Before

LEMMA IndexType ==
    ASSUME TypeOK, NEW o \in Orders, NEW e \in List
    PROVE  /\ Index(o, e) \in 0 .. Cardinality(List) - 1
           /\ \A d \in List : (Before(o, d, e) <=> Index(o, d) < Index(o, e)) /\ (d # e => Index(o, d) # Index(o, e))
<1> DEFINE Ahead(x) == {d \in List : Before(o, d, x)}
<1>1. \A x \in List : IsFiniteSet(Ahead(x)) /\ Cardinality(Ahead(x)) \in Nat /\ Index(o, x) = Cardinality(Ahead(x))
  BY ListFinite, FS_Subset, FS_CardinalityType DEF Index
<1>2. Cardinality(Ahead(e)) < Cardinality(List)
  <2>1. Ahead(e) \subseteq List /\ e \in List \ Ahead(e)
    BY BeforeOrders
  <2> HIDE DEF Ahead
  <2> QED BY <1>1, <2>1, ListFinite, FS_Subset
<1>3. \A x, y \in List : Before(o, x, y) => Cardinality(Ahead(x)) < Cardinality(Ahead(y))
  <2> SUFFICES ASSUME NEW x \in List, NEW y \in List, Before(o, x, y)
               PROVE  Cardinality(Ahead(x)) < Cardinality(Ahead(y))
    OBVIOUS
  <2>1. Ahead(x) \subseteq Ahead(y) /\ x \in Ahead(y) /\ x \notin Ahead(x)
    BY BeforeOrders
  <2> HIDE DEF Ahead
  <2> QED BY <1>1, <2>1, FS_Subset
<1> HIDE DEF Ahead
<1>4. Index(o, e) \in 0 .. Cardinality(List) - 1
  BY <1>1, <1>2, ListFinite
<1>5. ASSUME NEW d \in List
      PROVE  (Before(o, d, e) <=> Index(o, d) < Index(o, e)) /\ (d # e => Index(o, d) # Index(o, e))
  BY <1>1, <1>3, BeforeOrders
<1> QED BY <1>4, <1>5

(* A page's query finds one row more than a page exactly if there are as   *)
(* many, and every place of the list is some entry's.                      *)
LEMMA CutCounts ==
    ASSUME TypeOK, NEW o \in Orders
    PROVE  /\ IsFiniteSet(Cut(o)) /\ Cardinality(Cut(o)) \in Nat
           /\ Cardinality(Cut(o)) < ask.size + 1 <=> Cardinality(List) <= ask.size * (ask.page + 1)
           /\ \A k \in 0 .. Cardinality(List) - 1 : \E e \in List : Index(o, e) = k
<1> DEFINE f == [e \in List |-> Index(o, e)]
           lo == ask.size * ask.page
<1>1. f \in [List -> 0 .. Cardinality(List) - 1] /\ \A x, y \in List : x # y => f[x] # f[y]
  BY IndexType
<1>2. ask.size \in Nat /\ ask.page \in Nat
  BY SizesAssumption DEF TypeOK
<1>3. lo \in Nat /\ ask.size * (ask.page + 1) = lo + ask.size
  BY <1>2
<1>4. Cut(o) = Places(List, f, lo, ask.size)
  BY <1>3 DEF Cut, Places
<1> HIDE DEF f, lo
<1>5. /\ IsFiniteSet(Cut(o)) /\ Cardinality(Cut(o)) \in Nat
      /\ Cardinality(Cut(o)) <= ask.size <=> Cardinality(List) <= lo + ask.size
  BY <1>1, <1>2, <1>3, <1>4, ListFinite, PlacesCut
<1>6. \A k \in 0 .. Cardinality(List) - 1 : \E e \in List : f[e] = k
  BY <1>1, ListFinite, PlacesTaken
<1> QED BY <1>2, <1>3, <1>5, <1>6 DEF f

LEMMA EntriesOne == ASSUME OneEach, TypeOK, NEW a \in Rows PROVE Entries(a) \in {0, 1}
BY ViewsAssumption, BoundsAssumption DEF OneEach, TypeOK, Entries, Rows

(* With one entry for each row an entry is a listed row. *)
LEMMA ListOneEach ==
    ASSUME OneEach, TypeOK
    PROVE  /\ \A e \in List : e[1] \in Listed /\ e[2] = 1 /\ e = <<e[1], 1>>
           /\ \A a \in Listed : <<a, 1>> \in List
<1>1. ASSUME NEW e \in List
      PROVE  e[1] \in Listed /\ e[2] = 1 /\ e = <<e[1], 1>>
  <2>1. e[1] \in Listed /\ e[2] \in 1 .. MaxMarks /\ e = <<e[1], e[2]>> /\ e[2] <= Entries(e[1])
    BY DEF List
  <2>2. Entries(e[1]) \in {0, 1}
    BY <2>1, EntriesOne DEF Listed
  <2> QED BY <2>1, <2>2, BoundsAssumption
<1>2. ASSUME NEW a \in Listed
      PROVE  <<a, 1>> \in List
  <2>1. 1 \in 1 .. MaxMarks /\ a \in Rows /\ Entries(a) > 0
    BY BoundsAssumption DEF Listed
  <2>2. 1 <= Entries(a)
    BY <2>1, EntriesOne
  <2> QED BY <2>1, <2>2 DEF List
<1> QED BY <1>1, <1>2

(* ... and a page gets its cut once. *)
LEMMA DataOneEach ==
    ASSUME OneEach, TypeOK, NEW c \in SUBSET List, IsFiniteSet(c)
    PROVE  /\ Data(c) = {<<e, 1>> : e \in c}
           /\ Cardinality(Data(c)) = Cardinality(c)
<1>1. \A e \in c : view = "classified" => marks[e[1]] = 1
  <2> SUFFICES ASSUME NEW e \in c, view = "classified" PROVE marks[e[1]] = 1
    OBVIOUS
  <2>1. e[1] \in Rows /\ Entries(e[1]) > 0 /\ Entries(e[1]) \in {0, 1}
    BY ListOneEach, EntriesOne DEF Listed
  <2> QED BY <2>1 DEF Entries
<1>2. 1 \in 1 .. MaxMarks
  BY BoundsAssumption
<1>3. Data(c) = {<<e, 1>> : e \in c}
  <2>1. ASSUME NEW d \in Data(c) PROVE d[1] \in c /\ d = <<d[1], 1>>
    <3>1. d[1] \in c /\ d[2] \in 1 .. MaxMarks /\ d = <<d[1], d[2]>>
          /\ d[2] <= IF view = "classified" THEN marks[d[1][1]] ELSE 1
      BY DEF Data
    <3>2. d[2] <= 1
      BY <1>1, <3>1
    <3> QED BY <3>1, <3>2, BoundsAssumption
  <2>2. ASSUME NEW e \in c PROVE <<e, 1>> \in Data(c)
    BY <1>1, <1>2 DEF Data
  <2> QED BY <2>1, <2>2
<1>4. ExistsBijection(c, Data(c))
  <2> DEFINE g == [e \in c |-> <<e, 1>>]
  <2>1. g \in Bijection(c, Data(c))
    BY <1>3 DEF Bijection, Injection, IsInjective, Surjection
  <2> QED BY <2>1 DEF ExistsBijection
<1> QED BY <1>3, <1>4, FS_Bijection

--------------------------------------------------------------------------------
(* The Next button                                                         *)

(* NextIsTrue without its pc: a page stays fresh until the list changes.   *)
ButtonTrue == fresh => (noMore <=> Cardinality(List) <= size * (page + 1))

LEMMA ListKept == ASSUME UNCHANGED <<view, written, marks>> PROVE List' = List /\ Listed' = Listed /\ Rows' = Rows
BY DEF List, Listed, Entries, Rows

LEMMA ReadButton == ASSUME OneEach, TypeOK, Read PROVE ButtonTrue'
<1>1. List' = List /\ page' = ask.page /\ size' = ask.size
  BY ListKept DEF Read, list
<1>2. PICK o \in Orders :
         \/ Cardinality(Data(Cut(o))) < ask.size + 1 /\ noMore' = TRUE
         \/ Cardinality(Data(Cut(o))) >= ask.size + 1 /\ noMore' = FALSE
  BY DEF Read
<1>3. Cut(o) \in SUBSET List /\ IsFiniteSet(Cut(o)) /\ Cardinality(Cut(o)) \in Nat
  BY CutCounts DEF Cut
<1>4. Cardinality(Data(Cut(o))) = Cardinality(Cut(o))
  BY <1>3, DataOneEach
<1>5. ask.size \in Nat /\ ask.page \in Nat
  BY SizesAssumption DEF TypeOK
<1>6. noMore' <=> Cardinality(Cut(o)) < ask.size + 1
  BY <1>2, <1>3, <1>4, <1>5
<1>7. noMore' <=> Cardinality(List) <= ask.size * (ask.page + 1)
  BY <1>6, CutCounts
<1> QED BY <1>1, <1>7, Zenon DEF ButtonTrue

LEMMA ButtonStep == OneEach /\ TypeOK /\ ButtonTrue /\ [Next]_vars => ButtonTrue'
<1> SUFFICES ASSUME OneEach, TypeOK, ButtonTrue, [Next]_vars PROVE ButtonTrue'
  OBVIOUS
<1>1. ASSUME UNCHANGED <<list, answer, fresh>> PROVE ButtonTrue'
  <2>1. List' = List
    BY <1>1, ListKept DEF list
  <2> QED BY <1>1, <2>1 DEF ButtonTrue, answer
<1>2. ASSUME NEW mode \in {"first", "next", "previous"}, Click(mode) PROVE ButtonTrue'
  BY <1>1, <1>2 DEF Click
<1>3. CASE Resize
  BY <1>1, <1>3 DEF Resize
<1>4. CASE ReadFails
  BY <1>1, <1>4 DEF ReadFails
<1>5. CASE UNCHANGED vars
  BY <1>1, <1>5 DEF vars, list, answer
<1>6. ASSUME NEW a \in Alerts, Arrive(a) \/ Mark(a) \/ Unmark(a) \/ Replace(a) PROVE ButtonTrue'
  BY <1>6 DEF Arrive, Mark, Unmark, Replace, Marked, ButtonTrue
<1> QED BY <1>2, <1>3, <1>4, <1>5, <1>6, ReadButton DEF Next

(* For every number of rows, every page size and any schedule of the       *)
(* others: a page of a list that has not changed since has a Next button   *)
(* if and only if there is a row behind it.  One classification of an      *)
(* alert is needed for the classified list alone, whose second join        *)
(* multiplies the rows of an alert classified twice.                       *)
THEOREM NextIsTrueAlways == ASSUME OneEach PROVE Spec => []NextIsTrue
<1>1. Init => ButtonTrue
  BY DEF Init, ButtonTrue
<1>2. OneEach
  OBVIOUS
<1>3. TypeOK /\ ButtonTrue /\ [Next]_vars => ButtonTrue'
  BY <1>2, ButtonStep
<1>4. ButtonTrue => NextIsTrue
  BY DEF ButtonTrue, NextIsTrue
<1> QED BY <1>1, <1>3, <1>4, PagingTypeCorrect, PTL DEF Spec

--------------------------------------------------------------------------------
(* Rows that are missed                                                    *)

(* The place of row a in a list of rows S with one entry each. *)
Rank(S, a) == Cardinality({b \in S : Stamp[b] < Stamp[a]})

Missing == staying \ walked

(* The missing rows the analyst has leafed past. *)
Behind == {a \in Missing : Rank(Listed, a) < size * (page + 1)}

(* The order of writing is that of the stamps. *)
Ordered ==
    \A a, b \in Rows :
        /\ a # b => Stamp[a] # Stamp[b]
        /\ view # "sorted" => (written[a] < written[b] <=> Stamp[a] < Stamp[b])

(* MissedBounded at every page and not only at the last one. *)
BehindBounded == Cardinality(Behind) <= gone

(* After the last page every row that is missing has been leafed past. *)
LastBounded == noMore => Cardinality(Missing) <= gone

(* The page asked for is no further than the next one, or the first. *)
AskIsNear == pc = "asked" /\ ask.page # 0 => ask.size = size /\ ask.page <= page + 1

WalkInv == TypeOK /\ Ordered /\ staying \subseteq Listed /\ AskIsNear /\ BehindBounded /\ LastBounded

LEMMA RankType ==
    ASSUME NEW S, IsFiniteSet(S), NEW a
    PROVE  IsFiniteSet({b \in S : Stamp[b] < Stamp[a]}) /\ Rank(S, a) \in Nat
BY FS_Subset, FS_CardinalityType DEF Rank

(* A row that joins moves the others back, one that leaves moves them up   *)
(* by one place at most.                                                   *)
LEMMA RankGrows ==
    ASSUME NEW S, NEW T, S \subseteq T, IsFiniteSet(T), NEW a
    PROVE  Rank(S, a) <= Rank(T, a)
<1>1. {b \in S : Stamp[b] < Stamp[a]} \in SUBSET {b \in T : Stamp[b] < Stamp[a]}
  OBVIOUS
<1> QED BY <1>1, RankType, FS_Subset DEF Rank

LEMMA RankDrops ==
    ASSUME NEW S, IsFiniteSet(S), NEW x, NEW a
    PROVE  Rank(S, a) <= Rank(S \ {x}, a) + 1
<1> DEFINE A == {b \in S : Stamp[b] < Stamp[a]}
           B == {b \in S \ {x} : Stamp[b] < Stamp[a]}
<1>1. B = A \ {x}
  OBVIOUS
<1>2. IsFiniteSet(A) /\ Cardinality(A) \in Nat
  BY RankType DEF Rank
<1> HIDE DEF A, B
<1>3. Cardinality(B) = IF x \in A THEN Cardinality(A) - 1 ELSE Cardinality(A)
  BY <1>1, <1>2, FS_RemoveElement
<1>4. Cardinality(A) <= Cardinality(B) + 1
  BY <1>2, <1>3
<1> QED BY <1>4 DEF Rank, A, B

(* Rows with stamps of their own have places of their own. *)
LEMMA RankStrict ==
    ASSUME NEW S \in SUBSET Alerts, IsFiniteSet(S), NEW a \in S, NEW b \in S, Stamp[a] < Stamp[b]
    PROVE  Rank(S, a) < Rank(S, b)
<1> DEFINE A == {x \in S : Stamp[x] < Stamp[a]}
           B == {x \in S : Stamp[x] < Stamp[b]}
<1>1. A \in SUBSET B /\ a \in B /\ a \notin A
  BY RowsAssumption
<1>2. IsFiniteSet(A) /\ Cardinality(A) \in Nat /\ IsFiniteSet(B) /\ Cardinality(B) \in Nat
  BY FS_Subset, FS_CardinalityType
<1> HIDE DEF A, B
<1>3. Cardinality(A) < Cardinality(B)
  BY <1>1, <1>2, FS_Subset
<1> QED BY <1>3 DEF Rank, A, B

LEMMA OrderIsStamp ==
    ASSUME TypeOK, Ordered, NEW o \in Orders, NEW a \in Rows, NEW b \in Rows
    PROVE  o[a] < o[b] <=> Stamp[a] < Stamp[b]
<1>1. Stamp[a] \in Nat /\ Stamp[b] \in Nat
  BY RowsAssumption DEF Rows
<1>2. CASE view = "sorted"
  <2>1. /\ a # b => o[a] # o[b] /\ (Stamp[a] < Stamp[b] => o[a] < o[b])
        /\ a # b => (Stamp[b] < Stamp[a] => o[b] < o[a])
    BY <1>2 DEF Orders
  <2>2. o[a] \in Nat /\ o[b] \in Nat /\ (a # b => Stamp[a] # Stamp[b])
    BY OrdersAreStrict DEF Ordered
  <2> QED BY <1>1, <2>1, <2>2
<1>3. CASE view # "sorted"
  <2>1. o = [x \in Rows |-> written[x]]
    BY <1>3 DEF Orders
  <2> QED BY <1>3, <2>1 DEF Ordered
<1> QED BY <1>2, <1>3

LEMMA IndexIsRank ==
    ASSUME OneEach, TypeOK, Ordered, NEW o \in Orders, NEW a \in Listed
    PROVE  Index(o, <<a, 1>>) = Rank(Listed, a)
<1> DEFINE D == {d \in List : Before(o, d, <<a, 1>>)}
           S == {b \in Listed : Stamp[b] < Stamp[a]}
           g == [b \in S |-> <<b, 1>>]
<1>1. \A b \in Listed : Before(o, <<b, 1>>, <<a, 1>>) <=> Stamp[b] < Stamp[a]
  BY OrderIsStamp DEF Before, Listed
<1>2. \A d \in D : d[1] \in S /\ d = <<d[1], 1>>
  BY <1>1, ListOneEach
<1>3. \A b \in S : <<b, 1>> \in D
  BY <1>1, ListOneEach
<1>4. IsFiniteSet(S)
  BY ListFinite, FS_Subset
<1>5. g \in Bijection(S, D)
  <2> HIDE DEF D, S
  <2> QED BY <1>2, <1>3 DEF Bijection, Injection, IsInjective, Surjection
<1>6. Cardinality(D) = Cardinality(S)
  <2> HIDE DEF D, S, g
  <2> QED BY <1>4, <1>5, FS_Bijection DEF ExistsBijection
<1> QED BY <1>6 DEF Index, Rank

(* What a page holds: every row of the list whose place is on the page,    *)
(* whichever row was dropped, and without a Next button all the rest.      *)
LEMMA PageHolds ==
    ASSUME OneEach, TypeOK, Ordered, Read, NEW a \in Listed,
           ask.size * ask.page <= Rank(Listed, a),
           noMore' \/ Rank(Listed, a) < ask.size * (ask.page + 1)
    PROVE  a \in shown'
<1> DEFINE edge == ask.size * (ask.page + 1)
<1>1. PICK o \in Orders :
         \/ /\ Cardinality(Data(Cut(o))) < ask.size + 1 /\ noMore' = TRUE
            /\ shown' = RowsOf(Data(Cut(o)))
         \/ /\ Cardinality(Data(Cut(o))) >= ask.size + 1 /\ noMore' = FALSE
            /\ \E last \in Dropped(o, Data(Cut(o))) : shown' = RowsOf(Data(Cut(o)) \ {last})
  BY DEF Read
<1>2. Cut(o) \in SUBSET List /\ IsFiniteSet(Cut(o)) /\ Cardinality(Cut(o)) \in Nat
  BY CutCounts DEF Cut
<1>3. Data(Cut(o)) = {<<e, 1>> : e \in Cut(o)} /\ Cardinality(Data(Cut(o))) = Cardinality(Cut(o))
  BY <1>2, DataOneEach
<1>4. ask.size \in Nat /\ ask.page \in Nat /\ edge \in Nat
  <2>1. ask.size \in Nat /\ ask.page \in Nat
    BY SizesAssumption DEF TypeOK
  <2> QED BY <2>1
<1>5. <<a, 1>> \in List /\ Index(o, <<a, 1>>) = Rank(Listed, a) /\ Rank(Listed, a) \in 0 .. Cardinality(List) - 1
  <2>1. <<a, 1>> \in List
    BY ListOneEach
  <2>2. Index(o, <<a, 1>>) \in 0 .. Cardinality(List) - 1
    BY <2>1, IndexType
  <2>3. Index(o, <<a, 1>>) = Rank(Listed, a)
    BY IndexIsRank
  <2> QED BY <2>1, <2>2, <2>3, Zenon
<1>6. noMore' <=> Cardinality(List) <= edge
  BY <1>1, <1>2, <1>3, <1>4, CutCounts
<1>7. Rank(Listed, a) < edge
  BY <1>4, <1>5, <1>6, ListFinite
<1>8. <<a, 1>> \in Cut(o)
  BY <1>4, <1>5, <1>7 DEF Cut
<1>9. <<<<a, 1>>, 1>> \in Data(Cut(o))
  BY <1>3, <1>8
<1>10. CASE noMore'
  BY <1>1, <1>9, <1>10 DEF RowsOf
<1>11. CASE ~noMore'
  <2>1. PICK last \in Dropped(o, Data(Cut(o))) : shown' = RowsOf(Data(Cut(o)) \ {last})
    BY <1>1, <1>11
  <2>2. edge \in 0 .. Cardinality(List) - 1
    BY <1>4, <1>6, <1>11, ListFinite
  <2>3. PICK x \in List : Index(o, x) = edge
    BY <2>2, CutCounts
  <2>4. ask.size * ask.page <= edge
    BY <1>4, <1>5, <1>7
  <2>5. <<x, 1>> \in Data(Cut(o))
    BY <1>3, <1>4, <2>3, <2>4 DEF Cut
  <2>6. last \in Data(Cut(o)) /\ last[1] \in List
    BY <1>2, <1>3 DEF Dropped
  <2>7. ~Before(o, last[1], x)
    <3>1. CASE view = "sorted"
      BY <2>5, <3>1 DEF Dropped
    <3>2. CASE view # "sorted"
      <4>1. Stamp[x[1]] <= Stamp[last[1][1]]
        BY <2>5, <3>2 DEF Dropped
      <4>2. x[1] \in Rows /\ last[1][1] \in Rows /\ x[2] = 1 /\ last[1][2] = 1
        BY <2>6, ListOneEach DEF Listed
      <4>3. ~(Stamp[last[1][1]] < Stamp[x[1]])
        BY <4>1, <4>2, RowsAssumption DEF Rows
      <4> QED BY <4>2, <4>3, OrderIsStamp DEF Before
    <3> QED BY <3>1, <3>2
  <2>8. ~(Index(o, last[1]) < edge)
    BY <2>3, <2>6, <2>7, IndexType
  <2>9. last # <<<<a, 1>>, 1>>
    BY <1>5, <1>7, <2>8
  <2>10. <<<<a, 1>>, 1>> \in Data(Cut(o)) \ {last}
    BY <1>9, <2>9
  <2>11. a \in RowsOf(Data(Cut(o)) \ {last})
    BY <2>10 DEF RowsOf
  <2> QED BY <2>1, <2>11
<1> QED BY <1>10, <1>11

--------------------------------------------------------------------------------
(* The walk                                                                *)

LEMMA MissingFinite ==
    ASSUME TypeOK
    PROVE  /\ IsFiniteSet(Missing) /\ Cardinality(Missing) \in Nat
           /\ IsFiniteSet(Behind) /\ Cardinality(Behind) \in Nat
<1>1. Missing \in SUBSET Rows /\ Behind \in SUBSET Missing
  BY DEF TypeOK, Missing, Behind
<1> QED BY <1>1, RowsFinite, FS_Subset, FS_CardinalityType

(* Who joins the list brings nobody behind the analyst. *)
LEMMA BehindShrinks ==
    ASSUME TypeOK, TypeOK', Listed \subseteq Listed', Missing' \subseteq Missing, page' = page, size' = size
    PROVE  Behind' \in SUBSET Behind
<1> SUFFICES ASSUME NEW a \in Behind' PROVE a \in Behind
  OBVIOUS
<1>1. a \in Missing /\ Rank(Listed', a) < size * (page + 1)
  BY DEF Behind, Rank
<1>2. IsFiniteSet(Listed) /\ IsFiniteSet(Listed')
  <2>1. IsFiniteSet(Rows')
    BY RowsAssumption, FS_Subset DEF Rows
  <2>2. Listed' \in SUBSET Rows'
    BY DEF Listed
  <2> QED BY <2>1, <2>2, ListFinite, FS_Subset
<1>3. Rank(Listed, a) <= Rank(Listed', a) /\ Rank(Listed, a) \in Nat /\ Rank(Listed', a) \in Nat
  BY <1>2, RankGrows, RankType
<1>4. size * (page + 1) \in Nat
  BY SizesAssumption DEF TypeOK
<1> QED BY <1>1, <1>3, <1>4 DEF Behind

LEMMA ReadWalk == ASSUME OneEach, WalkInv, Read PROVE WalkInv'
<1>1. TypeOK /\ TypeOK' /\ Ordered /\ staying \subseteq Listed
  BY ReadType DEF WalkInv
<1>2. /\ Listed' = Listed /\ Rows' = Rows /\ view' = view /\ written' = written
      /\ page' = ask.page /\ size' = ask.size /\ pc' = "page" /\ pc = "asked"
  BY ListKept DEF Read, list
<1>3. Ordered' /\ AskIsNear'
  BY <1>1, <1>2 DEF Ordered, AskIsNear
<1>4. ask.page \in Nat /\ ask.size \in Nat /\ page \in Nat /\ gone \in Nat
  BY <1>1, SizesAssumption DEF TypeOK
<1>5. \A a \in Listed : Rank(Listed, a) \in Nat
  BY <1>1, ListFinite, RankType
<1>6. \A a \in Behind' : a \in Missing' /\ Rank(Listed, a) < ask.size * (ask.page + 1)
  BY <1>2 DEF Behind, Rank
<1>7. CASE ask.page = 0
  <2>1. walked' = shown' /\ staying' = Listed /\ gone' = 0
    BY <1>7 DEF Read, Walked
  <2>2. ask.size * ask.page = 0
    BY <1>4, <1>7
  <2>3. Behind' = {}
    BY <1>1, <1>5, <1>6, <2>1, <2>2, PageHolds DEF Missing
  <2>4. noMore' => Missing' = {}
    BY <1>1, <1>5, <2>1, <2>2, PageHolds DEF Missing
  <2>5. BehindBounded' /\ LastBounded'
    BY <2>1, <2>3, <2>4, FS_EmptySet DEF BehindBounded, LastBounded
  <2> QED BY <1>1, <1>2, <1>3, <2>1, <2>5 DEF WalkInv
<1>8. CASE ask.page # 0
  <2>1. walked' = walked \cup shown' /\ staying' = staying /\ gone' = gone
    BY <1>8 DEF Read, Walked
  <2>2. ask.size = size /\ ask.page <= page + 1
    BY <1>2, <1>8 DEF WalkInv, AskIsNear
  <2>3. ask.size * ask.page <= size * (page + 1)
    BY <1>4, <2>2
  <2>4. Missing' = Missing \ shown'
    BY <2>1 DEF Missing
  <2>5. ASSUME NEW a \in Missing, a \notin shown',
               noMore' \/ Rank(Listed, a) < ask.size * (ask.page + 1)
        PROVE  a \in Behind
    <3>1. a \in Listed
      BY <1>1, <2>5 DEF Missing
    <3>2. ~(ask.size * ask.page <= Rank(Listed, a))
      BY <1>1, <2>5, <3>1, PageHolds
    <3>3. ask.size * ask.page \in Nat /\ size * (page + 1) \in Nat
      BY <1>4, <2>2
    <3>4. Rank(Listed, a) < size * (page + 1)
      BY <1>5, <2>3, <3>1, <3>2, <3>3
    <3> QED BY <2>5, <3>4 DEF Behind
  <2>6. Behind' \in SUBSET Behind
    BY <1>6, <2>4, <2>5
  <2>7. noMore' => Missing' \in SUBSET Behind
    BY <2>4, <2>5
  <2>8. Cardinality(Behind) <= gone' /\ IsFiniteSet(Behind)
    BY <1>1, <2>1, MissingFinite DEF WalkInv, BehindBounded
  <2>9. BehindBounded'
    BY <1>4, <2>1, <2>6, <2>8, FS_Subset, FS_CardinalityType DEF BehindBounded
  <2>10. LastBounded'
    BY <1>4, <2>1, <2>7, <2>8, FS_Subset, FS_CardinalityType DEF LastBounded
  <2> QED BY <1>1, <1>2, <1>3, <2>1, <2>9, <2>10 DEF WalkInv
<1> QED BY <1>7, <1>8

LEMMA ArriveWalk == ASSUME Tidy, WalkInv, NEW a \in Alerts, Arrive(a) PROVE WalkInv'
<1>1. TypeOK /\ TypeOK'
  BY ArriveType DEF WalkInv
<1>2. /\ a \notin Rows /\ written' = [written EXCEPT ![a] = Place]
      /\ UNCHANGED <<view, marks, pc, page, size, noMore, ask, walked, staying, gone>>
      /\ \A b \in Rows : IF view = "sorted" THEN Stamp[b] # Stamp[a] ELSE Stamp[b] < Stamp[a]
  BY DEF Arrive, answer, walk
<1>3. Rows' = Rows \cup {a}
  <2>1. Place # 0 /\ written \in [Alerts -> Nat]
    BY <1>1, RowsFinite DEF TypeOK, Place
  <2>2. \A b \in Alerts : written'[b] # 0 <=> (b = a \/ written[b] # 0)
    BY <1>2, <2>1
  <2> QED BY <2>2 DEF Rows
<1>4. Ordered'
  <2>1. \A b \in Rows : b # a /\ written'[b] = written[b] /\ written[b] \in 0 .. Cardinality(Rows)
    BY <1>1, <1>2, RowsFinite DEF TypeOK, Rows
  <2>2. written'[a] = Place
    BY <1>1, <1>2 DEF TypeOK
  <2>3. \A b \in Rows : b \in Alerts /\ Stamp[b] \in Nat /\ Stamp[a] \in Nat
    BY RowsAssumption DEF Rows
  <2>4. \A b \in Rows : Stamp[a] # Stamp[b] /\ (view # "sorted" => Stamp[b] < Stamp[a] /\ written[b] < written'[a])
    BY <1>2, <2>1, <2>2, <2>3, RowsFinite DEF Place
  <2>5. ASSUME NEW b \in Rows', NEW c \in Rows'
        PROVE  /\ b # c => Stamp[b] # Stamp[c]
               /\ view # "sorted" => (written'[b] < written'[c] <=> Stamp[b] < Stamp[c])
    <3>1. CASE b \in Rows /\ c \in Rows
      BY <2>1, <3>1 DEF WalkInv, Ordered
    <3>2. CASE b = a /\ c \in Rows
      <4>1. b # c /\ Stamp[b] # Stamp[c]
        BY <2>1, <2>4, <3>2
      <4>2. ASSUME view # "sorted"
            PROVE  ~(written'[b] < written'[c]) /\ ~(Stamp[b] < Stamp[c])
        <5>1. written[c] \in Nat /\ written[c] < written'[b] /\ written'[b] \in Nat
          BY <2>1, <2>2, <2>4, <3>2, <4>2, RowsFinite DEF Place
        <5>2. Stamp[c] < Stamp[b] /\ Stamp[c] \in Nat /\ Stamp[b] \in Nat
          BY <2>3, <2>4, <3>2, <4>2
        <5> QED BY <2>1, <3>2, <5>1, <5>2
      <4> QED BY <4>1, <4>2
    <3>3. CASE b \in Rows /\ c = a
      BY <2>1, <2>2, <2>3, <2>4, <3>3, RowsFinite
    <3>4. CASE b = a /\ c = a
      BY <2>2, <2>3, <3>4, RowsFinite, RowsAssumption DEF Place
    <3> QED BY <1>3, <3>1, <3>2, <3>3, <3>4
  <2> QED BY <1>2, <2>5 DEF Ordered
<1>5. Listed \subseteq Listed'
  BY <1>2, <1>3 DEF Listed, Entries
<1>6. staying' \subseteq Listed' /\ AskIsNear'
  BY <1>2, <1>5 DEF WalkInv, AskIsNear
<1>7. Missing' = Missing /\ LastBounded'
  BY <1>2 DEF WalkInv, Missing, LastBounded
<1>8. Behind' \in SUBSET Behind
  BY <1>1, <1>2, <1>5, <1>7, BehindShrinks
<1>9. BehindBounded'
  <2>1. Cardinality(Behind) \in Nat /\ IsFiniteSet(Behind) /\ gone \in Nat
    BY <1>1, MissingFinite DEF TypeOK
  <2>2. Cardinality(Behind') <= Cardinality(Behind) /\ Cardinality(Behind') \in Nat
    BY <1>8, <2>1, FS_Subset, FS_CardinalityType
  <2> QED BY <1>2, <2>1, <2>2 DEF WalkInv, BehindBounded
<1> QED BY <1>1, <1>4, <1>6, <1>7, <1>9 DEF WalkInv

LEMMA MarkWalk == ASSUME OneEach, WalkInv, NEW a \in Alerts, Mark(a) \/ Unmark(a) \/ Replace(a) PROVE WalkInv'
<1>1. TypeOK /\ TypeOK'
  BY MarkType DEF WalkInv
<1>2. PICK n : Marked(a, n) /\ a \in Rows
  BY DEF Mark, Unmark, Replace
<1>3. /\ UNCHANGED <<view, written, pc, page, size, noMore, ask, walked>>
      /\ marks' = [marks EXCEPT ![a] = n]
      /\ staying' = {b \in staying : Entries(b)' > 0}
      /\ gone' = gone + (IF Entries(a)' < Entries(a) THEN Entries(a) - Entries(a)' ELSE 0)
  BY <1>2 DEF Marked, answer
<1>4. Rows' = Rows
  BY <1>3 DEF Rows
<1>5. Ordered' /\ AskIsNear'
  BY <1>3, <1>4 DEF WalkInv, Ordered, AskIsNear
<1>6. Entries(a) \in {0, 1} /\ Entries(a)' \in {0, 1}
  <2>1. Entries(a)' \in {0, 1}
    BY <1>1, <1>2, <1>4, ViewsAssumption, BoundsAssumption DEF OneEach, TypeOK, Entries, Rows
  <2> QED BY <1>1, <1>2, <2>1, EntriesOne
<1>7. \A b \in Alerts : b # a => Entries(b)' = Entries(b)
  BY <1>1, <1>3 DEF Entries, TypeOK
<1>8. staying' \subseteq Listed'
  BY <1>3, <1>4 DEF WalkInv, Listed
<1>9. Missing' \subseteq Missing
  BY <1>3 DEF Missing
<1>10. gone \in Nat /\ Cardinality(Behind) \in Nat /\ Cardinality(Missing) \in Nat
       /\ IsFiniteSet(Behind) /\ IsFiniteSet(Missing)
  BY <1>1, MissingFinite DEF TypeOK
<1>11. gone' \in Nat /\ gone <= gone' /\ LastBounded'
  <2>1. gone' \in Nat /\ gone <= gone'
    BY <1>3, <1>6, <1>10
  <2>2. Cardinality(Missing') \in Nat /\ Cardinality(Missing') <= Cardinality(Missing)
    BY <1>9, <1>10, FS_Subset, FS_CardinalityType
  <2>3. noMore' => Cardinality(Missing') <= gone'
    BY <1>3, <1>10, <2>1, <2>2 DEF WalkInv, LastBounded
  <2> QED BY <2>1, <2>3 DEF LastBounded
<1>12. CASE Entries(a) = 1 /\ Entries(a)' = 0
  <2>1. gone' = gone + 1
    BY <1>3, <1>12
  <2>2. Listed' = Listed \ {a}
    BY <1>2, <1>4, <1>7, <1>12 DEF Listed, Rows
  <2> DEFINE Edge == {b \in Listed : Rank(Listed, b) = size * (page + 1)}
  <2>3. \A b, c \in Edge : b = c
    <3>1. ASSUME NEW b \in Listed, NEW c \in Listed, b # c
          PROVE  Rank(Listed, b) # Rank(Listed, c)
      <4>1. Listed \in SUBSET Alerts /\ Stamp[b] \in Nat /\ Stamp[c] \in Nat
        BY RowsAssumption DEF Listed, Rows
      <4>2. Stamp[b] # Stamp[c]
        BY <3>1 DEF WalkInv, Ordered, Listed
      <4>3. Stamp[b] < Stamp[c] \/ Stamp[c] < Stamp[b]
        BY <4>1, <4>2
      <4>4. Rank(Listed, b) < Rank(Listed, c) \/ Rank(Listed, c) < Rank(Listed, b)
        BY <1>1, <4>1, <4>3, ListFinite, RankStrict
      <4>5. Rank(Listed, b) \in Nat /\ Rank(Listed, c) \in Nat
        BY <1>1, ListFinite, RankType
      <4> QED BY <4>4, <4>5
    <3> QED BY <3>1
  <2>4. Behind' \subseteq Behind \cup Edge
    <3> SUFFICES ASSUME NEW b \in Behind' PROVE b \in Behind \cup Edge
      OBVIOUS
    <3>1. b \in Missing /\ Rank(Listed \ {a}, b) < size * (page + 1)
      BY <1>3, <1>9, <2>2 DEF Behind, Rank
    <3>2. b \in Listed
      BY <3>1 DEF WalkInv, Missing
    <3>3. Rank(Listed, b) <= Rank(Listed \ {a}, b) + 1 /\ Rank(Listed, b) \in Nat
          /\ Rank(Listed \ {a}, b) \in Nat
      <4>1. IsFiniteSet(Listed) /\ IsFiniteSet(Listed \ {a})
        BY <1>1, ListFinite, FS_RemoveElement
      <4> QED BY <4>1, RankDrops, RankType
    <3>4. size * (page + 1) \in Nat
      <4>1. size \in Nat /\ page \in Nat
        BY <1>1, SizesAssumption DEF TypeOK
      <4> QED BY <4>1
    <3>5. Rank(Listed, b) < size * (page + 1) \/ Rank(Listed, b) = size * (page + 1)
      BY <3>1, <3>3, <3>4
    <3> QED BY <3>1, <3>2, <3>5 DEF Behind
  <2> HIDE DEF Edge
  <2>5. PICK x : Behind' \in SUBSET (Behind \cup {x})
    BY <2>3, <2>4
  <2>6. IsFiniteSet(Behind \cup {x}) /\ Cardinality(Behind \cup {x}) <= Cardinality(Behind) + 1
        /\ Cardinality(Behind \cup {x}) \in Nat
    <3>1. /\ IsFiniteSet(Behind \cup {x})
          /\ Cardinality(Behind \cup {x}) = IF x \in Behind THEN Cardinality(Behind) ELSE Cardinality(Behind) + 1
      BY <1>10, FS_AddElement
    <3> QED BY <1>10, <3>1
  <2>7. Cardinality(Behind') <= Cardinality(Behind \cup {x}) /\ Cardinality(Behind') \in Nat
    BY <2>5, <2>6, FS_Subset, FS_CardinalityType
  <2>8. BehindBounded'
    BY <1>10, <2>1, <2>6, <2>7 DEF WalkInv, BehindBounded
  <2> QED BY <1>1, <1>5, <1>8, <1>11, <2>8 DEF WalkInv
<1>13. CASE ~(Entries(a) = 1 /\ Entries(a)' = 0)
  <2>1. Listed \subseteq Listed'
    BY <1>4, <1>6, <1>7, <1>13 DEF Listed, Rows
  <2>2. Behind' \in SUBSET Behind
    BY <1>1, <1>3, <1>9, <2>1, BehindShrinks
  <2>3. Cardinality(Behind') <= Cardinality(Behind) /\ Cardinality(Behind') \in Nat
    BY <1>10, <2>2, FS_Subset, FS_CardinalityType
  <2>4. BehindBounded'
    BY <1>10, <1>11, <2>3 DEF WalkInv, BehindBounded
  <2> QED BY <1>1, <1>5, <1>8, <1>11, <2>4 DEF WalkInv
<1> QED BY <1>12, <1>13

LEMMA WalkStep == Tidy /\ OneEach /\ WalkInv /\ [Next]_vars => WalkInv'
<1> SUFFICES ASSUME Tidy, OneEach, WalkInv, [Next]_vars PROVE WalkInv'
  OBVIOUS
<1>1. TypeOK /\ TypeOK'
  BY TypeStep DEF WalkInv
<1>2. ASSUME UNCHANGED <<list, answer, walk>>, AskIsNear' PROVE WalkInv'
  <2>1. Listed' = Listed /\ Rows' = Rows
    BY <1>2, ListKept DEF list
  <2>2. Missing' = Missing /\ Behind' = Behind
    BY <1>2, <2>1 DEF Missing, Behind, Rank, walk, answer
  <2> QED BY <1>1, <1>2, <2>1, <2>2 DEF WalkInv, Ordered, BehindBounded, LastBounded, list, answer, walk
<1>3. ASSUME NEW mode \in {"first", "next", "previous"}, Click(mode) PROVE WalkInv'
  <2>1. ask' = [page |-> Turned(mode), size |-> size] /\ UNCHANGED <<page, size>>
    BY <1>3 DEF Click, answer
  <2>2. Turned(mode) <= page + 1
    BY <1>1 DEF Turned, TypeOK
  <2>3. AskIsNear'
    BY <2>1, <2>2 DEF AskIsNear
  <2> QED BY <1>2, <1>3, <2>3 DEF Click
<1>4. CASE Resize
  <2>1. AskIsNear'
    BY <1>4 DEF Resize, AskIsNear
  <2> QED BY <1>2, <1>4, <2>1 DEF Resize
<1>5. CASE ReadFails
  <2>1. AskIsNear'
    BY <1>5 DEF ReadFails, AskIsNear
  <2> QED BY <1>2, <1>5, <2>1 DEF ReadFails
<1>6. CASE UNCHANGED vars
  BY <1>2, <1>6 DEF vars, list, answer, walk, WalkInv, AskIsNear
<1> QED BY <1>3, <1>4, <1>5, <1>6, ReadWalk, ArriveWalk, MarkWalk DEF Next

(* For every number of rows and changes and every page size: whoever leafs *)
(* from the first page to the last misses at most one row for each entry   *)
(* that left the list meanwhile, if rows are written in the order of their *)
(* timestamps and a row is one entry of the list.  Neither hypothesis can  *)
(* be done without.                                                        *)
THEOREM MissedBoundedAlways == ASSUME Tidy, OneEach PROVE Spec => []MissedBounded
<1>1. Init => WalkInv
  <2> SUFFICES ASSUME Init PROVE WalkInv
    OBVIOUS
  <2>1. Rows = {} /\ staying = {} /\ gone = 0 /\ pc = "page"
    BY DEF Init, Rows
  <2>2. Missing = {} /\ Behind = {}
    BY <2>1 DEF Missing, Behind
  <2>3. Cardinality({}) <= 0
    BY FS_EmptySet
  <2> QED BY <2>1, <2>2, <2>3, TypeInit DEF WalkInv, Ordered, AskIsNear, BehindBounded, LastBounded
<1>2. Tidy /\ OneEach
  OBVIOUS
<1>3. WalkInv /\ [Next]_vars => WalkInv'
  BY <1>2, WalkStep
<1>4. WalkInv => MissedBounded
  BY DEF WalkInv, LastBounded, Missing, MissedBounded
<1> QED BY <1>1, <1>3, <1>4, PTL DEF Spec
================================================================================
