---------------------------- MODULE VisibilityProofs ---------------------------
(***************************************************************************)
(* What two analysts see of each other: ReadYourWrites and NoDoubleClaim   *)
(* of module Classification, proved for every instance.  The argument is   *)
(* about the table: a classification that has run is in it until somebody  *)
(* takes it out.                                                           *)
(***************************************************************************)
EXTENDS ClassificationProofs

(* Somebody has unclassified a. *)
Cleared(a) == \E u \in Requests : form[u].kind = "unclassify" /\ a \in effect[u]

(* A classification is in the table, or has been taken out. *)
Kept(r) ==
    form[r].kind = "classify" => \A a \in effect[r] : a \in ClassifiedBy(rows) \/ Cleared(a)

(* What a page answered to a successful classification lists. *)
SeenOnlyIfCleared(r) ==
    pc[r] = "answered" /\ message[r] = "none" /\ form[r].kind = "classify" =>
        \A a \in Targets(form[r]) \cap shown[r] : Cleared(a)

(* Two classifications of an alert, with a schema that forbids it. *)
OnceUnlessCleared(r, q) ==
    UniqueAlert /\ r # q /\ form[r].kind = "classify" /\ form[q].kind = "classify" =>
        \A a \in effect[r] \cap effect[q] : Cleared(a)

VInv ==
    /\ IInv
    /\ \A r \in Requests : Kept(r) /\ SeenOnlyIfCleared(r)
    /\ \A r, q \in Requests : OnceUnlessCleared(r, q)

--------------------------------------------------------------------------------
(* How the table and the history change.                                   *)

(* Apart from a new form and a statement, no step changes them. *)
Elsewhere(r) == Handler(r) \/ Server(r) \/ Trouble(r)

LEMMA OnlyStatements ==
    ASSUME NEW r \in Requests, Elsewhere(r), ~Submit(r), ~Execute(r)
    PROVE  UNCHANGED <<form, rows, effect>>
    BY DEF Elsewhere, Handler, Server, Trouble, Begin, BeginFails, SendStatement, Reject,
           StatementSucceeds, StatementFails, NetworkFails, ServerCloses, Commit,
           SendQuery, ReadPage, ReadFails

LEMMA OnlyReadPageShows ==
    ASSUME IInv, NEW r \in Requests, Elsewhere(r), NEW q \in Requests,
           pc'[q] = "answered", q # r \/ ~ReadPage(r)
    PROVE  /\ pc[q] = "answered" /\ shown'[q] = shown[q]
           /\ message'[q] = message[q] /\ form'[q] = form[q]
    <1>1. TypeOK
        BY DEF IInv
    <1>2. CASE Submit(r)
        BY <1>1, <1>2 DEF Submit, TypeOK
    <1>3. CASE ~Submit(r)
        BY <1>1, <1>3 DEF Elsewhere, Handler, Server, Trouble, Begin, BeginFails, SendStatement,
               Execute, Reject, StatementSucceeds, StatementFails, NetworkFails, ServerCloses,
               Fail, Commit, SendQuery, ReadPage, ReadFails, TypeOK
    <1> QED
        BY <1>2, <1>3

(* A posted form stays as it is, and what has been done stays done. *)
LEMMA EffectsGrow ==
    ASSUME IInv, NEW r \in Requests, Elsewhere(r), NEW u \in Requests
    PROVE  /\ effect[u] \subseteq effect'[u]
           /\ form'[u] = form[u] \/ effect'[u] = {}
    <1>1. TypeOK /\ HandlerInv(r)
        BY DEF IInv
    <1>2. CASE Submit(r)
        <2>1. pc[r] = "idle" /\ effect' = effect /\ \A q \in Requests : q # r => form'[q] = form[q]
            BY <1>1, <1>2 DEF Submit, TypeOK
        <2>2. effect[r] = {}
            BY <1>1, <2>1 DEF HandlerInv, Untouched
        <2> QED
            BY <2>1, <2>2
    <1>3. CASE Execute(r)
        <2>1. form' = form /\ effect[r] \subseteq Targets(form[r])
            BY <1>1, <1>3 DEF Execute, HandlerInv, Progress
        <2> QED
            BY <1>1, <1>3, <2>1 DEF Execute, Insert, Delete, TypeOK
    <1>4. CASE ~Submit(r) /\ ~Execute(r)
        BY <1>4, OnlyStatements
    <1> QED
        BY <1>2, <1>3, <1>4

LEMMA ClearedStays ==
    ASSUME IInv, NEW r \in Requests, Elsewhere(r), NEW a, Cleared(a)
    PROVE  Cleared(a)'
    BY EffectsGrow DEF Cleared

(* A statement puts its rows in, or takes them out as an unclassification. *)
LEMMA StatementRuns ==
    ASSUME IInv, NEW r \in Requests, Execute(r), NEW a, a \in ClassifiedBy(rows)
    PROVE  a \in ClassifiedBy(rows)' \/ Cleared(a)'
    <1>1. TypeOK /\ form' = form
        BY DEF IInv, Execute
    <1>2. CASE Insert(r)
        BY <1>2 DEF Insert, ClassifiedBy
    <1>3. CASE form[r].kind = "unclassify" /\ Delete(r)
        <2>1. CASE a = form[r].ids[idx[r]]
            BY <1>1, <1>3, <2>1 DEF Delete, Cleared, TypeOK
        <2>2. CASE a # form[r].ids[idx[r]]
            BY <1>3, <2>2 DEF Delete, ClassifiedBy
        <2> QED
            BY <2>1, <2>2
    <1> QED
        BY <1>2, <1>3 DEF Execute

LEMMA InsertRuns ==
    ASSUME IInv, NEW r \in Requests, Execute(r), form[r].kind = "classify"
    PROVE  /\ effect'[r] = Targets(form[r])
           /\ \A a \in Targets(form[r]) : a \in ClassifiedBy(rows)'
           /\ UniqueAlert => Targets(form[r]) \cap ClassifiedBy(rows) = {}
    <1>1. TypeOK /\ Insert(r)
        BY DEF IInv, Execute
    <1>2. effect'[r] = Targets(form[r])
        BY <1>1 DEF Insert, TypeOK
    <1>3. ASSUME NEW a \in Targets(form[r])
          PROVE  a \in ClassifiedBy(rows)'
        <2>1. [alert |-> a, req |-> r, n |-> attempt[r]] \in rows'
            BY <1>1 DEF Insert, RowsOf
        <2> QED
            BY <2>1 DEF ClassifiedBy
    <1> QED
        BY <1>1, <1>2, <1>3 DEF Insert

--------------------------------------------------------------------------------
(* The parts of the invariant.                                             *)

LEMMA KeptStep ==
    ASSUME VInv, NEW r \in Requests, Elsewhere(r), NEW q \in Requests
    PROVE  Kept(q)'
    <1> SUFFICES ASSUME form'[q].kind = "classify", NEW a \in effect'[q]
                 PROVE  a \in ClassifiedBy(rows)' \/ Cleared(a)'
        BY DEF Kept
    <1>1. IInv /\ TypeOK /\ Kept(q) /\ form'[q] = form[q]
        BY EffectsGrow DEF VInv, IInv
    <1>2. a \in effect[q] => a \in ClassifiedBy(rows) \/ Cleared(a)
        BY <1>1 DEF Kept
    <1>3. CASE Execute(r)
        <2>1. CASE a \in effect[q]
            BY <1>1, <1>2, <1>3, <2>1, StatementRuns, ClearedStays
        <2>2. CASE a \notin effect[q]
            <3>1. q = r
                BY <1>1, <1>3, <2>2 DEF Execute, Insert, Delete, TypeOK
            <3> QED
                BY <1>1, <1>3, <3>1, InsertRuns
        <2> QED
            BY <2>1, <2>2
    <1>4. CASE ~Execute(r)
        <2>1. rows' = rows /\ effect' = effect
            BY <1>4, OnlyStatements DEF Submit
        <2> QED
            BY <1>1, <1>2, <2>1, ClearedStays DEF ClassifiedBy
    <1> QED
        BY <1>3, <1>4

LEMMA SeenStep ==
    ASSUME VInv, NEW r \in Requests, Elsewhere(r), NEW q \in Requests
    PROVE  SeenOnlyIfCleared(q)'
    <1> SUFFICES ASSUME pc'[q] = "answered", message'[q] = "none", form'[q].kind = "classify",
                        NEW a, a \in Targets(form'[q]), a \in shown'[q]
                 PROVE  Cleared(a)'
        <2>1. Targets(form[q])' = Targets(form'[q])
            BY DEF Targets, Valid, Changes, Range
        <2> QED
            BY <2>1 DEF SeenOnlyIfCleared
    <1>1. IInv /\ TypeOK /\ Kept(q) /\ SeenOnlyIfCleared(q) /\ HandlerInv(q)
        BY DEF VInv, IInv
    <1>2. CASE q = r /\ ReadPage(r)
        <2>1. /\ pc[q] = "read" /\ form' = form /\ message' = message /\ rows' = rows
              /\ shown'[q] = Listed(form[q])
            BY <1>1, <1>2 DEF ReadPage, TypeOK
        <2>2. a \notin ClassifiedBy(rows)
            BY <2>1 DEF Listed
        <2>3. a \in effect[q]
            BY <1>1, <2>1 DEF HandlerInv, MessageTrue
        <2> QED
            BY <1>1, <2>1, <2>2, <2>3, ClearedStays DEF Kept
    <1>3. CASE q # r \/ ~ReadPage(r)
        <2>1. /\ pc[q] = "answered" /\ shown'[q] = shown[q]
              /\ message'[q] = message[q] /\ form'[q] = form[q]
            BY <1>1, <1>3, OnlyReadPageShows
        <2> QED
            BY <1>1, <2>1, ClearedStays DEF SeenOnlyIfCleared
    <1> QED
        BY <1>2, <1>3

LEMMA OnceStep ==
    ASSUME VInv, NEW r \in Requests, Elsewhere(r), NEW p \in Requests, NEW q \in Requests
    PROVE  OnceUnlessCleared(p, q)'
    <1> SUFFICES ASSUME UniqueAlert, p # q, form'[p].kind = "classify", form'[q].kind = "classify",
                        NEW a \in effect'[p] \cap effect'[q]
                 PROVE  Cleared(a)'
        BY DEF OnceUnlessCleared
    <1>1. IInv /\ TypeOK /\ Kept(p) /\ Kept(q) /\ OnceUnlessCleared(p, q)
          /\ form'[p] = form[p] /\ form'[q] = form[q]
        BY EffectsGrow DEF VInv, IInv
    <1>2. CASE a \in effect[p] \cap effect[q]
        BY <1>1, <1>2, ClearedStays DEF OnceUnlessCleared
    <1>3. CASE a \notin effect[p] \cap effect[q]
        <2>1. Execute(r)
            BY <1>3, OnlyStatements DEF Submit
        <2>2. r \in {p, q} /\ \A s \in {p, q} : s # r => effect'[s] = effect[s]
            BY <1>1, <1>3, <2>1 DEF Execute, Insert, Delete, TypeOK
        <2>3. form[r].kind = "classify" /\ a \in Targets(form[r]) \ ClassifiedBy(rows)
            BY <1>1, <2>1, <2>2, InsertRuns
        <2>4. PICK s \in {p, q} : s # r
            OBVIOUS
        <2>5. Cleared(a)
            BY <1>1, <2>2, <2>3, <2>4 DEF Kept
        <2> QED
            BY <1>1, <2>5, ClearedStays
    <1> QED
        BY <1>2, <1>3

LEMMA VisibilityInv == Spec => []VInv
    <1>1. Init => VInv
        <2> SUFFICES ASSUME Init PROVE VInv
            OBVIOUS
        <2> QED
            BY InitIInv DEF Init, VInv, Kept, SeenOnlyIfCleared, OnceUnlessCleared
    <1>2. VInv /\ [Next]_vars => VInv'
        <2> SUFFICES ASSUME VInv, [Next]_vars PROVE VInv'
            OBVIOUS
        <2>1. IInv'
            BY InductiveInv DEF VInv
        <2>2. CASE UNCHANGED vars
            <3>1. \A a : Cleared(a)' = Cleared(a)
                BY <2>2 DEF vars, Cleared
            <3> QED
                BY <2>1, <2>2, <3>1 DEF vars, VInv, Kept, SeenOnlyIfCleared, OnceUnlessCleared,
                   ClassifiedBy, Targets, Valid, Changes, Range
        <2>3. ASSUME NEW r \in Requests, Elsewhere(r)
              PROVE  VInv'
            BY <2>1, <2>3, KeptStep, SeenStep, OnceStep DEF VInv
        <2> QED
            BY <2>2, <2>3 DEF Next, Elsewhere, Quiet
    <1> QED
        BY <1>1, <1>2, PTL DEF Spec

--------------------------------------------------------------------------------
(* Theorems.                                                               *)

(* The page answered to a successful classification (alerts.go:25-31)     *)
(* lists none of its alerts, unless somebody has unclassified them.        *)
THEOREM ReadYourWritesAlways == Spec => []ReadYourWrites
    <1>1. VInv => ReadYourWrites
        BY DEF VInv, SeenOnlyIfCleared, ReadYourWrites, Cleared
    <1> QED
        BY <1>1, VisibilityInv, PTL

(* Two analysts are both told that they classified an alert only if it was *)
(* unclassified in between, given a schema that forbids two rows of one    *)
(* alert: the INSERT that loses is never swallowed (alerts.go:206-217).    *)
THEOREM NoDoubleClaimAlways == Spec => []NoDoubleClaim
    <1>1. ASSUME VInv, UniqueAlert, NEW r \in Requests, NEW q \in Requests, r # q,
                 \A s \in {r, q} : pc[s] = "answered" /\ message[s] = "none"
                                   /\ form[s].kind = "classify",
                 NEW a \in Targets(form[r]) \cap Targets(form[q])
          PROVE  Cleared(a)
        <2>1. effect[r] = Targets(form[r]) /\ effect[q] = Targets(form[q])
            BY <1>1 DEF VInv, IInv, HandlerInv, MessageTrue
        <2> QED
            BY <1>1, <2>1 DEF VInv, OnceUnlessCleared
    <1>2. VInv => NoDoubleClaim
        BY <1>1 DEF NoDoubleClaim, Cleared
    <1> QED
        BY <1>2, VisibilityInv, PTL
================================================================================
