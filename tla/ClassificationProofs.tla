------------------------- MODULE ClassificationProofs --------------------------
(***************************************************************************)
(* What TLAPS proves of module Classification, for every set of requests,  *)
(* alerts and forms, every size of the pool, every number of attempts and  *)
(* both schemas.                                                           *)
(***************************************************************************)
EXTENDS Classification, FiniteSetTheorems, TLAPS

(***************************************************************************)
(* The inductive invariant.  What a handler has done is a matter of where  *)
(* it is: one named part for each fact a later step relies on.             *)
(***************************************************************************)

(* The ids of r's form that the delete loop has got past. *)
Passed(r) == {form[r].ids[i] : i \in 1 .. idx[r] - 1}

(* A request that has posted nothing has done nothing. *)
Untouched(r) ==
    pc[r] \in {"idle", "begin"} =>
        effect[r] = {} /\ stmt[r] = "none" /\ ~failed[r] /\ idx[r] = 1

(* Only parsed ids get past the IsNumber loop, and idx points at one. *)
OnlyValidRuns(r) ==
    pc[r] \in {"begin", "conn", "exec", "commit"} \/ stmt[r] = "running" =>
        Valid(form[r]) /\ idx[r] \in 1 .. Len(form[r].ids)

(* A statement the handler no longer waits for belongs to a failed request. *)
OrphanFailed(r) ==
    /\ stmt[r] = "running" => pc[r] = "exec" \/ failed[r]
    /\ pc[r] = "conn" => stmt[r] = "none"
    /\ failed[r] => pc[r] \in {"commit", "page", "read", "answered", "blank"}

(* What a failed request is told once the transaction is over. *)
FailureReported(r) ==
    pc[r] \in {"page", "read", "answered"} /\ failed[r] => message[r] = "refresh"

(* How far the request has got. *)
Progress(r) ==
    /\ pc[r] \in {"conn", "exec"} /\ form[r].kind = "unclassify" => Passed(r) \subseteq effect[r]
    /\ pc[r] = "exec" /\ stmt[r] = "done" =>
          IF form[r].kind = "classify"
          THEN effect[r] = Targets(form[r])
          ELSE form[r].ids[idx[r]] \in effect[r]
    /\ pc[r] = "commit" /\ ~failed[r] => effect[r] = Targets(form[r])
    /\ effect[r] \subseteq Targets(form[r])
    /\ form[r].kind = "classify" => effect[r] \in {{}, Targets(form[r])}

(* The message is true from the moment it is chosen. *)
MessageTrue(r) ==
    pc[r] \in {"page", "read", "answered"} =>
        /\ message[r] = "none" => effect[r] = Targets(form[r])
        /\ message[r] \in {"noids", "error"} => effect[r] = {} /\ ~failed[r]

HandlerInv(r) ==
    /\ Untouched(r)
    /\ OnlyValidRuns(r)
    /\ OrphanFailed(r)
    /\ FailureReported(r)
    /\ Progress(r)
    /\ MessageTrue(r)

IInv == TypeOK /\ PoolConserved /\ \A r \in Requests : HandlerInv(r)

--------------------------------------------------------------------------------
(* Facts about forms and rows.                                             *)

(* A form's targets are alerts, and those of a valid form its ids. *)
LEMMA TargetsType ==
    ASSUME NEW f \in Form
    PROVE  /\ Targets(f) \subseteq Alerts
           /\ Valid(f) => /\ Targets(f) = {f.ids[i] : i \in 1 .. Len(f.ids)}
                          /\ Len(f.ids) \in Nat \ {0}
                          /\ \A i \in 1 .. Len(f.ids) : f.ids[i] \in Targets(f)
    <1>1. f.ids \in Seq(Alerts \cup {NaN})
        BY DEF Form
    <1>2. DOMAIN f.ids = 1 .. Len(f.ids) /\ Len(f.ids) \in Nat
        BY <1>1
    <1>3. Range(f.ids) = {f.ids[i] : i \in 1 .. Len(f.ids)}
        BY <1>2 DEF Range
    <1>4. Range(f.ids) \subseteq Alerts \cup {NaN}
        BY <1>1, <1>3
    <1>5. Valid(f) => Len(f.ids) # 0
        BY <1>1 DEF Valid
    <1> QED
        BY <1>2, <1>3, <1>4, <1>5 DEF Targets, Valid

(* The statements of a request write rows of the table's type. *)
LEMMA RowsOfType ==
    ASSUME NEW r \in Requests, NEW f \in Form, NEW n \in 1 .. MaxAttempts
    PROVE  RowsOf(r, f, n) \subseteq Row
    BY TargetsType DEF RowsOf, Row

(* The parts of the invariant speak of one request's own variables. *)
LEMMA Frame ==
    ASSUME NEW q,
           HandlerInv(q),
           pc'[q] = pc[q], form'[q] = form[q], idx'[q] = idx[q], stmt'[q] = stmt[q],
           failed'[q] = failed[q], message'[q] = message[q], effect'[q] = effect[q]
    PROVE  HandlerInv(q)'
    BY DEF HandlerInv, Untouched, OnlyValidRuns, OrphanFailed, FailureReported,
           Progress, MessageTrue, Passed

--------------------------------------------------------------------------------
(* Types.                                                                  *)

LEMMA InitIInv == Init => IInv
    <1> SUFFICES ASSUME Init PROVE IInv
        OBVIOUS
    <1>1. rows \subseteq Row
        BY AttemptsAssumption DEF Init, EarlierRows, Row
    <1>2. NoForm \in Form
        BY DEF NoForm, Form, Kinds
    <1>3. TypeOK
        BY <1>1, <1>2, PoolAssumption, AttemptsAssumption DEF Init, TypeOK, Places, Messages
    <1>4. ASSUME NEW r \in Requests PROVE HandlerInv(r)
        BY DEF Init, HandlerInv, Untouched, OnlyValidRuns, OrphanFailed, FailureReported,
               Progress, MessageTrue, Passed, NoForm, Targets, Valid, Changes
    <1>5. PoolConserved
        <2>1. TxHolders = {} /\ ConnHolders = {}
            BY DEF Init, TxHolders, ConnHolders
        <2> QED
            BY <2>1, FS_EmptySet DEF PoolConserved, Init
    <1> QED
        BY <1>3, <1>4, <1>5 DEF IInv

(* What every proof about a step needs of the state before it. *)
LEMMA Context ==
    ASSUME IInv, NEW r \in Requests
    PROVE  /\ TypeOK
           /\ PoolConserved
           /\ HandlerInv(r)
           /\ form[r] \in Form
           /\ Targets(form[r]) \subseteq Alerts
    BY TargetsType DEF IInv, TypeOK

--------------------------------------------------------------------------------
(* The pool.                                                               *)

LEMMA HoldersFinite ==
    /\ IsFiniteSet(TxHolders)
    /\ IsFiniteSet(ConnHolders)
    /\ Cardinality(TxHolders) \in Nat
    /\ Cardinality(ConnHolders) \in Nat
    <1>1. TxHolders \in SUBSET Requests /\ ConnHolders \in SUBSET Requests
        BY DEF TxHolders, ConnHolders
    <1>2. IsFiniteSet(TxHolders) /\ IsFiniteSet(ConnHolders)
        BY <1>1, RequestsAssumption, FS_Subset
    <1> QED
        BY <1>2, FS_CardinalityType

(* A handler that holds a connection is counted. *)
LEMMA HolderCounted ==
    ASSUME IInv, NEW r \in Requests
    PROVE  /\ r \in TxHolders \/ r \in ConnHolders => inUse >= 1
           /\ r \in TxHolders /\ r \in ConnHolders => inUse >= 2
    <1>1. r \in TxHolders => Cardinality(TxHolders) >= 1
        BY HoldersFinite, FS_EmptySet
    <1>2. r \in ConnHolders => Cardinality(ConnHolders) >= 1
        BY HoldersFinite, FS_EmptySet
    <1> QED
        BY <1>1, <1>2, HoldersFinite DEF IInv, PoolConserved

(* Moving one element into or out of a finite set. *)
Count(b) == IF b THEN 1 ELSE 0

LEMMA MoveElement ==
    ASSUME NEW S, NEW T, NEW x, IsFiniteSet(S), T = S \cup {x} \/ T = S \ {x}
    PROVE  Cardinality(T) = Cardinality(S) + Count(x \in T) - Count(x \in S)
    <1>1. Cardinality(S) \in Nat
        BY FS_CardinalityType
    <1>2. CASE T = S \cup {x}
        <2>1. Cardinality(T) = IF x \in S THEN Cardinality(S) ELSE Cardinality(S) + 1
            BY <1>2, FS_AddElement
        <2> QED
            BY <1>1, <1>2, <2>1 DEF Count
    <1>3. CASE T = S \ {x}
        <2>1. Cardinality(T) = IF x \in S THEN Cardinality(S) - 1 ELSE Cardinality(S)
            BY <1>3, FS_RemoveElement
        <2> QED
            BY <1>1, <1>3, <2>1 DEF Count
    <1> QED
        BY <1>2, <1>3

(* The connections a handler holds at each place. *)
TxAt(p) == Count(p \in {"conn", "exec", "commit"})
ConnAt(p) == Count(p \in {"exec", "read"})

Held(p) == TxAt(p) + ConnAt(p)

LEMMA HeldTable ==
    /\ \A p \in {"idle", "begin", "page", "answered", "blank"} : Held(p) = 0
    /\ \A p \in {"conn", "commit", "read"} : Held(p) = 1
    /\ Held("exec") = 2
    BY DEF Held, TxAt, ConnAt, Count

(* A step of r from one place to another takes or gives back what the two  *)
(* places differ by.                                                       *)
Move(r, from, to) ==
    /\ pc[r] = from
    /\ pc' = [pc EXCEPT ![r] = to]
    /\ inUse' = inUse + Held(to) - Held(from)

LEMMA PoolMove ==
    ASSUME IInv, NEW r \in Requests, NEW from \in Places, NEW to \in Places,
           Move(r, from, to)
    PROVE  PoolConserved'
    <1> USE DEF Move
    <1>1. pc \in [Requests -> Places] /\ inUse \in Nat /\ PoolConserved
        BY PoolAssumption DEF IInv, TypeOK
    <1>2. Cardinality(TxHolders') = Cardinality(TxHolders) + TxAt(to) - TxAt(pc[r])
        <2>1. TxHolders' = TxHolders \cup {r} \/ TxHolders' = TxHolders \ {r}
            BY <1>1 DEF TxHolders
        <2>2. Cardinality(TxHolders')
                  = Cardinality(TxHolders) + Count(r \in TxHolders') - Count(r \in TxHolders)
            BY <2>1, HoldersFinite, MoveElement
        <2>3. Count(r \in TxHolders') = TxAt(to) /\ Count(r \in TxHolders) = TxAt(pc[r])
            BY <1>1 DEF TxHolders, TxAt, Count
        <2> QED
            BY <2>2, <2>3
    <1>3. Cardinality(ConnHolders') = Cardinality(ConnHolders) + ConnAt(to) - ConnAt(pc[r])
        <2>1. ConnHolders' = ConnHolders \cup {r} \/ ConnHolders' = ConnHolders \ {r}
            BY <1>1 DEF ConnHolders
        <2>2. Cardinality(ConnHolders')
                  = Cardinality(ConnHolders) + Count(r \in ConnHolders') - Count(r \in ConnHolders)
            BY <2>1, HoldersFinite, MoveElement
        <2>3. Count(r \in ConnHolders') = ConnAt(to) /\ Count(r \in ConnHolders) = ConnAt(pc[r])
            BY <1>1 DEF ConnHolders, ConnAt, Count
        <2> QED
            BY <2>2, <2>3
    <1>4. \A p \in Places : TxAt(p) \in 0 .. 1 /\ ConnAt(p) \in 0 .. 1
        BY DEF TxAt, ConnAt, Count
    <1> QED
        BY <1>1, <1>2, <1>3, <1>4, HoldersFinite DEF PoolConserved, Held

LEMMA PoolStep == IInv /\ [Next]_vars => PoolConserved'
    <1> SUFFICES ASSUME IInv, [Next]_vars PROVE PoolConserved'
        OBVIOUS
    <1> USE DEF Places
    <1>0. inUse \in Nat /\ failed \in [Requests -> BOOLEAN]
        BY PoolAssumption DEF IInv, TypeOK
    <1>1. ASSUME NEW r \in Requests, Handler(r) PROVE PoolConserved'
        <2>1. CASE Submit(r)
            <3>1. \/ Move(r, "idle", "begin")
                  \/ Move(r, "idle", "page")
                <4>1. inUse' = inUse + Held("begin") - Held("idle")
                      /\ inUse' = inUse + Held("page") - Held("idle")
                    BY <2>1, <1>0, HeldTable DEF Submit
                <4> QED
                    BY <2>1, <4>1 DEF Submit, Move
            <3> QED
                BY <3>1, PoolMove
        <2>2. CASE Begin(r)
            <3>1. Move(r, "begin", "conn")
                BY <2>2, <1>0, HeldTable DEF Begin, Move
            <3> QED
                BY <3>1, PoolMove
        <2>3. CASE SendStatement(r)
            <3>1. Move(r, "conn", "exec")
                BY <2>3, <1>0, HeldTable DEF SendStatement, Move
            <3> QED
                BY <3>1, PoolMove
        <2>4. CASE StatementSucceeds(r)
            <3>1. \/ Move(r, "exec", "conn")
                  \/ Move(r, "exec", "commit")
                BY <2>4, <1>0, HeldTable DEF StatementSucceeds, Move
            <3> QED
                BY <3>1, PoolMove
        <2>5. CASE StatementFails(r)
            <3>1. Move(r, "exec", "commit")
                BY <2>5, <1>0, HeldTable DEF StatementFails, Move, Fail
            <3> QED
                BY <3>1, PoolMove
        <2>6. CASE Commit(r)
            <3>1. Move(r, "commit", "page")
                BY <2>6, <1>0, HeldTable DEF Commit, Move
            <3> QED
                BY <3>1, PoolMove
        <2>7. CASE SendQuery(r)
            <3>1. Move(r, "page", "read")
                BY <2>7, <1>0, HeldTable DEF SendQuery, Move
            <3> QED
                BY <3>1, PoolMove
        <2>8. CASE ReadPage(r)
            <3>1. Move(r, "read", "answered")
                BY <2>8, <1>0, HeldTable DEF ReadPage, Move
            <3> QED
                BY <3>1, PoolMove
        <2> QED
            BY <1>1, <2>1, <2>2, <2>3, <2>4, <2>5, <2>6, <2>7, <2>8 DEF Handler
    <1>2. ASSUME NEW r \in Requests, Server(r) PROVE PoolConserved'
        <2>1. pc' = pc /\ inUse' = inUse
            BY <1>2 DEF Server, Execute, Reject
        <2> QED
            BY <2>1 DEF IInv, PoolConserved, TxHolders, ConnHolders
    <1>3. ASSUME NEW r \in Requests, Trouble(r) PROVE PoolConserved'
        <2>1. CASE BeginFails(r)
            <3>1. Move(r, "begin", "page")
                BY <2>1, <1>0, HeldTable DEF BeginFails, Move
            <3> QED
                BY <3>1, PoolMove
        <2>2. CASE NetworkFails(r)
            <3>1. Move(r, "exec", "commit")
                BY <2>2, <1>0, HeldTable DEF NetworkFails, Move, Fail
            <3> QED
                BY <3>1, PoolMove
        <2>3. CASE ServerCloses(r)
            <3>1. \/ Move(r, "exec", "conn")
                  \/ Move(r, "exec", "commit")
                BY <2>3, <1>0, HeldTable DEF ServerCloses, Move, Fail
            <3> QED
                BY <3>1, PoolMove
        <2>4. CASE ReadFails(r)
            <3>1. Move(r, "read", "blank")
                BY <2>4, <1>0, HeldTable DEF ReadFails, Move
            <3> QED
                BY <3>1, PoolMove
        <2> QED
            BY <1>3, <2>1, <2>2, <2>3, <2>4 DEF Trouble
    <1>4. CASE UNCHANGED vars
        BY <1>4 DEF vars, IInv, PoolConserved, TxHolders, ConnHolders
    <1> QED
        BY <1>1, <1>2, <1>3, <1>4 DEF Next, Quiet

--------------------------------------------------------------------------------
(* Types.                                                                  *)

LEMMA SubmitType ==
    ASSUME IInv, NEW r \in Requests, Submit(r)
    PROVE  TypeOK'
    <1>1. PICK f \in Forms[r] :
            /\ form' = [form EXCEPT ![r] = f]
            /\ message' = [message EXCEPT ![r] = Precheck(f)]
            /\ pc' = [pc EXCEPT ![r] = IF Valid(f) THEN "begin" ELSE "page"]
        BY DEF Submit
    <1>2. f \in Form
        BY FormsAssumption
    <1>3. Precheck(f) \in Messages
        BY DEF Precheck, Messages
    <1>4. TypeOK
        BY DEF IInv
    <1>5. pc' \in [Requests -> Places]
        BY <1>1, <1>4 DEF TypeOK, Places
    <1>6. form' \in [Requests -> Form] /\ message' \in [Requests -> Messages]
        BY <1>1, <1>2, <1>3, <1>4 DEF TypeOK
    <1> QED
        BY <1>4, <1>5, <1>6 DEF Submit, TypeOK

LEMMA ExecuteType ==
    ASSUME IInv, NEW r \in Requests, Execute(r)
    PROVE  TypeOK'
    <1>1. TypeOK
        BY DEF IInv
    <1>2. RowsOf(r, form[r], attempt[r]) \subseteq Row
        BY <1>1, RowsOfType DEF TypeOK
    <1>3. Valid(form[r]) /\ idx[r] \in 1 .. Len(form[r].ids)
        BY DEF IInv, HandlerInv, OnlyValidRuns, Execute
    <1>4. form[r] \in Form /\ Targets(form[r]) \subseteq Alerts
        BY <1>1, TargetsType DEF TypeOK
    <1>5. form[r].ids[idx[r]] \in Alerts
        BY <1>3, <1>4, TargetsType
    <1>6. rows' \subseteq Row /\ effect' \in [Requests -> SUBSET Alerts]
        <2>1. CASE Insert(r)
            BY <2>1, <1>1, <1>2, <1>4 DEF Insert, TypeOK
        <2>2. CASE Delete(r)
            BY <2>2, <1>1, <1>5 DEF Delete, TypeOK
        <2> QED
            BY <2>1, <2>2 DEF Execute
    <1>7. stmt' \in [Requests -> {"none", "running", "done", "rejected"}]
        BY <1>1 DEF Execute, TypeOK
    <1> QED
        BY <1>1, <1>6, <1>7 DEF Execute, TypeOK

LEMMA TypeStep == IInv /\ [Next]_vars => TypeOK'
    <1> SUFFICES ASSUME IInv, [Next]_vars PROVE TypeOK'
        OBVIOUS
    <1>0. TypeOK /\ MaxOpenConns \in Nat
        BY PoolAssumption DEF IInv
    <1>h. ASSUME NEW r \in Requests, pc[r] \in {"exec", "read", "commit"}
          PROVE  inUse - 1 \in 0 .. MaxOpenConns
        <2>1. r \in TxHolders \/ r \in ConnHolders
            BY <1>h DEF TxHolders, ConnHolders
        <2>2. inUse >= 1
            BY <2>1, HolderCounted
        <2> QED
            BY <1>0, <2>2 DEF TypeOK
    <1>1. ASSUME NEW r \in Requests, Handler(r) PROVE TypeOK'
        <2>1. CASE Submit(r)
            BY <2>1, SubmitType
        <2>2. CASE Begin(r)
            BY <1>0, <2>2 DEF Begin, TypeOK, Places
        <2>3. CASE SendStatement(r)
            BY <1>0, <2>3 DEF SendStatement, TypeOK, Places
        <2>4. CASE StatementSucceeds(r)
            <3>1. inUse' \in 0 .. MaxOpenConns
                BY <1>h, <2>4 DEF StatementSucceeds
            <3>2. pc' \in [Requests -> Places]
                BY <1>0, <2>4 DEF StatementSucceeds, TypeOK, Places
            <3>4. idx' \in [Requests -> Nat \ {0}]
                <4>1. idx' = idx \/ idx' = [idx EXCEPT ![r] = idx[r] + 1]
                    BY <2>4 DEF StatementSucceeds
                <4> QED
                    BY <1>0, <4>1 DEF TypeOK
            <3>5. attempt' \in [Requests -> 1 .. MaxAttempts]
                <4>1. attempt' = attempt \/ attempt' = [attempt EXCEPT ![r] = 1]
                    BY <2>4 DEF StatementSucceeds
                <4> QED
                    BY <1>0, <4>1, AttemptsAssumption DEF TypeOK
            <3>3. stmt' \in [Requests -> {"none", "running", "done", "rejected"}]
                BY <1>0, <2>4 DEF StatementSucceeds, TypeOK
            <3> QED
                BY <1>0, <2>4, <3>1, <3>2, <3>3, <3>4, <3>5 DEF StatementSucceeds, TypeOK
        <2>5. CASE StatementFails(r)
            BY <1>0, <1>h, <2>5 DEF StatementFails, Fail, TypeOK, Places
        <2>6. CASE Commit(r)
            BY <1>0, <1>h, <2>6 DEF Commit, TypeOK, Places, Messages
        <2>7. CASE SendQuery(r)
            BY <1>0, <2>7 DEF SendQuery, TypeOK, Places
        <2>8. CASE ReadPage(r)
            <3>1. Listed(form[r]) \subseteq Alerts
                BY <1>0 DEF Listed, ClassifiedBy, TypeOK, Row
            <3> QED
                BY <1>0, <1>h, <2>8, <3>1 DEF ReadPage, TypeOK, Places
        <2> QED
            BY <1>1, <2>1, <2>2, <2>3, <2>4, <2>5, <2>6, <2>7, <2>8 DEF Handler
    <1>2. ASSUME NEW r \in Requests, Server(r) PROVE TypeOK'
        <2>1. CASE Execute(r)
            BY <2>1, ExecuteType
        <2>2. CASE Reject(r)
            BY <1>0, <2>2 DEF Reject, TypeOK
        <2> QED
            BY <1>2, <2>1, <2>2 DEF Server
    <1>3. ASSUME NEW r \in Requests, Trouble(r) PROVE TypeOK'
        <2>1. CASE BeginFails(r)
            BY <1>0, <2>1 DEF BeginFails, TypeOK, Places, Messages
        <2>2. CASE NetworkFails(r)
            BY <1>0, <1>h, <2>2 DEF NetworkFails, Fail, TypeOK, Places
        <2>3. CASE ServerCloses(r)
            <3>1. inUse' \in 0 .. MaxOpenConns
                BY <1>h, <2>3 DEF ServerCloses
            <3>2. /\ pc' \in [Requests -> Places]
                  /\ failed' \in [Requests -> BOOLEAN]
                BY <1>0, <2>3 DEF ServerCloses, Fail, TypeOK, Places
            <3>3. attempt' \in [Requests -> 1 .. MaxAttempts]
                BY <1>0, <2>3, AttemptsAssumption DEF ServerCloses, Fail, TypeOK
            <3>4. stmt' \in [Requests -> {"none", "running", "done", "rejected"}]
                BY <1>0, <2>3 DEF ServerCloses, TypeOK
            <3> QED
                BY <1>0, <2>3, <3>1, <3>2, <3>3, <3>4 DEF ServerCloses, TypeOK
        <2>4. CASE ReadFails(r)
            BY <1>0, <1>h, <2>4 DEF ReadFails, TypeOK, Places
        <2> QED
            BY <1>3, <2>1, <2>2, <2>3, <2>4 DEF Trouble
    <1>4. CASE UNCHANGED vars
        BY <1>0, <1>4 DEF vars, TypeOK
    <1> QED
        BY <1>1, <1>2, <1>3, <1>4 DEF Next, Quiet

--------------------------------------------------------------------------------
(* The handler's invariant.                                                *)

(* A step of r leaves the variables of the other requests alone. *)
LEMMA OthersStill ==
    ASSUME IInv, NEW r \in Requests, Handler(r) \/ Server(r) \/ Trouble(r),
           NEW q \in Requests, q # r
    PROVE  /\ pc'[q] = pc[q] /\ form'[q] = form[q]
           /\ idx'[q] = idx[q] /\ attempt'[q] = attempt[q]
           /\ stmt'[q] = stmt[q] /\ failed'[q] = failed[q]
           /\ message'[q] = message[q] /\ effect'[q] = effect[q]
    <1> TypeOK
        BY DEF IInv
    <1>1. CASE Handler(r)
        BY <1>1 DEF Handler, Submit, Begin, SendStatement, StatementSucceeds,
                    StatementFails, Fail, Commit, SendQuery, ReadPage, TypeOK
    <1>2. CASE Server(r)
        BY <1>2 DEF Server, Execute, Insert, Delete, Reject, TypeOK
    <1>3. CASE Trouble(r)
        BY <1>3 DEF Trouble, BeginFails, NetworkFails, ServerCloses, Fail, ReadFails, TypeOK
    <1> QED
        BY <1>1, <1>2, <1>3

LEMMA OthersUntouched ==
    ASSUME IInv, NEW r \in Requests, Handler(r) \/ Server(r) \/ Trouble(r),
           NEW q \in Requests, q # r
    PROVE  HandlerInv(q)'
    BY OthersStill, Frame DEF IInv

LEMMA SubmitInv ==
    ASSUME IInv, NEW r \in Requests, Submit(r)
    PROVE  HandlerInv(r)'
    <1>1. PICK f \in Forms[r] :
            /\ form' = [form EXCEPT ![r] = f]
            /\ message' = [message EXCEPT ![r] = Precheck(f)]
            /\ pc' = [pc EXCEPT ![r] = IF Valid(f) THEN "begin" ELSE "page"]
        BY DEF Submit
    <1>2. TypeOK /\ HandlerInv(r)
        BY DEF IInv
    <1>3. f \in Form
        BY FormsAssumption
    <1>4. /\ effect'[r] = {} /\ stmt'[r] = "none" /\ ~failed'[r] /\ idx'[r] = 1
          /\ form'[r] = f /\ message'[r] = Precheck(f)
          /\ pc'[r] = IF Valid(f) THEN "begin" ELSE "page"
        BY <1>1, <1>2 DEF Submit, HandlerInv, Untouched, TypeOK
    <1>5. Valid(f) => Len(f.ids) \in Nat \ {0}
        BY <1>3, TargetsType
    <1>6. Precheck(f) = "none" /\ ~Valid(f) => Targets(f) = {}
        BY DEF Precheck, Targets
    <1>7. /\ Untouched(r)' /\ OrphanFailed(r)' /\ FailureReported(r)'
        BY <1>4 DEF Untouched, OrphanFailed, FailureReported
    <1>8. OnlyValidRuns(r)'
        BY <1>4, <1>5 DEF OnlyValidRuns
    <1>9. Progress(r)'
        BY <1>4 DEF Progress
    <1>10. MessageTrue(r)'
        BY <1>4, <1>6 DEF MessageTrue
    <1> QED
        BY <1>7, <1>8, <1>9, <1>10 DEF HandlerInv

(* Steps that change neither the table nor what has been passed. *)
LEMMA PlainStepsInv ==
    ASSUME IInv, NEW r \in Requests,
           \/ Begin(r) \/ BeginFails(r) \/ SendStatement(r)
           \/ StatementFails(r) \/ NetworkFails(r) \/ ServerCloses(r)
           \/ Commit(r) \/ SendQuery(r) \/ ReadPage(r) \/ ReadFails(r) \/ Reject(r)
    PROVE  HandlerInv(r)'
    <1>1. TypeOK /\ HandlerInv(r)
        BY DEF IInv
    <1>2. form'[r] = form[r] /\ idx'[r] = idx[r] /\ effect'[r] = effect[r]
        BY DEF Begin, BeginFails, SendStatement, StatementFails, NetworkFails, ServerCloses,
               Commit, SendQuery, ReadPage, ReadFails, Reject
    <1> USE DEF HandlerInv, Untouched, OnlyValidRuns, OrphanFailed, FailureReported,
                Progress, MessageTrue, Passed
    <1>3. CASE Begin(r)
        <2>1. /\ pc'[r] = "conn" /\ pc[r] = "begin"
              /\ stmt'[r] = stmt[r] /\ failed'[r] = failed[r] /\ message'[r] = message[r]
            BY <1>1, <1>3 DEF Begin, TypeOK
        <2> QED
            BY <1>1, <1>2, <2>1
    <1>4. CASE BeginFails(r)
        <2>1. /\ pc'[r] = "page" /\ pc[r] = "begin" /\ message'[r] = "error"
              /\ stmt'[r] = stmt[r] /\ failed'[r] = failed[r]
            BY <1>1, <1>4 DEF BeginFails, TypeOK
        <2> QED
            BY <1>1, <1>2, <2>1
    <1>5. CASE SendStatement(r)
        <2>1. /\ pc'[r] = "exec" /\ pc[r] = "conn" /\ stmt'[r] = "running"
              /\ failed'[r] = failed[r] /\ message'[r] = message[r]
            BY <1>1, <1>5 DEF SendStatement, TypeOK
        <2> QED
            BY <1>1, <1>2, <2>1
    <1>6. CASE StatementFails(r) \/ NetworkFails(r)
        <2>1. /\ pc'[r] = "commit" /\ pc[r] = "exec" /\ failed'[r] = TRUE
              /\ stmt'[r] = stmt[r] /\ message'[r] = message[r]
            BY <1>1, <1>6 DEF StatementFails, NetworkFails, Fail, TypeOK
        <2> QED
            BY <1>1, <1>2, <2>1
    <1>7. CASE ServerCloses(r)
        <2>1. /\ pc[r] = "exec" /\ stmt'[r] = "none" /\ message'[r] = message[r]
              /\ \/ pc'[r] = "conn" /\ failed'[r] = failed[r]
                 \/ pc'[r] = "commit" /\ failed'[r] = TRUE
            BY <1>1, <1>7 DEF ServerCloses, Fail, TypeOK
        <2> QED
            BY <1>1, <1>2, <2>1
    <1>8. CASE Commit(r)
        <2>1. /\ pc[r] = "commit" /\ pc'[r] = "page"
              /\ message'[r] = IF failed[r] THEN "refresh" ELSE "none"
              /\ stmt'[r] = stmt[r] /\ failed'[r] = failed[r]
            BY <1>1, <1>8 DEF Commit, TypeOK
        <2> QED
            BY <1>1, <1>2, <2>1
    <1>9. CASE SendQuery(r) \/ ReadPage(r) \/ ReadFails(r)
        <2>1. /\ pc[r] \in {"page", "read"} /\ pc'[r] \in {"read", "answered", "blank"}
              /\ stmt'[r] = stmt[r] /\ failed'[r] = failed[r] /\ message'[r] = message[r]
            BY <1>1, <1>9 DEF SendQuery, ReadPage, ReadFails, TypeOK
        <2> QED
            BY <1>1, <1>2, <2>1
    <1>10. CASE Reject(r)
        <2>1. /\ stmt[r] = "running" /\ stmt'[r] = "rejected" /\ pc'[r] = pc[r]
              /\ failed'[r] = failed[r] /\ message'[r] = message[r]
            BY <1>1, <1>10 DEF Reject, TypeOK
        <2> QED
            BY <1>1, <1>2, <2>1
    <1> QED
        BY <1>3, <1>4, <1>5, <1>6, <1>7, <1>8, <1>9, <1>10

(* A statement runs: late ones only belong to requests told to refresh. *)
LEMMA ExecuteInv ==
    ASSUME IInv, NEW r \in Requests, Execute(r)
    PROVE  HandlerInv(r)'
    <1>1. TypeOK /\ HandlerInv(r)
        BY DEF IInv
    <1>2. /\ form'[r] = form[r] /\ idx'[r] = idx[r] /\ pc'[r] = pc[r]
          /\ failed'[r] = failed[r] /\ message'[r] = message[r]
          /\ stmt[r] = "running" /\ stmt'[r] = "done"
        BY <1>1 DEF Execute, TypeOK
    <1>3. Valid(form[r]) /\ idx[r] \in 1 .. Len(form[r].ids) /\ form[r] \in Form
        BY <1>1 DEF HandlerInv, OnlyValidRuns, Execute, TypeOK
    <1>4. form[r].ids[idx[r]] \in Targets(form[r])
        BY <1>3, TargetsType
    <1>5. pc[r] = "exec" \/ failed[r]
        BY <1>1, <1>2 DEF HandlerInv, OrphanFailed
    <1>6. \/ form[r].kind = "classify" /\ effect'[r] = Targets(form[r])
          \/ /\ form[r].kind = "unclassify"
             /\ effect'[r] = effect[r] \cup {form[r].ids[idx[r]]}
        BY <1>1 DEF Execute, Insert, Delete, TypeOK
    <1>7. Targets(form'[r]) = Targets(form[r])
        BY <1>2
    <1>8. Untouched(r)' /\ OnlyValidRuns(r)' /\ OrphanFailed(r)' /\ FailureReported(r)'
        BY <1>1, <1>2, <1>3, <1>5
           DEF HandlerInv, Untouched, OnlyValidRuns, OrphanFailed, FailureReported
    <1>9. Progress(r)'
        <2>1. effect'[r] \subseteq Targets(form[r]) /\ effect[r] \subseteq effect'[r]
            BY <1>1, <1>4, <1>6 DEF HandlerInv, Progress
        <2>2. pc[r] = "commit" => failed[r]
            BY <1>5
        <2> QED
            BY <1>1, <1>2, <1>6, <2>1, <2>2 DEF HandlerInv, Progress, Passed
    <1>10. MessageTrue(r)'
        BY <1>1, <1>2, <1>5 DEF HandlerInv, MessageTrue, FailureReported
    <1> QED
        BY <1>8, <1>9, <1>10 DEF HandlerInv

(* The delete loop goes on, or everything has been passed. *)
LEMMA SucceedsInv ==
    ASSUME IInv, NEW r \in Requests, StatementSucceeds(r)
    PROVE  HandlerInv(r)'
    <1>1. TypeOK /\ HandlerInv(r)
        BY DEF IInv
    <1>2. /\ form'[r] = form[r] /\ failed'[r] = failed[r] /\ message'[r] = message[r]
          /\ effect'[r] = effect[r] /\ stmt'[r] = "none"
          /\ pc[r] = "exec" /\ stmt[r] = "done"
        BY <1>1 DEF StatementSucceeds, TypeOK
    <1>3. /\ Valid(form[r]) /\ idx[r] \in 1 .. Len(form[r].ids) /\ form[r] \in Form
          /\ idx[r] \in Nat \ {0} /\ ~failed[r]
        BY <1>1, <1>2 DEF HandlerInv, OnlyValidRuns, OrphanFailed, TypeOK
    <1>4. /\ Targets(form[r]) = {form[r].ids[i] : i \in 1 .. Len(form[r].ids)}
          /\ Len(form[r].ids) \in Nat \ {0}
        BY <1>3, TargetsType
    <1>5. effect[r] \subseteq Targets(form[r])
        BY <1>1 DEF HandlerInv, Progress
    <1>6. form[r].kind = "unclassify" =>
              \A i \in 1 .. idx[r] : form[r].ids[i] \in effect[r]
        <2>1. form[r].kind = "unclassify" =>
                  Passed(r) \subseteq effect[r] /\ form[r].ids[idx[r]] \in effect[r]
            BY <1>1, <1>2 DEF HandlerInv, Progress
        <2>2. \A i \in 1 .. idx[r] : i = idx[r] \/ i \in 1 .. idx[r] - 1
            BY <1>3
        <2> QED
            BY <2>1, <2>2 DEF Passed
    <1>7. form[r].kind = "classify" => effect[r] = Targets(form[r])
        BY <1>1, <1>2 DEF HandlerInv, Progress
    <1>8. CASE pc'[r] = "conn"
        <2>1. /\ form[r].kind = "unclassify" /\ idx[r] < Len(form[r].ids)
              /\ idx'[r] = idx[r] + 1
            BY <1>1, <1>8 DEF StatementSucceeds, TypeOK
        <2>2. Passed(r)' \subseteq effect[r]
            <3>1. idx'[r] - 1 = idx[r]
                BY <1>3, <2>1
            <3> QED
                BY <1>2, <1>6, <2>1, <3>1 DEF Passed
        <2>3. idx'[r] \in 1 .. Len(form[r].ids)
            BY <1>3, <1>4, <2>1
        <2>4. Progress(r)'
            BY <1>2, <1>5, <1>8, <2>1, <2>2 DEF Progress
        <2> QED
            BY <1>2, <1>3, <1>8, <2>3, <2>4
               DEF HandlerInv, Untouched, OnlyValidRuns, OrphanFailed, FailureReported, MessageTrue
    <1>9. CASE pc'[r] = "commit"
        <2>1. idx'[r] = idx[r] /\ (form[r].kind = "classify" \/ idx[r] = Len(form[r].ids))
            BY <1>1, <1>9 DEF StatementSucceeds, TypeOK
        <2>2. form[r].kind \in {"classify", "unclassify"}
            BY <1>3 DEF Valid, Changes
        <2>3. effect[r] = Targets(form[r])
            BY <1>4, <1>5, <1>6, <1>7, <2>1, <2>2
        <2>4. Progress(r)'
            BY <1>2, <1>9, <2>3 DEF Progress
        <2> QED
            BY <1>2, <1>3, <1>9, <2>1, <2>4
               DEF HandlerInv, Untouched, OnlyValidRuns, OrphanFailed, FailureReported, MessageTrue
    <1> QED
        BY <1>1, <1>8, <1>9 DEF StatementSucceeds, TypeOK

(* The invariant is inductive. *)
LEMMA InductiveInv == IInv /\ [Next]_vars => IInv'
    <1> SUFFICES ASSUME IInv, [Next]_vars PROVE IInv'
        OBVIOUS
    <1>1. TypeOK' /\ PoolConserved'
        BY TypeStep, PoolStep
    <1>2. ASSUME NEW q \in Requests PROVE HandlerInv(q)'
        <2>1. CASE UNCHANGED vars
            BY <2>1, Frame DEF vars, IInv
        <2>2. ASSUME NEW r \in Requests, Handler(r) \/ Server(r) \/ Trouble(r)
              PROVE  HandlerInv(q)'
            <3>1. CASE q # r
                BY <2>2, <3>1, OthersUntouched
            <3>2. CASE q = r
                BY <2>2, <3>2, SubmitInv, PlainStepsInv, ExecuteInv, SucceedsInv
                   DEF Handler, Server, Trouble
            <3> QED
                BY <3>1, <3>2
        <2> QED
            BY <2>1, <2>2 DEF Next, Quiet
    <1> QED
        BY <1>1, <1>2 DEF IInv

LEMMA Invariance == Spec => []IInv
    BY InitIInv, InductiveInv, PTL DEF Spec

--------------------------------------------------------------------------------
(* Theorems.                                                               *)

(* Every variable keeps its type; in particular the pool never counts less *)
(* than no connection or more than MaxOpenConns.                           *)
THEOREM TypeCorrect == Spec => []TypeOK
    <1>1. IInv => TypeOK
        BY DEF IInv
    <1> QED
        BY <1>1, Invariance, PTL

(* No way through the handlers of /alerts and /classified leaks a          *)
(* connection or gives one back twice.                                     *)
THEOREM PoolCorrect == Spec => []PoolConserved
    <1>1. IInv => PoolConserved
        BY DEF IInv
    <1> QED
        BY <1>1, Invariance, PTL

(* Handlers wait for each other for ever only when as many classifications *)
(* as the pool has connections are between db.Begin and their first Exec.  *)
THEOREM WedgeCorrect == Spec => []WedgeNeedsFullHouse
    <1>1. ASSUME IInv, Wedged
          PROVE  Cardinality({r \in Requests : pc[r] = "conn"}) = MaxOpenConns
        <2>1. ConnHolders = {} /\ TxHolders = {r \in Requests : pc[r] = "conn"}
            BY <1>1 DEF Wedged, ConnHolders, TxHolders
        <2>2. Cardinality(ConnHolders) = 0
            BY <2>1, FS_EmptySet
        <2> QED
            BY <1>1, <2>1, <2>2, HoldersFinite DEF IInv, PoolConserved, Wedged
    <1>2. IInv => WedgeNeedsFullHouse
        BY <1>1 DEF WedgeNeedsFullHouse
    <1> QED
        BY <1>2, Invariance, PTL

(* A server that never has MaxOpenConns requests at once never stops.      *)
THEOREM SmallLoadNeverWedges ==
    ASSUME Cardinality(Requests) < MaxOpenConns
    PROVE  Spec => []NoWedge
    <1>1. WedgeNeedsFullHouse => NoWedge
        <2> DEFINE Waiting == {r \in Requests : pc[r] = "conn"}
        <2>1. Waiting \in SUBSET Requests
            OBVIOUS
        <2>2. Cardinality(Waiting) <= Cardinality(Requests) /\ IsFiniteSet(Waiting)
            BY <2>1, RequestsAssumption, FS_Subset
        <2>3. Cardinality(Waiting) \in Nat /\ Cardinality(Requests) \in Nat
            BY <2>2, RequestsAssumption, FS_CardinalityType
        <2> QED
            BY <2>2, <2>3, PoolAssumption DEF WedgeNeedsFullHouse, NoWedge
    <1> QED
        BY <1>1, WedgeCorrect, PTL

(* Whatever fails, is sent twice or runs late, the message of an answered  *)
(* page is true of what the request did to the table.                      *)
THEOREM AnswersCorrect == Spec => []AnswerTellsTruth
    <1>1. IInv => AnswerTellsTruth
        BY DEF IInv, HandlerInv, MessageTrue, Progress, AnswerTellsTruth
    <1> QED
        BY <1>1, Invariance, PTL

--------------------------------------------------------------------------------
(* The handlers implement the ledger.                                      *)

(* The ledger reads forms and rows as the handlers do. *)
LEMMA SameNotions ==
    /\ Ledger!NoForm = NoForm
    /\ Ledger!EarlierRows = EarlierRows
    /\ \A f : Ledger!Targets(f) = Targets(f)
    /\ \A t : Ledger!ClassifiedBy(t) = ClassifiedBy(t)
    /\ \A r, f, n : Ledger!RowsOf(r, f, n) = RowsOf(r, f, n)
    BY DEF Ledger!NoForm, NoForm, Ledger!EarlierRows, EarlierRows,
           Ledger!Targets, Targets, Ledger!Valid, Valid, Ledger!Changes, Changes,
           Ledger!Range, Range,
           Ledger!ClassifiedBy, ClassifiedBy, Ledger!RowsOf, RowsOf

(* What the analyst of request q has been told depends on q's own handler. *)
LEMMA OutcomeFrame ==
    ASSUME NEW q, pc'[q] = pc[q], message'[q] = message[q]
    PROVE  Outcome(q)' = Outcome(q)
    BY DEF Outcome

(* Most steps only matter to the pool or to the handler: the ledger does   *)
(* not see them.                                                           *)
LEMMA LedgerStutters ==
    ASSUME IInv, NEW r \in Requests,
           \/ Begin(r) \/ BeginFails(r) \/ SendStatement(r) \/ Reject(r)
           \/ StatementSucceeds(r) \/ StatementFails(r) \/ NetworkFails(r) \/ ServerCloses(r)
           \/ Commit(r) \/ SendQuery(r)
    PROVE  UNCHANGED Ledger!vars
    <1>1. TypeOK
        BY DEF IInv
    <1>2. UNCHANGED <<form, rows, effect>>
        BY DEF Begin, BeginFails, SendStatement, Reject, StatementSucceeds, StatementFails,
               NetworkFails, ServerCloses, Commit, SendQuery
    <1>3. ASSUME NEW q \in Requests PROVE Outcome(q)' = Outcome(q)
        <2>1. CASE q # r
            <3>1. pc'[q] = pc[q] /\ message'[q] = message[q]
                BY <1>1, <2>1 DEF Begin, BeginFails, SendStatement, Reject, StatementSucceeds,
                                  StatementFails, NetworkFails, ServerCloses, Fail, Commit,
                                  SendQuery, TypeOK
            <3> QED
                BY <3>1, OutcomeFrame
        <2>2. CASE q = r
            <3>1. CASE Reject(r)
                BY <3>1, <2>2, OutcomeFrame DEF Reject
            <3>2. CASE ~Reject(r)
                <4>1. /\ pc[r] \in {"begin", "conn", "exec", "commit", "page"}
                      /\ pc'[r] \in {"conn", "exec", "commit", "page", "read"}
                    BY <1>1, <3>2 DEF Begin, BeginFails, SendStatement, StatementSucceeds,
                                  StatementFails, NetworkFails, ServerCloses, Fail, Commit,
                                  SendQuery, TypeOK
                <4> QED
                    BY <2>2, <4>1 DEF Outcome
            <3> QED
                BY <3>1, <3>2
        <2> QED
            BY <2>1, <2>2
    <1> QED
        BY <1>2, <1>3 DEF Ledger!vars

(* The ledger's outcome changes at one request at a time. *)
LEMMA OutcomeMove ==
    ASSUME NEW r \in Requests, NEW o, Outcome(r)' = o,
           \A q \in Requests : q # r => pc'[q] = pc[q] /\ message'[q] = message[q]
    PROVE  [q \in Requests |-> Outcome(q)]'
               = [[q \in Requests |-> Outcome(q)] EXCEPT ![r] = o]
    <1>1. \A q \in Requests : q # r => Outcome(q)' = Outcome(q)
        BY OutcomeFrame
    <1> QED
        BY <1>1

LEMMA LedgerAsks ==
    ASSUME IInv, NEW r \in Requests, Submit(r)
    PROVE  Ledger!Ask(r)
    <1>1. PICK f \in Forms[r] :
            /\ form' = [form EXCEPT ![r] = f]
            /\ pc' = [pc EXCEPT ![r] = IF Valid(f) THEN "begin" ELSE "page"]
        BY DEF Submit
    <1>2. TypeOK /\ UNCHANGED <<rows, effect>> /\ pc[r] = "idle"
        BY DEF Submit, IInv
    <1>3. \A q \in Requests : q # r => pc'[q] = pc[q] /\ message'[q] = message[q]
        BY <1>2 DEF Submit, TypeOK
    <1>4. pc'[r] \in {"begin", "page"}
        BY <1>1, <1>2 DEF TypeOK
    <1>5. Outcome(r) = "idle" /\ Outcome(r)' = "open"
        BY <1>2, <1>4 DEF Outcome
    <1>6. [q \in Requests |-> Outcome(q)]'
              = [[q \in Requests |-> Outcome(q)] EXCEPT ![r] = "open"]
        BY <1>3, <1>5, OutcomeMove
    <1> QED
        BY <1>1, <1>2, <1>5, <1>6 DEF Ledger!Ask

(* A statement that runs, in time or late, is a step of the ledger. *)
LEMMA LedgerMarksOrClears ==
    ASSUME IInv, NEW r \in Requests, Execute(r)
    PROVE  Ledger!Mark(r) \/ \E a \in Alerts : Ledger!Clear(r, a)
    <1>1. TypeOK /\ HandlerInv(r)
        BY DEF IInv
    <1>2. UNCHANGED <<form, pc, message>> /\ stmt[r] = "running"
        BY DEF Execute
    <1>3. Valid(form[r]) /\ idx[r] \in 1 .. Len(form[r].ids) /\ form[r] \in Form
        BY <1>1, <1>2 DEF HandlerInv, OnlyValidRuns, TypeOK
    <1>4. pc[r] = "exec" \/ failed[r]
        BY <1>1, <1>2 DEF HandlerInv, OrphanFailed
    <1>5. Outcome(r) \in {"open", "unknown"}
        <2>1. CASE pc[r] = "exec"
            BY <2>1 DEF Outcome
        <2>2. CASE failed[r]
            <3>1. /\ pc[r] \in {"commit", "page", "read", "answered", "blank"}
                  /\ pc[r] = "answered" => message[r] = "refresh"
                BY <1>1, <2>2 DEF HandlerInv, OrphanFailed, FailureReported
            <3> QED
                BY <3>1 DEF Outcome
        <2> QED
            BY <1>4, <2>1, <2>2
    <1>6. UNCHANGED [q \in Requests |-> Outcome(q)]
        BY <1>2, OutcomeFrame
    <1>7. CASE form[r].kind = "classify" /\ Insert(r)
        <2>1. attempt[r] \in 1 .. MaxAttempts
            BY <1>1 DEF TypeOK
        <2> QED
            BY <1>2, <1>5, <1>6, <1>7, <2>1, SameNotions DEF Ledger!Mark, Ledger!Unsettled, Insert
    <1>8. CASE form[r].kind = "unclassify" /\ Delete(r)
        <2>1. form[r].ids[idx[r]] \in Targets(form[r]) /\ Targets(form[r]) \subseteq Alerts
            BY <1>3, TargetsType
        <2>2. Ledger!Clear(r, form[r].ids[idx[r]])
            BY <1>2, <1>5, <1>6, <1>8, <2>1, SameNotions DEF Ledger!Clear, Ledger!Unsettled, Delete
        <2> QED
            BY <2>1, <2>2
    <1> QED
        BY <1>7, <1>8 DEF Execute

(* The answer tells the analyst no more than what has happened. *)
LEMMA LedgerTells ==
    ASSUME IInv, NEW r \in Requests, ReadPage(r) \/ ReadFails(r)
    PROVE  \E o \in {"done", "nothing", "unknown"} : Ledger!Tell(r, o)
    <1>1. TypeOK /\ HandlerInv(r)
        BY DEF IInv
    <1>2. UNCHANGED <<form, rows, effect, message>> /\ pc[r] = "read"
        BY DEF ReadPage, ReadFails
    <1>3. \A q \in Requests : q # r => pc'[q] = pc[q] /\ message'[q] = message[q]
        BY <1>1, <1>2 DEF ReadPage, ReadFails, TypeOK
    <1>4. Outcome(r) = "open"
        BY <1>2 DEF Outcome
    <1>5. pc'[r] \in {"answered", "blank"}
        BY <1>1 DEF ReadPage, ReadFails, TypeOK
    <1>6. message[r] \in Messages
        BY <1>1 DEF TypeOK
    <1>7. /\ Outcome(r)' \in {"done", "nothing", "unknown"}
          /\ Outcome(r)' = "done" => message[r] = "none"
          /\ Outcome(r)' = "nothing" => message[r] \in {"noids", "error"}
        BY <1>2, <1>5, <1>6 DEF Outcome, Messages
    <1>8. /\ message[r] = "none" => effect[r] = Targets(form[r])
          /\ message[r] \in {"noids", "error"} => effect[r] = {}
        BY <1>1, <1>2 DEF HandlerInv, MessageTrue
    <1>9. [q \in Requests |-> Outcome(q)]'
              = [[q \in Requests |-> Outcome(q)] EXCEPT ![r] = Outcome(r)']
        BY <1>3, OutcomeMove
    <1>10. Ledger!Tell(r, Outcome(r)')
        BY <1>2, <1>4, <1>7, <1>8, <1>9, SameNotions DEF Ledger!Tell
    <1> QED
        BY <1>7, <1>10

(* The handlers, over their pool, their connections and their retries,     *)
(* keep every promise of ClassificationLedger.                             *)
THEOREM LedgerImplemented == Spec => ImplementsLedger
    <1>1. Init => Ledger!Init
        BY SameNotions DEF Init, Ledger!Init, Outcome
    <1>2. IInv /\ [Next]_vars => [Ledger!Next]_(Ledger!vars)
        <2> SUFFICES ASSUME IInv, [Next]_vars
                     PROVE  [Ledger!Next]_(Ledger!vars)
            OBVIOUS
        <2>1. ASSUME NEW r \in Requests, Handler(r) \/ Server(r) \/ Trouble(r)
              PROVE  [Ledger!Next]_(Ledger!vars)
            <3>1. CASE Submit(r)
                BY <3>1, LedgerAsks DEF Ledger!Next
            <3>2. CASE Execute(r)
                BY <3>2, LedgerMarksOrClears DEF Ledger!Next
            <3>3. CASE ReadPage(r) \/ ReadFails(r)
                BY <3>3, LedgerTells DEF Ledger!Next
            <3> QED
                BY <2>1, <3>1, <3>2, <3>3, LedgerStutters DEF Handler, Server, Trouble
        <2>2. CASE UNCHANGED vars
            <3>1. UNCHANGED <<form, rows, effect, pc, message>>
                BY <2>2 DEF vars
            <3> QED
                BY <3>1, OutcomeFrame DEF Ledger!vars
        <2> QED
            BY <2>1, <2>2 DEF Next, Quiet
    <1> QED
        BY <1>1, <1>2, Invariance, PTL DEF Spec, ImplementsLedger, Ledger!Spec

--------------------------------------------------------------------------------
(* Retries.                                                                *)

(* An INSERT is one statement: idx never moves for it. *)
OneInsert(r) == form[r].kind = "classify" => idx[r] = 1

OneInserts == \A r \in Requests : OneInsert(r)

LEMMA InsertStaysOne == IInv /\ OneInserts /\ [Next]_vars => OneInserts'
    <1> SUFFICES ASSUME IInv, OneInserts, [Next]_vars, NEW q \in Requests
                 PROVE  OneInsert(q)'
        BY DEF OneInserts
    <1>1. TypeOK /\ OneInsert(q) /\ HandlerInv(q)
        BY DEF IInv, OneInserts
    <1>2. CASE form'[q] = form[q] /\ idx'[q] = idx[q]
        BY <1>1, <1>2 DEF OneInsert
    <1>3. CASE Submit(q)
        BY <1>1, <1>3 DEF Submit, OneInsert, HandlerInv, Untouched
    <1>4. CASE StatementSucceeds(q)
        BY <1>1, <1>4 DEF StatementSucceeds, OneInsert, TypeOK
    <1>5. ASSUME NEW r \in Requests, Handler(r) \/ Server(r) \/ Trouble(r)
          PROVE  \/ form'[q] = form[q] /\ idx'[q] = idx[q]
                 \/ Submit(q)
                 \/ StatementSucceeds(q)
        <2>1. CASE Submit(r) \/ StatementSucceeds(r)
            BY <1>1, <2>1 DEF Submit, StatementSucceeds, TypeOK
        <2>2. CASE ~(Submit(r) \/ StatementSucceeds(r))
            <3>1. UNCHANGED <<form, idx>>
                BY <1>5, <2>2 DEF Handler, Begin, SendStatement, StatementFails, Commit,
                   SendQuery, ReadPage, Server, Execute, Reject, Trouble, BeginFails,
                   NetworkFails, ServerCloses, ReadFails
            <3> QED
                BY <3>1
        <2> QED
            BY <2>1, <2>2
    <1>6. CASE UNCHANGED vars
        BY <1>2, <1>6 DEF vars
    <1> QED
        BY <1>2, <1>3, <1>4, <1>5, <1>6 DEF Next, Quiet

(* The ids of a form of which one is still to be handled. *)
IdsLeft(r) == (IF form[r].kind = "unclassify" THEN Len(form[r].ids) ELSE 1) - idx[r]

LEMMA SendsLeftType ==
    ASSUME IInv, OneInserts, NEW r \in Requests, pc[r] \in {"begin", "conn", "exec"}
    PROVE  /\ IdsLeft(r) \in Nat /\ SendsLeft(r) \in Nat
           /\ SendsLeft(r) = IdsLeft(r) * MaxAttempts + (MaxAttempts - attempt[r])
    <1>1. /\ Valid(form[r]) /\ idx[r] \in 1 .. Len(form[r].ids)
          /\ form[r].ids \in Seq(Alerts \cup {NaN})
          /\ attempt[r] \in 1 .. MaxAttempts
        BY DEF IInv, HandlerInv, OnlyValidRuns, TypeOK, Form
    <1>2. form[r].kind # "unclassify" => idx[r] = 1
        BY <1>1 DEF Valid, Changes, OneInserts, OneInsert
    <1>3. Len(form[r].ids) \in Nat
        BY <1>1
    <1>4. IdsLeft(r) \in Nat
        BY <1>1, <1>2, <1>3 DEF IdsLeft
    <1>5. SendsLeft(r) = IdsLeft(r) * MaxAttempts + (MaxAttempts - attempt[r])
        BY DEF SendsLeft, IdsLeft
    <1>6. \A k \in Nat, n \in 1 .. MaxAttempts : k * MaxAttempts + (MaxAttempts - n) \in Nat
        BY AttemptsAssumption
    <1> QED
        BY <1>1, <1>4, <1>5, <1>6

(* What RetriesRunOut says of one request. *)
Nearer(r) ==
    IF pc'[r] = pc[r] THEN PlacesLeft(r)' = PlacesLeft(r)
                      ELSE PlacesLeft(r)' \in 0 .. PlacesLeft(r) - 1

LEMMA StillNearer ==
    ASSUME NEW q, pc'[q] = pc[q], form'[q] = form[q], idx'[q] = idx[q], attempt'[q] = attempt[q]
    PROVE  Nearer(q)
    <1>1. SendsLeft(q)' = SendsLeft(q)
        BY DEF SendsLeft
    <1> QED
        BY <1>1 DEF Nearer, PlacesLeft

(* A statement is on its way again only after one sending less is left. *)
LEMMA ResendNearer ==
    ASSUME IInv, OneInserts, NEW r \in Requests, pc[r] = "exec", pc'[r] = "conn",
           \/ StatementSucceeds(r)
           \/ ServerCloses(r)
    PROVE  SendsLeft(r) \in Nat /\ SendsLeft(r)' \in 0 .. SendsLeft(r) - 1
    <1>1. TypeOK /\ form' = form
        BY DEF IInv, StatementSucceeds, ServerCloses
    <1>2. /\ IdsLeft(r) \in Nat /\ SendsLeft(r) \in Nat
          /\ SendsLeft(r) = IdsLeft(r) * MaxAttempts + (MaxAttempts - attempt[r])
        BY SendsLeftType
    <1>3. SendsLeft(r)' = IdsLeft(r)' * MaxAttempts + (MaxAttempts - attempt'[r])
        BY DEF SendsLeft, IdsLeft
    <1>4. attempt[r] \in 1 .. MaxAttempts /\ idx[r] \in Nat /\ MaxAttempts \in Nat \ {0}
        BY <1>1, AttemptsAssumption DEF TypeOK
    <1>5. CASE StatementSucceeds(r)
        <2>1. /\ form[r].kind = "unclassify" /\ idx[r] < Len(form[r].ids)
              /\ idx'[r] = idx[r] + 1 /\ attempt'[r] = 1
            BY <1>1, <1>5 DEF StatementSucceeds, TypeOK
        <2>2. Len(form[r].ids) \in Nat
            BY <1>1 DEF TypeOK, Form
        <2>3. IdsLeft(r) = Len(form[r].ids) - idx[r] /\ IdsLeft(r)' = Len(form[r].ids) - (idx[r] + 1)
            BY <1>1, <2>1 DEF IdsLeft
        <2>4. PICK k \in Nat : IdsLeft(r) = k + 1 /\ IdsLeft(r)' = k
            BY <1>4, <2>1, <2>2, <2>3
        <2>5. /\ k * MaxAttempts \in Nat
              /\ (k + 1) * MaxAttempts = k * MaxAttempts + MaxAttempts
            BY <1>4
        <2>6. /\ SendsLeft(r)' = k * MaxAttempts + (MaxAttempts - 1)
              /\ SendsLeft(r) = k * MaxAttempts + MaxAttempts + (MaxAttempts - attempt[r])
            BY <1>2, <1>3, <2>1, <2>4, <2>5
        <2> QED
            BY <1>2, <1>4, <2>5, <2>6
    <1>6. CASE ServerCloses(r)
        <2>1. attempt[r] < MaxAttempts /\ attempt'[r] = attempt[r] + 1 /\ idx' = idx
            BY <1>1, <1>6 DEF ServerCloses, Fail, TypeOK
        <2>2. IdsLeft(r)' = IdsLeft(r)
            BY <1>1, <2>1 DEF IdsLeft
        <2>3. PICK p \in Nat : p = IdsLeft(r) * MaxAttempts
            BY <1>2, <1>4
        <2>4. /\ SendsLeft(r)' = p + (MaxAttempts - (attempt[r] + 1))
              /\ SendsLeft(r) = p + (MaxAttempts - attempt[r])
            BY <1>2, <1>3, <2>1, <2>2, <2>3
        <2> QED
            BY <1>2, <1>4, <2>1, <2>4
    <1> QED
        BY <1>5, <1>6

LEMMA OwnNearer ==
    ASSUME IInv, OneInserts, NEW r \in Requests, pc[r] # "idle",
           Handler(r) \/ Server(r) \/ Trouble(r)
    PROVE  Nearer(r)
    <1>1. TypeOK
        BY DEF IInv
    <1>2. \A s \in Nat : /\ 2 * s + 5 \in 0 .. (2 * s + 6) - 1
                         /\ 2 * s + 4 \in 0 .. (2 * s + 5) - 1
                         /\ 3 \in 0 .. (2 * s + 4) - 1
                         /\ 2 \in 0 .. (2 * s + 6) - 1
                         /\ \A m \in 0 .. s - 1 : 2 * m + 5 \in 0 .. (2 * s + 4) - 1
        OBVIOUS
    <1>3. 2 \in 0 .. 3 - 1 /\ 1 \in 0 .. 2 - 1 /\ 0 \in 0 .. 1 - 1
        OBVIOUS
    <1>4. CASE Server(r)
        <2>1. UNCHANGED <<pc, form, idx, attempt>>
            BY <1>4 DEF Server, Execute, Reject
        <2> QED
            BY <2>1, StillNearer
    <1>5. CASE Begin(r) \/ SendStatement(r)
        <2>1. /\ \/ pc[r] = "begin" /\ pc'[r] = "conn"
                 \/ pc[r] = "conn" /\ pc'[r] = "exec"
              /\ UNCHANGED <<form, idx, attempt>>
            BY <1>1, <1>5 DEF Begin, SendStatement, TypeOK
        <2>2. SendsLeft(r)' = SendsLeft(r) /\ SendsLeft(r) \in Nat
            BY <2>1, SendsLeftType DEF SendsLeft
        <2>3. \/ PlacesLeft(r) = 2 * SendsLeft(r) + 6 /\ PlacesLeft(r)' = 2 * SendsLeft(r) + 5
              \/ PlacesLeft(r) = 2 * SendsLeft(r) + 5 /\ PlacesLeft(r)' = 2 * SendsLeft(r) + 4
            BY <2>1, <2>2 DEF PlacesLeft
        <2>4. PlacesLeft(r)' \in 0 .. PlacesLeft(r) - 1
            BY <1>2, <2>2, <2>3, Zenon
        <2> QED
            BY <2>1, <2>4 DEF Nearer
    <1>6. CASE (StatementSucceeds(r) \/ ServerCloses(r)) /\ pc'[r] = "conn"
        <2>1. pc[r] = "exec"
            BY <1>6 DEF StatementSucceeds, ServerCloses
        <2>2. SendsLeft(r) \in Nat /\ SendsLeft(r)' \in 0 .. SendsLeft(r) - 1
            BY <1>6, <2>1, ResendNearer
        <2>3. /\ PlacesLeft(r) = 2 * SendsLeft(r) + 4
              /\ PlacesLeft(r)' = 2 * SendsLeft(r)' + 5
            BY <1>6, <2>1 DEF PlacesLeft
        <2>4. PlacesLeft(r)' \in 0 .. PlacesLeft(r) - 1
            BY <1>2, <2>2, <2>3, Zenon
        <2> QED
            BY <1>6, <2>1, <2>4 DEF Nearer
    <1>7. CASE \/ (StatementSucceeds(r) \/ ServerCloses(r)) /\ pc'[r] # "conn"
               \/ StatementFails(r)
               \/ NetworkFails(r)
        <2>1. pc[r] = "exec" /\ pc'[r] = "commit"
            BY <1>1, <1>7 DEF StatementSucceeds, ServerCloses, StatementFails, NetworkFails,
               Fail, TypeOK
        <2>2. SendsLeft(r) \in Nat
            BY <2>1, SendsLeftType
        <2>3. PlacesLeft(r) = 2 * SendsLeft(r) + 4 /\ PlacesLeft(r)' = 3
            BY <2>1 DEF PlacesLeft
        <2>4. PlacesLeft(r)' \in 0 .. PlacesLeft(r) - 1
            BY <1>2, <2>2, <2>3, Zenon
        <2> QED
            BY <2>1, <2>4 DEF Nearer
    <1>8. CASE BeginFails(r)
        <2>1. pc[r] = "begin" /\ pc'[r] = "page"
            BY <1>1, <1>8 DEF BeginFails, TypeOK
        <2>2. SendsLeft(r) \in Nat
            BY <2>1, SendsLeftType
        <2>3. PlacesLeft(r) = 2 * SendsLeft(r) + 6 /\ PlacesLeft(r)' = 2
            BY <2>1 DEF PlacesLeft
        <2>4. PlacesLeft(r)' \in 0 .. PlacesLeft(r) - 1
            BY <1>2, <2>2, <2>3, Zenon
        <2> QED
            BY <2>1, <2>4 DEF Nearer
    <1>9. CASE Commit(r) \/ SendQuery(r) \/ ReadPage(r) \/ ReadFails(r)
        <2>1. \/ pc[r] = "commit" /\ pc'[r] = "page"
              \/ pc[r] = "page" /\ pc'[r] = "read"
              \/ pc[r] = "read" /\ pc'[r] \in {"answered", "blank"}
            BY <1>1, <1>9 DEF Commit, SendQuery, ReadPage, ReadFails, TypeOK
        <2>2. \/ PlacesLeft(r) = 3 /\ PlacesLeft(r)' = 2
              \/ PlacesLeft(r) = 2 /\ PlacesLeft(r)' = 1
              \/ PlacesLeft(r) = 1 /\ PlacesLeft(r)' = 0
            BY <2>1 DEF PlacesLeft
        <2>3. PlacesLeft(r)' \in 0 .. PlacesLeft(r) - 1
            BY <1>3, <2>2, Zenon
        <2> QED
            BY <2>1, <2>3 DEF Nearer
    <1>10. ~Submit(r)
        BY DEF Submit
    <1> QED
        BY <1>4, <1>5, <1>6, <1>7, <1>8, <1>9, <1>10 DEF Handler, Trouble

(* Whatever breaks on the way and whatever the other requests do, a        *)
(* handler that moves moves towards its answer: the retries of a broken    *)
(* statement and the deletes of a long form are used up                    *)
(* (alerts.go:193-229).                                                    *)
THEOREM RetriesRunOutAlways == Spec => RetriesRunOut
    <1>1. Init => OneInserts
        BY DEF Init, OneInserts, OneInsert
    <1>2. ASSUME IInv, OneInserts, [Next]_vars
          PROVE  \A q \in Requests : pc[q] # "idle" => Nearer(q)
        <2> SUFFICES ASSUME NEW q \in Requests, pc[q] # "idle" PROVE Nearer(q)
            OBVIOUS
        <2>1. ASSUME NEW r \in Requests, Handler(r) \/ Server(r) \/ Trouble(r), r # q
              PROVE  Nearer(q)
            <3>1. /\ pc'[q] = pc[q] /\ form'[q] = form[q]
                  /\ idx'[q] = idx[q] /\ attempt'[q] = attempt[q]
                BY <1>2, <2>1, OthersStill
            <3> QED
                BY <3>1, StillNearer
        <2>2. CASE Handler(q) \/ Server(q) \/ Trouble(q)
            BY <1>2, <2>2, OwnNearer
        <2>3. CASE UNCHANGED vars
            BY <2>3, StillNearer DEF vars
        <2> QED
            BY <1>2, <2>1, <2>2, <2>3 DEF Next, Quiet
    <1>3. IInv /\ OneInserts /\ [Next]_vars
              => [\A q \in Requests : pc[q] # "idle" => Nearer(q)]_vars
        BY <1>2
    <1>4. [\A q \in Requests : pc[q] # "idle" => Nearer(q)]_vars
              => [\A r \in Requests : pc[r] # "idle" =>
                    IF pc'[r] = pc[r] THEN PlacesLeft(r)' = PlacesLeft(r)
                                      ELSE PlacesLeft(r)' \in 0 .. PlacesLeft(r) - 1]_vars
        BY Zenon DEF Nearer
    <1> QED
        BY <1>1, <1>3, <1>4, InsertStaysOne, Invariance, PTL DEF Spec, RetriesRunOut
================================================================================
