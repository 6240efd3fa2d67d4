---------------------------- MODULE Classification -----------------------------
(***************************************************************************)
(* The handlers of /alerts and /classified: performAlertClassification     *)
(* followed by the page query, run by any number of concurrent HTTP        *)
(* requests over one pool of PostgreSQL connections.                       *)
(*                                                                         *)
(* performAlertClassification begins a transaction, which takes a          *)
(* connection from the pool and keeps it to the commit, and then runs its  *)
(* DELETEs or its INSERT on `db`, not on that transaction: each statement  *)
(* takes a second connection and commits on its own.  The pool blocks a    *)
(* caller while MaxOpenConns connections are in use.                       *)
(*                                                                         *)
(* A connection may break while a statement is out.  If PostgreSQL closed  *)
(* it, the statement has run or never will, and database/sql sends it      *)
(* again; if the network failed, the handler gets an error while the       *)
(* statement may still be about to run.                                    *)
(***************************************************************************)
EXTENDS ClassificationForms

CONSTANT MaxOpenConns   \* 16 in initialiseDatabase

ASSUME PoolAssumption == MaxOpenConns \in Nat \ {0}

ASSUME RequestsAssumption == IsFiniteSet(Requests)

VARIABLES
    pc,         \* pc[r]: where the handler of request r is
    form,       \* form[r]: the posted form
    idx,        \* idx[r]: position in ids of the id being deleted
    attempt,    \* attempt[r]: times the current statement has been sent
    stmt,       \* stmt[r]: the current statement as PostgreSQL sees it
    failed,     \* failed[r]: errorOccurred
    message,    \* message[r]: what performAlertClassification returned
    inUse,      \* connections taken from the pool
    rows,       \* the table "classification"
    effect,     \* history: effect[r] is the alerts r's statements changed
    shown       \* shown[r]: the alerts listed by the answered page

handlerVars == <<pc, form, idx, attempt, stmt, failed, message, shown>>
vars == <<pc, form, idx, attempt, stmt, failed, message, inUse, rows, effect, shown>>

(* begin, conn and page wait for a connection; conn and commit hold the    *)
(* transaction's, exec that and the statement's, read the page query's.    *)
(* "blank" is the empty 500 answer.                                        *)
Places == {"idle", "begin", "conn", "exec", "commit", "page", "read", "answered", "blank"}

(* "error": Error performing classification; "refresh": the same, followed *)
(* by "Refresh the page"; "noids": No alert's supplied.                    *)
Messages == {"none", "noids", "error", "refresh"}

TypeOK ==
    /\ pc \in [Requests -> Places]
    /\ form \in [Requests -> Form]
    /\ idx \in [Requests -> Nat \ {0}]
    /\ attempt \in [Requests -> 1 .. MaxAttempts]
    /\ stmt \in [Requests -> {"none", "running", "done", "rejected"}]
    /\ failed \in [Requests -> BOOLEAN]
    /\ message \in [Requests -> Messages]
    /\ inUse \in 0 .. MaxOpenConns
    /\ rows \subseteq Row
    /\ effect \in [Requests -> SUBSET Alerts]
    /\ shown \in [Requests -> SUBSET Alerts]

Init ==
    /\ pc = [r \in Requests |-> "idle"]
    /\ form = [r \in Requests |-> NoForm]
    /\ idx = [r \in Requests |-> 1]
    /\ attempt = [r \in Requests |-> 1]
    /\ stmt = [r \in Requests |-> "none"]
    /\ failed = [r \in Requests |-> FALSE]
    /\ message = [r \in Requests |-> "none"]
    /\ inUse = 0
    /\ rows \in EarlierRows
    /\ effect = [r \in Requests |-> {}]
    /\ shown = [r \in Requests |-> {}]

--------------------------------------------------------------------------------
(* The way into the handler.                                               *)

(* What a form that never reaches the database is told. *)
Precheck(f) ==
    CASE Valid(f) \/ ~Changes(f) -> "none"
      [] Changes(f) /\ f.ids = <<>> -> "noids"
      [] OTHER -> "error"

Submit(r) ==
    /\ pc[r] = "idle"
    /\ \E f \in Forms[r] :
          /\ form' = [form EXCEPT ![r] = f]
          /\ message' = [message EXCEPT ![r] = Precheck(f)]
          /\ pc' = [pc EXCEPT ![r] = IF Valid(f) THEN "begin" ELSE "page"]
    /\ UNCHANGED <<idx, attempt, stmt, failed, inUse, rows, effect, shown>>

(* tx, err := db.Begin(): waits for a connection and keeps it. *)
Begin(r) ==
    /\ pc[r] = "begin" /\ inUse < MaxOpenConns
    /\ inUse' = inUse + 1
    /\ pc' = [pc EXCEPT ![r] = "conn"]
    /\ UNCHANGED <<form, idx, attempt, stmt, failed, message, rows, effect, shown>>

(* Fault: the error path of db.Begin gives back a connection it never had. *)
BeginFails_Releases(r) ==
    /\ pc[r] = "begin" /\ inUse < MaxOpenConns
    /\ inUse' = inUse - 1
    /\ message' = [message EXCEPT ![r] = "error"]
    /\ pc' = [pc EXCEPT ![r] = "page"]
    /\ UNCHANGED <<form, idx, attempt, stmt, failed, rows, effect, shown>>

(* BEGIN fails: the connection goes back before the handler sees the error. *)
BeginFails(r) ==
    /\ pc[r] = "begin" /\ inUse < MaxOpenConns
    /\ message' = [message EXCEPT ![r] = "error"]
    /\ pc' = [pc EXCEPT ![r] = "page"]
    /\ UNCHANGED <<form, idx, attempt, stmt, failed, inUse, rows, effect, shown>>

--------------------------------------------------------------------------------
(* One statement: the multi-row INSERT, or the DELETE of one id.           *)

(* Fault: the INSERT runs on tx, whose failed commit is only logged. *)
Insert_LostWithTx(r) ==
    /\ UniqueAlert => Targets(form[r]) \cap ClassifiedBy(rows) = {}
    /\ rows' \in {rows, rows \cup RowsOf(r, form[r], attempt[r])}
    /\ effect' = [effect EXCEPT ![r] = Targets(form[r])]

(* db....Exec(): a second connection, and the statement is on its way. *)
SendStatement(r) ==
    /\ pc[r] = "conn" /\ inUse < MaxOpenConns
    /\ inUse' = inUse + 1
    /\ stmt' = [stmt EXCEPT ![r] = "running"]
    /\ pc' = [pc EXCEPT ![r] = "exec"]
    /\ UNCHANGED <<form, idx, attempt, failed, message, rows, effect, shown>>

Insert(r) ==
    /\ UniqueAlert => Targets(form[r]) \cap ClassifiedBy(rows) = {}
    /\ rows' = rows \cup RowsOf(r, form[r], attempt[r])
    /\ effect' = [effect EXCEPT ![r] = Targets(form[r])]

Delete(r) ==
    LET a == form[r].ids[idx[r]]
    IN  /\ rows' = {row \in rows : row.alert # a}
        /\ effect' = [effect EXCEPT ![r] = @ \cup {a}]

(* PostgreSQL runs and commits the statement, whether or not the handler   *)
(* still waits for it.                                                     *)
Execute(r) ==
    /\ stmt[r] = "running"
    /\ \/ form[r].kind = "classify" /\ Insert(r)
       \/ form[r].kind = "unclassify" /\ Delete(r)
    /\ stmt' = [stmt EXCEPT ![r] = "done"]
    /\ UNCHANGED <<pc, form, idx, attempt, failed, message, inUse, shown>>

(* PostgreSQL refuses the statement: a constraint, or any other failure. *)
Reject(r) ==
    /\ stmt[r] = "running"
    /\ stmt' = [stmt EXCEPT ![r] = "rejected"]
    /\ UNCHANGED <<pc, form, idx, attempt, failed, message, inUse, rows, effect, shown>>

StatementSucceeds(r) ==
    /\ pc[r] = "exec" /\ stmt[r] = "done"
    /\ inUse' = inUse - 1
    /\ stmt' = [stmt EXCEPT ![r] = "none"]
    /\ \/ /\ form[r].kind = "unclassify" /\ idx[r] < Len(form[r].ids)
          /\ idx' = [idx EXCEPT ![r] = @ + 1]
          /\ attempt' = [attempt EXCEPT ![r] = 1]
          /\ pc' = [pc EXCEPT ![r] = "conn"]
       \/ /\ form[r].kind = "classify" \/ idx[r] = Len(form[r].ids)
          /\ pc' = [pc EXCEPT ![r] = "commit"]
          /\ UNCHANGED <<idx, attempt>>
    /\ UNCHANGED <<form, failed, message, rows, effect, shown>>

(* Fault: the error of a statement is logged and otherwise ignored. *)
StatementFails_Ignored(r) ==
    /\ pc[r] = "exec" /\ stmt[r] = "rejected"
    /\ inUse' = inUse - 1
    /\ pc' = [pc EXCEPT ![r] = "commit"]
    /\ UNCHANGED <<form, idx, attempt, stmt, failed, message, rows, effect, shown>>

(* Fault: the handler returns at the first error, without a commit. *)
StatementFails_SkipsCommit(r) ==
    /\ pc[r] = "exec" /\ stmt[r] = "rejected"
    /\ inUse' = inUse - 1
    /\ failed' = [failed EXCEPT ![r] = TRUE]
    /\ message' = [message EXCEPT ![r] = "refresh"]
    /\ pc' = [pc EXCEPT ![r] = "page"]
    /\ UNCHANGED <<form, idx, attempt, stmt, rows, effect, shown>>

(* errorOccurred = true, and the delete loop stops. *)
Fail(r) ==
    /\ failed' = [failed EXCEPT ![r] = TRUE]
    /\ pc' = [pc EXCEPT ![r] = "commit"]

StatementFails(r) ==
    /\ pc[r] = "exec" /\ stmt[r] = "rejected"
    /\ inUse' = inUse - 1
    /\ Fail(r)
    /\ UNCHANGED <<form, idx, attempt, stmt, message, rows, effect, shown>>

(* The network fails: the statement keeps its course without the handler. *)
NetworkFails(r) ==
    /\ pc[r] = "exec"
    /\ inUse' = inUse - 1
    /\ Fail(r)
    /\ UNCHANGED <<form, idx, attempt, stmt, message, rows, effect, shown>>

(* Fault: a broken connection is not taken off the count before the retry. *)
ServerCloses_KeepsSlot(r) ==
    /\ pc[r] = "exec"
    /\ stmt' = [stmt EXCEPT ![r] = "none"]
    /\ attempt[r] < MaxAttempts
    /\ attempt' = [attempt EXCEPT ![r] = @ + 1]
    /\ pc' = [pc EXCEPT ![r] = "conn"]
    /\ UNCHANGED <<form, idx, failed, message, inUse, rows, effect, shown>>

(* Fault: the retries of a statement are not counted. *)
ServerCloses_Uncounted(r) ==
    /\ pc[r] = "exec"
    /\ inUse' = inUse - 1
    /\ stmt' = [stmt EXCEPT ![r] = "none"]
    /\ pc' = [pc EXCEPT ![r] = "conn"]
    /\ UNCHANGED <<form, idx, attempt, failed, message, rows, effect, shown>>

(* PostgreSQL closes the connection, before or after it ran the statement. *)
(* database/sql takes another connection and sends the statement again,    *)
(* until it has used up its attempts.                                      *)
ServerCloses(r) ==
    /\ pc[r] = "exec"
    /\ inUse' = inUse - 1
    /\ stmt' = [stmt EXCEPT ![r] = "none"]
    /\ \/ /\ attempt[r] < MaxAttempts
          /\ attempt' = [attempt EXCEPT ![r] = @ + 1]
          /\ pc' = [pc EXCEPT ![r] = "conn"]
          /\ UNCHANGED failed
       \/ /\ attempt[r] = MaxAttempts
          /\ Fail(r)
          /\ UNCHANGED attempt
    /\ UNCHANGED <<form, idx, message, rows, effect, shown>>

(* Fault: an error before the commit is reported like one of db.Begin. *)
Commit_PlainError(r) ==
    /\ pc[r] = "commit"
    /\ inUse' = inUse - 1
    /\ message' = [message EXCEPT ![r] = IF failed[r] THEN "error" ELSE "none"]
    /\ pc' = [pc EXCEPT ![r] = "page"]
    /\ UNCHANGED <<form, idx, attempt, stmt, failed, rows, effect, shown>>

(* tx.Commit() of the transaction nothing ran in.  Its error is only       *)
(* logged, and the connection goes back either way.                        *)
Commit(r) ==
    /\ pc[r] = "commit"
    /\ inUse' = inUse - 1
    /\ message' = [message EXCEPT ![r] = IF failed[r] THEN "refresh" ELSE "none"]
    /\ pc' = [pc EXCEPT ![r] = "page"]
    /\ UNCHANGED <<form, idx, attempt, stmt, failed, rows, effect, shown>>

--------------------------------------------------------------------------------
(* The page of alerts every answer ends with: unclassified alerts for      *)
(* /alerts, classified ones for /classified.  How a page is cut out of the *)
(* list is left to module Paging.                                          *)

Listed(f) ==
    IF f.kind \in {"alerts", "classify"}
    THEN Alerts \ ClassifiedBy(rows)
    ELSE ClassifiedBy(rows)

SendQuery(r) ==
    /\ pc[r] = "page" /\ inUse < MaxOpenConns
    /\ inUse' = inUse + 1
    /\ pc' = [pc EXCEPT ![r] = "read"]
    /\ UNCHANGED <<form, idx, attempt, stmt, failed, message, rows, effect, shown>>

ReadPage(r) ==
    /\ pc[r] = "read"
    /\ inUse' = inUse - 1
    /\ shown' = [shown EXCEPT ![r] = Listed(form[r])]
    /\ pc' = [pc EXCEPT ![r] = "answered"]
    /\ UNCHANGED <<form, idx, attempt, stmt, failed, message, rows, effect>>

(* The query fails: an empty answer, and the message is lost with it. *)
ReadFails(r) ==
    /\ pc[r] = "read"
    /\ inUse' = inUse - 1
    /\ pc' = [pc EXCEPT ![r] = "blank"]
    /\ UNCHANGED <<form, idx, attempt, stmt, failed, message, rows, effect, shown>>

--------------------------------------------------------------------------------

(* The steps the handler takes by itself. *)
Handler(r) ==
    \/ Submit(r) \/ Begin(r) \/ SendStatement(r)
    \/ StatementSucceeds(r) \/ StatementFails(r) \/ Commit(r)
    \/ SendQuery(r) \/ ReadPage(r)

(* What PostgreSQL does with a statement it has received. *)
Server(r) == Execute(r) \/ Reject(r)

(* What may go wrong at any time and need not. *)
Trouble(r) == BeginFails(r) \/ NetworkFails(r) \/ ServerCloses(r) \/ ReadFails(r)

Answered(r) == pc[r] \in {"answered", "blank"}

(* Every request has been answered: the end of a behaviour. *)
Quiet == (\A r \in Requests : Answered(r)) /\ UNCHANGED vars

Next == (\E r \in Requests : Handler(r) \/ Server(r) \/ Trouble(r)) \/ Quiet

Spec == Init /\ [][Next]_vars

(* The Go scheduler runs every handler that can take a step, database/sql  *)
(* hands a freed connection to the longest waiting caller, and PostgreSQL  *)
(* ends every statement it is still being waited for.  A browser need not  *)
(* post anything, and nothing has to go wrong.                             *)
Fairness ==
    \A r \in Requests :
        /\ WF_vars(Handler(r) /\ pc[r] # "idle")
        /\ WF_vars(Server(r) /\ pc[r] = "exec")

FairSpec == Spec /\ Fairness

--------------------------------------------------------------------------------
(* Properties                                                              *)

(* The requests that hold a transaction's connection, and those that hold  *)
(* the connection of a statement or of the page query.                     *)
TxHolders == {r \in Requests : pc[r] \in {"conn", "exec", "commit"}}
ConnHolders == {r \in Requests : pc[r] \in {"exec", "read"}}

(* Every connection taken from the pool is held by a handler that still    *)
(* has to give it back: no way through performAlertClassification, through *)
(* an error, a retry or a failed commit, leaks one or returns one twice.   *)
PoolConserved == inUse = Cardinality(TxHolders) + Cardinality(ConnHolders)

(* All connections are taken and none of their holders can go on. *)
Wedged == inUse = MaxOpenConns /\ \A r \in Requests : pc[r] \notin {"exec", "read", "commit"}

(* The handlers wait for each other for ever only when as many             *)
(* classifications as the pool has connections are all between their       *)
(* db.Begin and their first Exec: page queries alone, or fewer             *)
(* classifications, never block the server.                                *)
WedgeNeedsFullHouse ==
    Wedged => Cardinality({r \in Requests : pc[r] = "conn"}) = MaxOpenConns

(* The pool's limit of initialiseDatabase never stops the server for good. *)
NoWedge == ~Wedged

(* The message handed to the page is true of what the request did to the   *)
(* table, whatever failed, was retried or ran late: no message means that  *)
(* every alert of the form was handled, and the messages that do not ask   *)
(* for a refresh mean that none was, or ever will be.  (The templates do    *)
(* not print it: what is true is what the handler hands them.)             *)
AnswerTellsTruth ==
    \A r \in Requests : pc[r] = "answered" =>
        /\ message[r] = "none" => effect[r] = Targets(form[r])
        /\ message[r] \in {"noids", "error"} => effect[r] = {}
        /\ form[r].kind = "classify" => effect[r] \in {{}, Targets(form[r])}

(* The page answered to a successful classification lists none of the      *)
(* alerts just classified, unless somebody has unclassified them: the page *)
(* query cannot run before the INSERT is visible to it.                    *)
ReadYourWrites ==
    \A r \in Requests :
        pc[r] = "answered" /\ message[r] = "none" /\ form[r].kind = "classify" =>
            \A a \in Targets(form[r]) \cap shown[r] :
                \E u \in Requests : form[u].kind = "unclassify" /\ a \in effect[u]

(* If the schema forbids two classifications of an alert, two analysts are *)
(* both told that they classified it only when it was unclassified in      *)
(* between: the INSERT that loses is reported, never swallowed.            *)
NoDoubleClaim ==
    UniqueAlert =>
        \A r, q \in Requests :
            /\ r # q
            /\ \A s \in {r, q} : /\ pc[s] = "answered"
                                 /\ message[s] = "none"
                                 /\ form[s].kind = "classify"
            => \A a \in Targets(form[r]) \cap Targets(form[q]) :
                  \E u \in Requests : form[u].kind = "unclassify" /\ a \in effect[u]

(* The statements a form may still be sent as: of each id that is left,    *)
(* one for each attempt that is left.                                      *)
SendsLeft(r) ==
    LET ids == IF form[r].kind = "unclassify" THEN Len(form[r].ids) ELSE 1
    IN  (ids - idx[r]) * MaxAttempts + (MaxAttempts - attempt[r])

(* The places a handler may still pass before its answer: two for each     *)
(* time a statement is sent, then the commit and the page query.           *)
PlacesLeft(r) ==
    CASE pc[r] = "begin" -> 2 * SendsLeft(r) + 6
      [] pc[r] = "conn" -> 2 * SendsLeft(r) + 5
      [] pc[r] = "exec" -> 2 * SendsLeft(r) + 4
      [] pc[r] = "commit" -> 3
      [] pc[r] = "page" -> 2
      [] pc[r] = "read" -> 1
      [] OTHER -> 0

(* Retries run out: a handler that moves moves towards its answer, through *)
(* any errors, broken connections and retries, and nothing that other      *)
(* requests do makes its way longer.  All it can do besides is to wait for *)
(* a connection.                                                           *)
RetriesRunOut ==
    [][\A r \in Requests : pc[r] # "idle" =>
            IF pc'[r] = pc[r] THEN PlacesLeft(r)' = PlacesLeft(r)
                              ELSE PlacesLeft(r)' \in 0 .. PlacesLeft(r) - 1]_vars

(* Every posted form is answered, whatever goes wrong on the way: no       *)
(* handler waits for a connection for ever.                                *)
EveryPostAnswered == \A r \in Requests : pc[r] # "idle" ~> Answered(r)

(* What an analyst has been told, in the words of ClassificationLedger. *)
Outcome(r) ==
    CASE pc[r] = "idle" -> "idle"
      [] pc[r] = "answered" /\ message[r] = "none" -> "done"
      [] pc[r] = "answered" /\ message[r] \in {"noids", "error"} -> "nothing"
      [] pc[r] = "answered" /\ message[r] = "refresh" -> "unknown"
      [] pc[r] = "blank" -> "unknown"
      [] OTHER -> "open"

Ledger == INSTANCE ClassificationLedger WITH outcome <- [r \in Requests |-> Outcome(r)]

(* The handlers keep the promises of ClassificationLedger. *)
ImplementsLedger == Ledger!Spec
================================================================================
