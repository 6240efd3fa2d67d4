------------------------- MODULE ClassificationLedger --------------------------
(***************************************************************************)
(* What the classification service promises an analyst, without pool,      *)
(* transaction, connections or retries.                                    *)
(*                                                                         *)
(*  - a classification adds one row to every alert of its form at once;    *)
(*  - an unclassification clears the alerts of its form one by one;        *)
(*  - "done" is told only when every alert of the form has been handled,   *)
(*    and "nothing" only when none has: both are final;                    *)
(*  - after "unknown" (the message that asks for a refresh, or no page at  *)
(*    all) anything from nothing to everything has happened, and what is   *)
(*    missing may still happen.                                            *)
(***************************************************************************)
EXTENDS ClassificationForms

VARIABLES
    form,       \* form[r]: what request r asks for
    rows,       \* the table "classification"
    effect,     \* effect[r]: the alerts request r has handled
    outcome     \* outcome[r]: what the analyst has been told

vars == <<form, rows, effect, outcome>>

Outcomes == {"idle", "open", "done", "nothing", "unknown"}

TypeOK ==
    /\ form \in [Requests -> Form]
    /\ rows \subseteq Row
    /\ effect \in [Requests -> SUBSET Alerts]
    /\ outcome \in [Requests -> Outcomes]

Init ==
    /\ form = [r \in Requests |-> NoForm]
    /\ rows \in EarlierRows
    /\ effect = [r \in Requests |-> {}]
    /\ outcome = [r \in Requests |-> "idle"]

Unsettled(r) == outcome[r] \in {"open", "unknown"}

Ask(r) ==
    /\ outcome[r] = "idle"
    /\ \E f \in Forms[r] : form' = [form EXCEPT ![r] = f]
    /\ outcome' = [outcome EXCEPT ![r] = "open"]
    /\ UNCHANGED <<rows, effect>>

(* Another analyst's row on one of the alerts is an obstacle only if the   *)
(* schema makes it one.                                                    *)
Mark(r) ==
    /\ Unsettled(r)
    /\ form[r].kind = "classify"
    /\ UniqueAlert => Targets(form[r]) \cap ClassifiedBy(rows) = {}
    /\ \E n \in 1 .. MaxAttempts : rows' = rows \cup RowsOf(r, form[r], n)
    /\ effect' = [effect EXCEPT ![r] = Targets(form[r])]
    /\ UNCHANGED <<form, outcome>>

Clear(r, a) ==
    /\ Unsettled(r)
    /\ form[r].kind = "unclassify"
    /\ a \in Targets(form[r])
    /\ rows' = {row \in rows : row.alert # a}
    /\ effect' = [effect EXCEPT ![r] = @ \cup {a}]
    /\ UNCHANGED <<form, outcome>>

Tell(r, o) ==
    /\ outcome[r] = "open"
    /\ o = "done" => effect[r] = Targets(form[r])
    /\ o = "nothing" => effect[r] = {}
    /\ outcome' = [outcome EXCEPT ![r] = o]
    /\ UNCHANGED <<form, rows, effect>>

Next ==
    \E r \in Requests :
        \/ Ask(r)
        \/ Mark(r)
        \/ \E a \in Alerts : Clear(r, a)
        \/ \E o \in {"done", "nothing", "unknown"} : Tell(r, o)

Spec == Init /\ [][Next]_vars
================================================================================
