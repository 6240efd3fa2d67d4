-------------------------- MODULE ClassificationForms --------------------------
(***************************************************************************)
(* The data of a classification: the forms the browsers post to /alerts    *)
(* and /classified, and the rows of the "classification" table.            *)
(*                                                                         *)
(* A form is one HTTP request.  Its `ids` are the comma separated pieces   *)
(* of the posted field "ids": an alert, or NaN for a piece that            *)
(* util.IsNumber refuses (the browser posts "" when no line is selected,   *)
(* which splits into one such piece).  <<>> is a form without that field.  *)
(***************************************************************************)
EXTENDS Integers, Sequences, FiniteSets, Functions

CONSTANTS
    Requests,       \* the HTTP requests: tabs of any number of analysts
    Alerts,         \* the rows of table "alert", written by the analysis server
    NaN,            \* a posted id that is not a number
    Earlier,        \* stands for the requests answered before the model starts
    Forms,          \* Forms[r] is the set of forms request r may be
    MaxAttempts,    \* times database/sql sends a statement over broken connections
    UniqueAlert     \* does the schema forbid two classifications of one alert?

Kinds == {"alerts", "classified", "classify", "unclassify"}

Form == [kind : Kinds, ids : Seq(Alerts \cup {NaN})]

(***************************************************************************)
(* The unclassified page shows an alert on one line, so the ids posted by  *)
(* its Classify button are distinct.                                       *)
(***************************************************************************)
ASSUME FormsAssumption ==
    /\ Forms \in [Requests -> SUBSET Form]
    /\ \A r \in Requests : \A f \in Forms[r] :
          f.kind = "classify" => IsInjective(f.ids)

ASSUME NamesAssumption == NaN \notin Alerts /\ Earlier \notin Requests

ASSUME AttemptsAssumption == MaxAttempts \in Nat \ {0}

ASSUME UniqueAssumption == UniqueAlert \in BOOLEAN

NoForm == [kind |-> "alerts", ids |-> <<>>]

(* "classify" on /alerts, "unclassify" on /classified: the two modes that  *)
(* reach performAlertClassification.  Every other mode only reads a page,  *)
(* and so does any mode with a `verified` that is no filter of /alerts.    *)
Changes(f) == f.kind \in {"classify", "unclassify"}

(* The ids pass the IsNumber loop. *)
Valid(f) == Changes(f) /\ f.ids # <<>> /\ NaN \notin Range(f.ids)

(* The alerts whose classification the form asks to add or to remove. *)
Targets(f) == IF Valid(f) THEN Range(f.ids) ELSE {}

(* A row of table "classification".  The request stands for the columns    *)
(* user_id and timestamp; n tells the rows of a statement sent twice apart. *)
Row == [alert : Alerts, req : Requests \cup {Earlier}, n : 1 .. MaxAttempts]

RowsOf(r, f, n) == {[alert |-> a, req |-> r, n |-> n] : a \in Targets(f)}

ClassifiedBy(rows) == {row.alert : row \in rows}

(* What the analysts had classified before the model starts. *)
EarlierRows == {{[alert |-> a, req |-> Earlier, n |-> 1] : a \in S} : S \in SUBSET Alerts}
================================================================================
