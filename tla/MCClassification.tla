-------------------------- MODULE MCClassification ---------------------------
(***************************************************************************)
(* Instances of Classification: which forms each browser may post.         *)
(***************************************************************************)
EXTENDS Classification, TLC

CONSTANTS r1, r2, r3, a1, a2

classify(ids) == [kind |-> "classify", ids |-> ids]
unclassify(ids) == [kind |-> "unclassify", ids |-> ids]
ViewAlerts == [kind |-> "alerts", ids |-> <<>>]
ViewClassified == [kind |-> "classified", ids |-> <<>>]

Both == <<a1, a2>>

(* Two analysts: classifications that meet on one alert or on both,        *)
(* unclassifications, page views, and the forms that are refused.          *)
Accepted ==
    {classify(Both), classify(<<a2>>), unclassify(Both), unclassify(<<a1>>),
     ViewAlerts, ViewClassified}
Refused == {classify(<<NaN>>), classify(<<>>), unclassify(<<a2, NaN>>)}
TwoAnalysts ==
    (r1 :> Accepted \cup Refused) @@ (r2 :> {classify(<<a2>>), unclassify(Both), ViewAlerts})

(* Three classifications and unclassifications that all touch a1. *)
ThreeChanges ==
    (r1 :> {classify(Both)})
    @@ (r2 :> {classify(<<a1>>)})
    @@ (r3 :> {classify(<<a1>>), unclassify(<<a1>>)})

(* Two classifications at once. *)
TwoChanges == (r1 :> {classify(Both)}) @@ (r2 :> {classify(Both), unclassify(Both)})
==============================================================================
