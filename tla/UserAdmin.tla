----------------------------- MODULE UserAdmin -----------------------------
(***************************************************************************)
(* Adding users: routeUserNewPost.  A handler asks whether the name is     *)
(* taken, inserts the row with the hash of the empty password, and then    *)
(* sets a generated password, which the answer shows once and nobody can   *)
(* learn afterwards.  Administrators post at the same time, or a second    *)
(* time before the first answer (the handler computes two slow hashes).    *)
(***************************************************************************)

CONSTANTS
    Posts,      \* POST /users/new that got past the check of the account type
    Admins,     \* browsers of administrators
    Names,      \* posted user names
    BadNames    \* those too short or too long

ASSUME NamesAssumption == BadNames \subseteq Names /\ Names # {} /\ Admins # {}

VARIABLES
    unique,     \* whether the schema has a unique key on users.username:
                \* not in the repository, so either
    at,         \* at[p]: how far the handler of post p is
    by, name,   \* by[p], name[p]: whose browser, which name
    row,        \* row[p]: the account post p added, by its password
    spare,      \* posts whose INSERT has been run twice
    late,       \* posts whose handler is gone and whose statement is not
    answer,     \* answer[p]: what the handler answered
    latest,     \* latest[a]: the last post of a browser, the one it waits for
    seen,       \* posts whose password an administrator has seen
    broken,     \* history: posts that met an error or a restart
    beside      \* history: beside[p]: posts whose INSERT was to come as p passed Exists

table == <<row, spare, late>>
forms == <<by, name, latest>>
vars == <<unique, at, forms, table, answer, seen, broken, beside>>

Stages == {"idle", "posted", "checked", "added", "answered", "done"}
Answers == {"none", "exists", "invalid", "error", "added"}
AnyName == CHOOSE n \in Names : TRUE
AnyAdmin == CHOOSE a \in Admins : TRUE

Init == /\ unique \in BOOLEAN
        /\ at = [p \in Posts |-> "idle"]
        /\ by = [p \in Posts |-> AnyAdmin]
        /\ name = [p \in Posts |-> AnyName]
        /\ row = [p \in Posts |-> "none"]
        /\ spare = {}
        /\ late = {}
        /\ answer = [p \in Posts |-> "none"]
        /\ latest = [a \in Admins |-> {}]
        /\ seen = {}
        /\ broken = {}
        /\ beside = [p \in Posts |-> {}]

Taken(n) == \E p \in Posts : row[p] # "none" /\ name[p] = n

----------------------------------------------------------------------------

(* The form is posted, perhaps again while its first answer is awaited;    *)
(* the browser then waits for the new one only.                            *)
Post(p, a, n) ==
    /\ at[p] = "idle"
    /\ at' = [at EXCEPT ![p] = "posted"]
    /\ by' = [by EXCEPT ![p] = a]
    /\ name' = [name EXCEPT ![p] = n]
    /\ latest' = [latest EXCEPT ![a] = {p}]
    /\ UNCHANGED <<unique, table, answer, seen, broken, beside>>

GoTo(p, stage) == at' = [at EXCEPT ![p] = stage] /\ UNCHANGED answer
Reply(p, what) == /\ at' = [at EXCEPT ![p] = "answered"]
                  /\ answer' = [answer EXCEPT ![p] = what]
Break(p) == broken' = broken \cup {p}

(* The posts whose INSERT may be yet to come, whoever waits for it.        *)
Between == {p \in Posts : row[p] = "none" /\ (at[p] = "checked" \/ p \in late)}

(* The INSERT, which a unique key may refuse.                              *)
Insertable(p) == ~(unique /\ Taken(name[p]))
Insert(p) == row' = [row EXCEPT ![p] = "empty"]

(* Fault: the name is validated when the row has been added. *)
Check_ValidatesLate(p) ==
    /\ at[p] = "posted"
    /\ \/ Taken(name[p]) /\ Reply(p, "exists") /\ UNCHANGED <<row, broken, beside>>
       \/ /\ ~Taken(name[p]) /\ name[p] \in BadNames
          /\ Insert(p) /\ Reply(p, "invalid") /\ UNCHANGED <<broken, beside>>
       \/ /\ ~Taken(name[p]) /\ name[p] \notin BadNames
          /\ GoTo(p, "checked")
          /\ beside' = [beside EXCEPT ![p] = Between]
          /\ UNCHANGED <<row, broken>>
       \/ Reply(p, "error") /\ Break(p) /\ UNCHANGED <<row, beside>>
    /\ UNCHANGED <<unique, spare, late, forms, seen>>

(* Fault: nobody asks whether the name is taken. *)
Check_NoExists(p) ==
    /\ at[p] = "posted"
    /\ \/ name[p] \in BadNames /\ Reply(p, "invalid") /\ UNCHANGED beside
       \/ /\ name[p] \notin BadNames
          /\ GoTo(p, "checked")
          /\ beside' = [beside EXCEPT ![p] = Between]
    /\ UNCHANGED <<unique, table, forms, seen, broken>>

(* Fault: an error of Exists counts as a yes.                              *)
Check_ErrorIsYes(p) ==
    /\ at[p] = "posted"
    /\ \/ Reply(p, "exists") /\ UNCHANGED beside
       \/ ~Taken(name[p]) /\ name[p] \in BadNames /\ Reply(p, "invalid") /\ UNCHANGED beside
       \/ /\ ~Taken(name[p]) /\ name[p] \notin BadNames
          /\ GoTo(p, "checked")
          /\ beside' = [beside EXCEPT ![p] = Between]
    /\ UNCHANGED <<unique, table, forms, seen, broken>>

(* Exists and then Validate, which reads nothing but the form.             *)
Check(p) ==
    /\ at[p] = "posted"
    /\ \/ Taken(name[p]) /\ Reply(p, "exists") /\ UNCHANGED <<broken, beside>>
       \/ /\ ~Taken(name[p]) /\ name[p] \in BadNames
          /\ Reply(p, "invalid") /\ UNCHANGED <<broken, beside>>
       \/ /\ ~Taken(name[p]) /\ name[p] \notin BadNames
          /\ GoTo(p, "checked")
          /\ beside' = [beside EXCEPT ![p] = Between]
          /\ UNCHANGED broken
       \/ Reply(p, "error") /\ Break(p) /\ UNCHANGED beside
    /\ UNCHANGED <<unique, table, forms, seen>>

Add(p) ==
    /\ at[p] = "checked"
    /\ Insertable(p)
    /\ Insert(p)
    /\ GoTo(p, "added")
    /\ UNCHANGED <<unique, spare, late, forms, seen, broken, beside>>

(* An error: the row is not there, or it is and only the answer has got    *)
(* lost, or the statement is still on its way.                             *)
AddFails(p) ==
    /\ at[p] = "checked"
    /\ \/ UNCHANGED <<row, late>>
       \/ Insertable(p) /\ Insert(p) /\ UNCHANGED late
       \/ UNCHANGED row /\ late' = late \cup {p}
    /\ Reply(p, "error")
    /\ Break(p)
    /\ UNCHANGED <<unique, spare, forms, seen, beside>>

(* database/sql sends the INSERT again over a new connection, after the    *)
(* first one had been carried out on the broken one.                       *)
AddTwice(p) ==
    /\ at[p] = "checked"
    /\ Insertable(p)
    /\ Insert(p)
    /\ IF unique THEN Reply(p, "error") /\ UNCHANGED spare
                 ELSE GoTo(p, "added") /\ spare' = spare \cup {p}
    /\ Break(p)
    /\ UNCHANGED <<unique, late, forms, seen, beside>>

(* Fault: what SetPassword returns is read the wrong way round. *)
SetPassword_Inverted(p) ==
    /\ at[p] = "added"
    /\ row' = [row EXCEPT ![p] = "set"]
    /\ Reply(p, "error")
    /\ UNCHANGED <<unique, spare, late, forms, seen, broken, beside>>

(* SetPassword; the answer shows the password.                             *)
SetPassword(p) ==
    /\ at[p] = "added"
    /\ row' = [row EXCEPT ![p] = "set"]
    /\ Reply(p, "added")
    /\ UNCHANGED <<unique, spare, late, forms, seen, broken, beside>>

(* Fault: nobody looks at what SetPassword returns. *)
SetPasswordFails_Ignored(p) ==
    /\ at[p] = "added"
    /\ row' \in {row, [row EXCEPT ![p] = "set"]}
    /\ Reply(p, "added")
    /\ Break(p)
    /\ UNCHANGED <<unique, spare, late, forms, seen, beside>>

(* The hash or the statement fails, or only the statement's answer is      *)
(* lost, or it is still on its way.                                        *)
SetPasswordFails(p) ==
    /\ at[p] = "added"
    /\ \/ UNCHANGED late /\ row' \in {row, [row EXCEPT ![p] = "set"]}
       \/ UNCHANGED row /\ late' = late \cup {p}
    /\ Reply(p, "error")
    /\ Break(p)
    /\ UNCHANGED <<unique, spare, forms, seen, beside>>

(* PostgreSQL runs the statement of a handler that has given up.           *)
RunLate(p) ==
    /\ p \in late
    /\ \/ row[p] = "none" /\ Insertable(p) /\ Insert(p)
       \/ row[p] = "empty" /\ row' = [row EXCEPT ![p] = "set"]
    /\ late' = late \ {p}
    /\ UNCHANGED <<unique, at, forms, spare, answer, seen, broken, beside>>

(* Fault: the password is on the page whatever has become of the post. *)
Show_Always(p) ==
    /\ at[p] = "answered"
    /\ at' = [at EXCEPT ![p] = "done"]
    /\ seen' = IF p \in latest[by[p]] THEN seen \cup {p} ELSE seen
    /\ UNCHANGED <<unique, table, forms, answer, broken, beside>>

(* The browser shows the answer, if it is the one it still waits for.      *)
Show(p) ==
    /\ at[p] = "answered"
    /\ at' = [at EXCEPT ![p] = "done"]
    /\ seen' = IF answer[p] = "added" /\ p \in latest[by[p]] THEN seen \cup {p} ELSE seen
    /\ UNCHANGED <<unique, table, forms, answer, broken, beside>>

(* The server stops and starts again; its handlers are gone, if not all    *)
(* their statements.                                                       *)
Restart ==
    LET running == {p \in Posts : at[p] \in {"posted", "checked", "added", "answered"}}
    IN  /\ running # {}
        /\ at' = [p \in Posts |-> IF p \in running THEN "done" ELSE at[p]]
        /\ broken' = broken \cup running
        /\ \E sent \in SUBSET {p \in running : at[p] \in {"checked", "added"}} :
              late' = late \cup sent
        /\ UNCHANGED <<unique, row, spare, forms, answer, seen, beside>>

Handle(p) == Check(p) \/ Add(p) \/ AddFails(p) \/ AddTwice(p)
             \/ SetPassword(p) \/ SetPasswordFails(p)

Finished == (\A p \in Posts : at[p] = "done") /\ UNCHANGED vars

Next == \/ \E p \in Posts : \/ \E a \in Admins, n \in Names : Post(p, a, n)
                            \/ Handle(p) \/ RunLate(p) \/ Show(p)
        \/ Restart
        \/ Finished

Spec == Init /\ [][Next]_vars

----------------------------------------------------------------------------
(* Properties                                                              *)

(* The variables keep their types.                                         *)
TypeOK ==
    /\ unique \in BOOLEAN
    /\ at \in [Posts -> Stages]
    /\ by \in [Posts -> Admins]
    /\ name \in [Posts -> Names]
    /\ row \in [Posts -> {"none", "empty", "set"}]
    /\ spare \subseteq {p \in Posts : row[p] # "none"}
    /\ late \subseteq Posts
    /\ answer \in [Posts -> Answers]
    /\ latest \in [Admins -> SUBSET Posts]
    /\ seen \subseteq {p \in Posts : answer[p] = "added"}
    /\ broken \subseteq Posts
    /\ beside \in [Posts -> SUBSET Posts]

(* The accounts a log-on with p's name may be compared with.               *)
Namesakes(p) == {q \in Posts : row[q] # "none" /\ name[q] = name[p]}

(* "User added (Password: ...)" is true: the password opens the account of *)
(* that name, and no other administrator has been told one for the same    *)
(* name - if the schema keeps names apart, as Exists alone cannot.         *)
ShownPasswordOpens ==
    unique => \A p \in Posts :
        answer[p] = "added" => row[p] = "set" /\ Namesakes(p) = {p} /\ p \notin spare

(* Without a key: two accounts of a name come only of posts that were both *)
(* between Exists and their INSERT at some moment; who posts later is      *)
(* refused.                                                                *)
TwinsOverlapped ==
    \A p, q \in Posts :
        p # q /\ q \in Namesakes(p) /\ row[p] # "none" => p \in beside[q] \/ q \in beside[p]

(* A post that is answered with the form again has left no account behind. *)
RefusalLeavesNothing ==
    \A p \in Posts : answer[p] \in {"exists", "invalid"} => row[p] = "none"

(* An account whose password nobody has seen - and which cannot be added   *)
(* again, its name being taken - comes of an error, a restart, or an       *)
(* administrator who posted again before the answer.                       *)
LostPasswordHasCause ==
    \A p \in Posts :
        at[p] = "done" /\ row[p] # "none" /\ p \notin seen
            => p \in broken \/ p \notin latest[by[p]]

(* What an administrator is told, in the words of AccountLedger.           *)
Told(p) == CASE at[p] = "idle" -> "idle"
             [] answer[p] = "error" \/ (at[p] = "done" /\ answer[p] = "none") -> "unknown"
             [] answer[p] \in {"added", "exists", "invalid"} -> answer[p]
             [] OTHER -> "open"

Ledger == INSTANCE AccountLedger WITH told <- [p \in Posts |-> Told(p)]

(* Whatever fails, is sent twice or is cut short by a restart, a post adds *)
(* its account in one moment or not at all, no answer is untrue when it is *)
(* given, and only what was answered with an error may still happen.       *)
ImplementsAccounts == Ledger!Spec
=============================================================================
