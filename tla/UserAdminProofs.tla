--------------------------- MODULE UserAdminProofs ---------------------------
(***************************************************************************)
(* Theorems of UserAdmin, for any number of posts, administrators and      *)
(* names, with or without a unique key on the user name.                   *)
(***************************************************************************)
EXTENDS UserAdmin, TLAPS

(* How far a post is tells what it has left in the table, and what its     *)
(* answer says is true; a lost password has its cause.                     *)
AnswersTrue ==
    \A p \in Posts :
        /\ at[p] \in {"idle", "posted", "checked"} => row[p] = "none"
        /\ at[p] \in {"idle", "posted", "checked", "added"} => answer[p] = "none"
        /\ at[p] = "added" => row[p] = "empty"
        /\ at[p] \in {"checked", "added"} \/ p \in late => name[p] \notin BadNames
        /\ p \in late => /\ (at[p] = "answered" /\ answer[p] = "error") \/ at[p] = "done"
                         /\ answer[p] \in {"none", "error"}
                         /\ p \in broken
        /\ at[p] = "answered" => answer[p] # "none"
        /\ answer[p] = "added" => row[p] = "set"
        /\ answer[p] \in {"exists", "invalid"} => row[p] = "none"
        /\ at[p] = "answered" /\ row[p] # "none" => answer[p] = "added" \/ p \in broken
        /\ at[p] = "done" /\ row[p] # "none" /\ p \notin seen
             => p \in broken \/ p \notin latest[by[p]]

(* A unique key leaves one row for a name.                                 *)
Apart ==
    unique => /\ spare = {}
              /\ \A p, q \in Posts :
                   p # q /\ row[p] # "none" /\ row[q] # "none" => name[p] # name[q]

(* A post that may still add its row, or has.                              *)
Active(p) == at[p] = "checked" \/ p \in late \/ row[p] # "none"

(* Two of a name have been beside each other between Exists and Add.       *)
Overlap ==
    \A p, q \in Posts :
        p # q /\ name[p] = name[q] /\ Active(p) /\ Active(q)
            => p \in beside[q] \/ q \in beside[p]

(* The inductive invariant.                                                *)
IInv == TypeOK /\ AnswersTrue /\ Apart /\ Overlap

LEMMA InitFine == Init => IInv
<1>1. AnyName \in Names /\ AnyAdmin \in Admins
  BY NamesAssumption DEF AnyName, AnyAdmin
<1> QED BY <1>1
        DEF Init, IInv, TypeOK, Stages, Answers, AnswersTrue, Apart, Overlap, Active

(* The variables keep their types.                                         *)
LEMMA TypeStep == IInv /\ [Next]_vars => TypeOK'
<1> SUFFICES ASSUME IInv, [Next]_vars PROVE TypeOK'
  OBVIOUS
<1> USE DEF IInv, vars, table, forms, TypeOK, Stages, Answers, AnswersTrue
<1>1. ASSUME NEW p \in Posts, NEW a \in Admins, NEW n \in Names, Post(p, a, n)
      PROVE  TypeOK'
  BY <1>1 DEF Post
<1>2. ASSUME NEW p \in Posts, Check(p)
      PROVE  TypeOK'
  BY <1>2 DEF Check, GoTo, Reply, Break, Between
<1>3. ASSUME NEW p \in Posts, Add(p)
      PROVE  TypeOK'
  BY <1>3 DEF Add, GoTo, Insert, Insertable
<1>4. ASSUME NEW p \in Posts, AddFails(p)
      PROVE  TypeOK'
  BY <1>4 DEF AddFails, Reply, Break, Insert, Insertable
<1>5. ASSUME NEW p \in Posts, AddTwice(p)
      PROVE  TypeOK'
  BY <1>5 DEF AddTwice, GoTo, Reply, Break, Insert, Insertable
<1>6. ASSUME NEW p \in Posts, SetPassword(p)
      PROVE  TypeOK'
  BY <1>6 DEF SetPassword, Reply
<1>7. ASSUME NEW p \in Posts, SetPasswordFails(p)
      PROVE  TypeOK'
  BY <1>7 DEF SetPasswordFails, Reply, Break
<1>8. ASSUME NEW p \in Posts, Show(p)
      PROVE  TypeOK'
  BY <1>8 DEF Show
<1>9. CASE Restart
  BY <1>9 DEF Restart
<1>10. ASSUME NEW p \in Posts, RunLate(p)
      PROVE  TypeOK'
  BY <1>10 DEF RunLate, Insert, Insertable
<1>11. CASE UNCHANGED vars
  BY <1>11
<1> QED BY <1>1, <1>2, <1>3, <1>4, <1>5, <1>6, <1>7, <1>8, <1>9, <1>10, <1>11
        DEF Next, Handle, Finished

(* A post and its answer.                                                  *)
LEMMA AnswersStep == IInv /\ [Next]_vars => AnswersTrue'
<1> SUFFICES ASSUME IInv, [Next]_vars PROVE AnswersTrue'
  OBVIOUS
<1> USE DEF IInv, vars, table, forms, TypeOK, AnswersTrue, Stages
<1>1. ASSUME NEW p \in Posts, NEW a \in Admins, NEW n \in Names, Post(p, a, n)
      PROVE  AnswersTrue'
  BY <1>1 DEF Post
<1>2. ASSUME NEW p \in Posts, Check(p)
      PROVE  AnswersTrue'
  BY <1>2 DEF Check, GoTo, Reply, Break, Between
<1>3. ASSUME NEW p \in Posts, Add(p)
      PROVE  AnswersTrue'
  BY <1>3 DEF Add, GoTo, Insert, Insertable
<1>4. ASSUME NEW p \in Posts, AddFails(p)
      PROVE  AnswersTrue'
  BY <1>4 DEF AddFails, Reply, Break, Insert, Insertable
<1>5. ASSUME NEW p \in Posts, AddTwice(p)
      PROVE  AnswersTrue'
  BY <1>5 DEF AddTwice, GoTo, Reply, Break, Insert, Insertable
<1>6. ASSUME NEW p \in Posts, SetPassword(p)
      PROVE  AnswersTrue'
  BY <1>6 DEF SetPassword, Reply
<1>7. ASSUME NEW p \in Posts, SetPasswordFails(p)
      PROVE  AnswersTrue'
  BY <1>7 DEF SetPasswordFails, Reply, Break
<1>8. ASSUME NEW p \in Posts, Show(p)
      PROVE  AnswersTrue'
  BY <1>8 DEF Show
<1>9. CASE Restart
  BY <1>9 DEF Restart
<1>10. ASSUME NEW p \in Posts, RunLate(p)
      PROVE  AnswersTrue'
  BY <1>10 DEF RunLate, Insert, Insertable
<1>11. CASE UNCHANGED vars
  BY <1>11
<1> QED BY <1>1, <1>2, <1>3, <1>4, <1>5, <1>6, <1>7, <1>8, <1>9, <1>10, <1>11
        DEF Next, Handle, Finished

(* A key keeps names apart.                                                *)
LEMMA ApartStep == IInv /\ [Next]_vars => Apart'
<1> SUFFICES ASSUME IInv, [Next]_vars PROVE Apart'
  OBVIOUS
<1> USE DEF IInv, vars, table, forms, TypeOK, AnswersTrue, Apart, Taken
<1>1. ASSUME NEW p \in Posts, NEW a \in Admins, NEW n \in Names, Post(p, a, n)
      PROVE  Apart'
  BY <1>1 DEF Post
<1>2. ASSUME NEW p \in Posts, Check(p)
      PROVE  Apart'
  BY <1>2 DEF Check, GoTo, Reply, Break, Between
<1>3. ASSUME NEW p \in Posts, Add(p)
      PROVE  Apart'
  BY <1>3 DEF Add, GoTo, Insert, Insertable
<1>4. ASSUME NEW p \in Posts, AddFails(p)
      PROVE  Apart'
  BY <1>4 DEF AddFails, Reply, Break, Insert, Insertable
<1>5. ASSUME NEW p \in Posts, AddTwice(p)
      PROVE  Apart'
  BY <1>5 DEF AddTwice, GoTo, Reply, Break, Insert, Insertable
<1>6. ASSUME NEW p \in Posts, SetPassword(p)
      PROVE  Apart'
  BY <1>6 DEF SetPassword, Reply
<1>7. ASSUME NEW p \in Posts, SetPasswordFails(p)
      PROVE  Apart'
  BY <1>7 DEF SetPasswordFails, Reply, Break
<1>8. ASSUME NEW p \in Posts, Show(p)
      PROVE  Apart'
  BY <1>8 DEF Show
<1>9. CASE Restart
  BY <1>9 DEF Restart
<1>10. ASSUME NEW p \in Posts, RunLate(p)
      PROVE  Apart'
  BY <1>10 DEF RunLate, Insert, Insertable
<1>11. CASE UNCHANGED vars
  BY <1>11
<1> QED BY <1>1, <1>2, <1>3, <1>4, <1>5, <1>6, <1>7, <1>8, <1>9, <1>10, <1>11
        DEF Next, Handle, Finished

(* Namesakes have met.                                                     *)
LEMMA OverlapStep == IInv /\ [Next]_vars => Overlap'
<1> SUFFICES ASSUME IInv, [Next]_vars PROVE Overlap'
  OBVIOUS
<1> USE DEF IInv, vars, table, forms, TypeOK, AnswersTrue, Overlap, Active, Taken
<1>1. ASSUME NEW p \in Posts, NEW a \in Admins, NEW n \in Names, Post(p, a, n)
      PROVE  Overlap'
  BY <1>1 DEF Post
<1>2. ASSUME NEW p \in Posts, Check(p)
      PROVE  Overlap'
  BY <1>2 DEF Check, GoTo, Reply, Break, Between
<1>3. ASSUME NEW p \in Posts, Add(p)
      PROVE  Overlap'
  BY <1>3 DEF Add, GoTo, Insert, Insertable
<1>4. ASSUME NEW p \in Posts, AddFails(p)
      PROVE  Overlap'
  BY <1>4 DEF AddFails, Reply, Break, Insert, Insertable
<1>5. ASSUME NEW p \in Posts, AddTwice(p)
      PROVE  Overlap'
  BY <1>5 DEF AddTwice, GoTo, Reply, Break, Insert, Insertable
<1>6. ASSUME NEW p \in Posts, SetPassword(p)
      PROVE  Overlap'
  BY <1>6 DEF SetPassword, Reply
<1>7. ASSUME NEW p \in Posts, SetPasswordFails(p)
      PROVE  Overlap'
  BY <1>7 DEF SetPasswordFails, Reply, Break
<1>8. ASSUME NEW p \in Posts, Show(p)
      PROVE  Overlap'
  BY <1>8 DEF Show
<1>9. CASE Restart
  BY <1>9 DEF Restart
<1>10. ASSUME NEW p \in Posts, RunLate(p)
      PROVE  Overlap'
  BY <1>10 DEF RunLate, Insert, Insertable
<1>11. CASE UNCHANGED vars
  BY <1>11
<1> QED BY <1>1, <1>2, <1>3, <1>4, <1>5, <1>6, <1>7, <1>8, <1>9, <1>10, <1>11
        DEF Next, Handle, Finished

LEMMA Invariance == Spec => []IInv
<1>1. IInv /\ [Next]_vars => IInv'
  BY TypeStep, AnswersStep, ApartStep, OverlapStep DEF IInv
<1> QED BY <1>1, InitFine, PTL DEF Spec

----------------------------------------------------------------------------
(* The theorems                                                            *)

(* The variables keep their types.                                         *)
THEOREM UserAdminTypeCorrect == Spec => []TypeOK
<1>1. IInv => TypeOK
  BY DEF IInv
<1> QED BY <1>1, Invariance, PTL

(* With a key on the name, the password in "User added" (user.go:453-456)  *)
(* opens the one account of that name.                                     *)
THEOREM ShownPasswordOpensAlways == Spec => []ShownPasswordOpens
<1>1. IInv => ShownPasswordOpens
  BY DEF IInv, AnswersTrue, Apart, ShownPasswordOpens, Namesakes
<1> QED BY <1>1, Invariance, PTL

(* Without one, twins come only of posts that were both between Exists     *)
(* and Add (user.go:418-438).                                              *)
THEOREM TwinsOverlappedAlways == Spec => []TwinsOverlapped
<1>1. IInv => TwinsOverlapped
  BY DEF IInv, Overlap, Active, TwinsOverlapped, Namesakes
<1> QED BY <1>1, Invariance, PTL

(* "User already exists" and a refused name leave no row                   *)
(* (user.go:425-436).                                                      *)
THEOREM RefusalLeavesNothingAlways == Spec => []RefusalLeavesNothing
<1>1. IInv => RefusalLeavesNothing
  BY DEF IInv, AnswersTrue, RefusalLeavesNothing
<1> QED BY <1>1, Invariance, PTL

(* A password nobody has seen comes of an error, a restart or an           *)
(* impatient second post (user.go:438-451).                                *)
THEOREM LostPasswordHasCauseAlways == Spec => []LostPasswordHasCause
<1>1. IInv => LostPasswordHasCause
  BY DEF IInv, AnswersTrue, LostPasswordHasCause
<1> QED BY <1>1, Invariance, PTL

----------------------------------------------------------------------------
(* The ledger                                                              *)

LEMMA LedgerInit == Init => Ledger!Init
<1> SUFFICES ASSUME Init PROVE Ledger!Init
  OBVIOUS
<1>1. AnyName \in Names
  BY NamesAssumption DEF AnyName
<1>2. [p \in Posts |-> Told(p)] = [p \in Posts |-> "idle"]
  BY DEF Init, Told
<1> QED BY <1>1, <1>2 DEF Init, Ledger!Init

(* What the ledger sees of a post that stays where it is.                  *)
LEMMA ToldStays ==
    ASSUME NEW p, at'[p] = at[p], answer'[p] = answer[p]
    PROVE  Told(p)' = Told(p)
BY DEF Told

(* A handler's step is about its own post.                                 *)
LEMMA ToldMoves ==
    ASSUME NEW p \in Posts, \A q \in Posts : q # p => Told(q)' = Told(q)
    PROVE  [q \in Posts |-> Told(q)]' = [[q \in Posts |-> Told(q)] EXCEPT ![p] = Told(p)']
OBVIOUS

(* An answer is what the ledger tells.                                     *)
LEMMA ReplyTells ==
    ASSUME IInv, NEW p \in Posts, at[p] \in {"posted", "checked", "added"},
           NEW what \in {"exists", "invalid", "error", "added"}, Reply(p, what),
           UNCHANGED <<unique, name>>
    PROVE  Ledger!Tell(p, IF what = "error" THEN "unknown" ELSE what)
<1>1. at'[p] = "answered" /\ answer'[p] = what /\ \A q \in Posts : q # p => Told(q)' = Told(q)
  BY ToldStays DEF Reply, IInv, TypeOK
<1>2. Told(p) = "open"
  BY DEF IInv, AnswersTrue, Told
<1>3. Told(p)' = IF what = "error" THEN "unknown" ELSE what
  BY <1>1 DEF Told
<1> QED BY <1>1, <1>2, <1>3, ToldMoves DEF Ledger!Tell

LEMMA GoToOpen ==
    ASSUME IInv, NEW p \in Posts, at[p] \in {"posted", "checked", "added"},
           NEW stage \in {"checked", "added"}, GoTo(p, stage)
    PROVE  Told(p) = "open" /\ [q \in Posts |-> Told(q)]' = [q \in Posts |-> Told(q)]
<1>1. at'[p] = stage /\ answer'[p] = answer[p] /\ \A q \in Posts : q # p => Told(q)' = Told(q)
  BY ToldStays DEF GoTo, IInv, TypeOK
<1>2. Told(p) = "open" /\ Told(p)' = "open"
  BY <1>1 DEF IInv, AnswersTrue, Told
<1> QED BY <1>1, <1>2

(* The INSERT of a handler.                                                *)
LEMMA InsertBears ==
    ASSUME IInv, NEW p \in Posts, at[p] = "checked" \/ (p \in late /\ row[p] = "none"),
           Insertable(p), Insert(p)
    PROVE  Ledger!Born(p)
BY DEF IInv, AnswersTrue, Insertable, Insert, Taken, Ledger!Born, Ledger!Holders
LEMMA LedgerAsks ==
    ASSUME IInv, NEW p \in Posts, NEW a \in Admins, NEW n \in Names, Post(p, a, n)
    PROVE  Ledger!Ask(p)
<1>1. /\ at[p] = "idle" /\ at' = [at EXCEPT ![p] = "posted"] /\ name' = [name EXCEPT ![p] = n]
      /\ UNCHANGED <<unique, row, answer>>
  BY DEF Post, table
<1>2. at'[p] = "posted" /\ answer'[p] = "none" /\ \A q \in Posts : q # p => Told(q)' = Told(q)
  BY <1>1, ToldStays DEF IInv, TypeOK, AnswersTrue
<1>3. Told(p) = "idle" /\ Told(p)' = "open"
  BY <1>1, <1>2 DEF Told
<1> QED BY <1>1, <1>2, <1>3, ToldMoves DEF Ledger!Ask

LEMMA LedgerChecks ==
    ASSUME IInv, NEW p \in Posts, Check(p)
    PROVE  \/ Ledger!Refuse(p) \/ Ledger!GiveUp(p)
           \/ UNCHANGED Ledger!vars
<1>1. at[p] = "posted" /\ row[p] = "none" /\ UNCHANGED <<unique, name, row>>
  BY DEF Check, table, forms, IInv, AnswersTrue
<1>2. CASE Taken(name[p]) /\ Reply(p, "exists")
  <2>1. Ledger!Holders(name[p]) # {}
    BY <1>2 DEF Taken, Ledger!Holders
  <2>2. Ledger!Tell(p, "exists")
    BY <1>1, <1>2, ReplyTells
  <2> QED BY <1>1, <2>1, <2>2 DEF Ledger!Refuse
<1>3. CASE name[p] \in BadNames /\ Reply(p, "invalid")
  <2>1. Ledger!Tell(p, "invalid")
    BY <1>1, <1>3, ReplyTells
  <2> QED BY <1>1, <1>3, <2>1 DEF Ledger!Refuse
<1>4. CASE Reply(p, "error")
  <2>1. Ledger!Tell(p, "unknown")
    BY <1>1, <1>4, ReplyTells
  <2> QED BY <1>1, <2>1 DEF Ledger!GiveUp
<1>5. CASE GoTo(p, "checked")
  BY <1>1, <1>5, GoToOpen DEF Ledger!vars
<1> QED BY <1>2, <1>3, <1>4, <1>5 DEF Check

LEMMA LedgerAdds ==
    ASSUME IInv, NEW p \in Posts, Add(p) \/ AddFails(p) \/ AddTwice(p)
    PROVE  Ledger!Create(p) \/ Ledger!GiveUp(p)
<1>1. at[p] = "checked" /\ UNCHANGED <<unique, name>>
  BY DEF Add, AddFails, AddTwice, forms
<1>2. CASE Insertable(p) /\ Insert(p) /\ GoTo(p, "added")
  BY <1>1, <1>2, InsertBears, GoToOpen DEF Ledger!Create
<1>3. CASE Reply(p, "error") /\ (UNCHANGED row \/ (Insertable(p) /\ Insert(p)))
  <2>1. Ledger!Tell(p, "unknown")
    BY <1>1, <1>3, ReplyTells
  <2> QED BY <1>1, <1>3, <2>1, InsertBears DEF Ledger!GiveUp
<1> QED BY <1>2, <1>3 DEF Add, AddFails, AddTwice

LEMMA LedgerSets ==
    ASSUME IInv, NEW p \in Posts, SetPassword(p) \/ SetPasswordFails(p)
    PROVE  Ledger!Announce(p) \/ Ledger!GiveUp(p)
<1>1. at[p] = "added" /\ row[p] = "empty" /\ UNCHANGED <<unique, name>>
  BY DEF SetPassword, SetPasswordFails, forms, IInv, AnswersTrue
<1>2. CASE row' = [row EXCEPT ![p] = "set"] /\ Reply(p, "added")
  <2>1. Ledger!Tell(p, "added")
    BY <1>1, <1>2, ReplyTells
  <2> QED BY <1>1, <1>2, <2>1 DEF Ledger!Announce, Ledger!Keyed
<1>3. CASE row' \in {row, [row EXCEPT ![p] = "set"]} /\ Reply(p, "error")
  <2>1. Ledger!Tell(p, "unknown")
    BY <1>1, <1>3, ReplyTells
  <2> QED BY <1>1, <1>3, <2>1 DEF Ledger!GiveUp, Ledger!Keyed
<1> QED BY <1>2, <1>3 DEF SetPassword, SetPasswordFails

(* A late statement is that of a post which was told "unknown".            *)
LEMMA LedgerLate ==
    ASSUME IInv, NEW p \in Posts, RunLate(p)
    PROVE  Ledger!Late(p)
<1>1. p \in late /\ UNCHANGED <<unique, name, at, answer>>
  BY DEF RunLate, forms
<1>2. Told(p) = "unknown"
  BY <1>1 DEF IInv, AnswersTrue, Told
<1>3. Ledger!Born(p) \/ Ledger!Keyed(p)
  BY InsertBears DEF RunLate, Ledger!Keyed
<1>4. [q \in Posts |-> Told(q)]' = [q \in Posts |-> Told(q)]
  BY <1>1, ToldStays
<1> QED BY <1>1, <1>2, <1>3, <1>4 DEF Ledger!Late

(* The browser shows what has been told.                                   *)
LEMMA LedgerShows ==
    ASSUME IInv, NEW p \in Posts, Show(p)
    PROVE  UNCHANGED Ledger!vars
<1>1. /\ at[p] = "answered" /\ at' = [at EXCEPT ![p] = "done"] /\ answer[p] # "none"
      /\ UNCHANGED <<unique, name, row, answer>>
  BY DEF Show, table, forms, IInv, AnswersTrue
<1>2. at'[p] = "done" /\ \A q \in Posts : q # p => Told(q)' = Told(q)
  BY <1>1, ToldStays DEF IInv, TypeOK
<1>3. Told(p)' = Told(p)
  BY <1>1, <1>2 DEF Told
<1>4. [q \in Posts |-> Told(q)]' = [q \in Posts |-> Told(q)]
  BY <1>2, <1>3
<1> QED BY <1>1, <1>4 DEF Ledger!vars

(* A restart leaves those it cuts short without an answer.                 *)
LEMMA LedgerCrashes ==
    ASSUME IInv, Restart
    PROVE  Ledger!Crash
<1>1. UNCHANGED <<unique, name, row, answer>>
  BY DEF Restart, table, forms
<1>2. ASSUME NEW q \in Posts
      PROVE  Told(q)' = IF Told(q) = "open" THEN "unknown" ELSE Told(q)
  <2>1. /\ at'[q] = IF at[q] \in {"posted", "checked", "added", "answered"} THEN "done" ELSE at[q]
        /\ at[q] \in Stages /\ answer[q] \in Answers /\ answer'[q] = answer[q]
    BY <1>1 DEF Restart, IInv, TypeOK
  <2>2. CASE at[q] \in {"posted", "checked", "added"}
    <3>1. at'[q] = "done" /\ answer[q] = "none" /\ answer'[q] = "none"
      BY <2>1, <2>2 DEF IInv, AnswersTrue
    <3> QED BY <2>2, <3>1 DEF Told
  <2>3. CASE at[q] = "answered"
    <3>1. at'[q] = "done" /\ answer[q] \in {"exists", "invalid", "error", "added"}
      BY <2>1, <2>3 DEF IInv, AnswersTrue, Answers
    <3> QED BY <2>1, <2>3, <3>1 DEF Told
  <2>4. CASE at[q] = "idle"
    BY <2>1, <2>4 DEF Told
  <2>5. CASE at[q] = "done"
    BY <2>1, <2>5 DEF Told, Answers
  <2> QED BY <2>1, <2>2, <2>3, <2>4, <2>5 DEF Stages
<1> QED BY <1>1, <1>2 DEF Ledger!Crash

(* The handler of a new user (user.go:404-457) keeps every promise of      *)
(* AccountLedger, through errors, lost answers, repeated statements and    *)
(* restarts: a post adds its account in one moment or not at all, and what *)
(* is told is true and final.                                              *)
THEOREM AccountsImplemented == Spec => ImplementsAccounts
<1>1. IInv /\ [Next]_vars => [Ledger!Next]_(Ledger!vars)
  <2> SUFFICES ASSUME IInv, [Next]_vars
               PROVE  [Ledger!Next]_(Ledger!vars)
    OBVIOUS
  <2>1. ASSUME NEW p \in Posts, NEW a \in Admins, NEW n \in Names, Post(p, a, n)
        PROVE  Ledger!Next
    BY <2>1, LedgerAsks DEF Ledger!Next
  <2>2. ASSUME NEW p \in Posts, Handle(p)
        PROVE  [Ledger!Next]_(Ledger!vars)
    BY <2>2, LedgerChecks, LedgerAdds, LedgerSets DEF Handle, Ledger!Next
  <2>3. ASSUME NEW p \in Posts, Show(p)
        PROVE  UNCHANGED Ledger!vars
    BY <2>3, LedgerShows
  <2>4. ASSUME NEW p \in Posts, RunLate(p)
        PROVE  Ledger!Next
    BY <2>4, LedgerLate DEF Ledger!Next
  <2>5. CASE Restart
    BY <2>5, LedgerCrashes DEF Ledger!Next
  <2>6. CASE UNCHANGED vars
    BY <2>6, ToldStays DEF vars, table, forms, Ledger!vars
  <2> QED BY <2>1, <2>2, <2>3, <2>4, <2>5, <2>6 DEF Next, Finished
<1> QED BY <1>1, LedgerInit, Invariance, PTL DEF Spec, ImplementsAccounts, Ledger!Spec
=============================================================================
