-------------------------------- MODULE Logon ----------------------------------
(***************************************************************************)
(* routeLogonPost: the log-on handler and the lock of an account.          *)
(*                                                                         *)
(* The handler reads the row of table "users" once and works on that copy: *)
(* the lock is checked on it, and the counter of failed log-ons is written *)
(* back as the copy's value plus one, in a statement of its own.  Between  *)
(* two statements other handlers for the same account run theirs; the      *)
(* bcrypt comparison makes that window long.  Nothing in the program       *)
(* unlocks an account: User.Unlock has no caller.                          *)
(***************************************************************************)
EXTENDS Integers, FiniteSets

CONSTANTS
    Handlers,           \* log-on requests the server handles at the same time
    Users,              \* the accounts in table "users"
    Stranger,           \* a posted user name without an account
    MaxFailedLogins,    \* config.MaxFailedLogins, an int16; 0 if left out
    MaxInt16,           \* 32767
    MaxFaults,          \* bound: database errors in a behaviour
    MaxWrongs           \* bound: where the history variable `wrongs` stops counting

ASSUME HandlersAssumption == IsFiniteSet(Handlers) /\ Handlers # {}

ASSUME UsersAssumption == Stranger \notin Users

ASSUME LimitsAssumption ==
    /\ MaxInt16 \in Nat \ {0}
    /\ MaxFailedLogins \in 0 .. MaxInt16
    /\ MaxFaults \in Nat
    /\ MaxWrongs \in Nat \ {0} /\ MaxWrongs >= MaxFailedLogins

VARIABLES
    loginAttempts,  \* column login_attempts of each account
    isLocked,       \* column is_locked
    pc,             \* pc[h]: where handler h is
    who,            \* who[h]: the posted user name
    seen,           \* seen[h]: LoginAttempts in the handler's copy of the row
    faults,         \* database errors so far
    wrongs,         \* history: wrong passwords tried on each account
    lateIns         \* history: log-ons to each account since it was locked

table == <<loginAttempts, isLocked>>
vars == <<loginAttempts, isLocked, pc, who, seen, faults, wrongs, lateIns>>

Places == {"free", "exists", "load", "check", "bump", "lock", "clear", "admit"}

Int16 == -(MaxInt16 + 1) .. MaxInt16

TypeOK ==
    /\ loginAttempts \in [Users -> Int16]
    /\ isLocked \in [Users -> BOOLEAN]
    /\ pc \in [Handlers -> Places]
    /\ who \in [Handlers -> Users \cup {Stranger}]
    /\ seen \in [Handlers -> Int16]
    /\ faults \in 0 .. MaxFaults
    /\ wrongs \in [Users -> 0 .. MaxWrongs]
    /\ lateIns \in [Users -> Nat]
    /\ \A h \in Handlers : pc[h] \notin {"free", "exists"} => who[h] \in Users

Init ==
    /\ loginAttempts = [u \in Users |-> 0]
    /\ isLocked = [u \in Users |-> FALSE]
    /\ pc = [h \in Handlers |-> "free"]
    /\ who = [h \in Handlers |-> Stranger]
    /\ seen = [h \in Handlers |-> 0]
    /\ faults = 0
    /\ wrongs = [u \in Users |-> 0]
    /\ lateIns = [u \in Users |-> 0]

--------------------------------------------------------------------------------

(* The database reports an error. *)
Fault == faults < MaxFaults /\ faults' = faults + 1

NoFault == UNCHANGED faults

(* The request is answered, and the handler's variables are gone. *)
Reply(h) ==
    /\ pc' = [pc EXCEPT ![h] = "free"]
    /\ who' = [who EXCEPT ![h] = Stranger]
    /\ seen' = [seen EXCEPT ![h] = 0]

GoTo(h, p) ==
    /\ pc' = [pc EXCEPT ![h] = p]
    /\ UNCHANGED <<who, seen>>

(* A browser posts the log-on form. *)
Post(h) ==
    /\ pc[h] = "free"
    /\ \E u \in Users \cup {Stranger} : who' = [who EXCEPT ![h] = u]
    /\ pc' = [pc EXCEPT ![h] = "exists"]
    /\ UNCHANGED <<table, seen, faults, wrongs, lateIns>>

(* u.Exists().  Accounts are added, never removed. *)
Exists(h) ==
    /\ pc[h] = "exists"
    /\ \/ Fault /\ Reply(h)
       \/ NoFault /\ who[h] = Stranger /\ Reply(h)
       \/ NoFault /\ who[h] # Stranger /\ GoTo(h, "load")
    /\ UNCHANGED <<table, wrongs, lateIns>>

(* Fault: nobody looks at the lock. *)
Load_IgnoresLock(h) ==
    /\ pc[h] = "load"
    /\ pc' = [pc EXCEPT ![h] = "check"]
    /\ seen' = [seen EXCEPT ![h] = loginAttempts[who[h]]]
    /\ UNCHANGED <<table, who, faults, wrongs, lateIns>>

(* Fault: the handler goes on with the User it posted, not the loaded one. *)
Load_KeepsPosted(h) ==
    /\ pc[h] = "load"
    /\ \/ ~isLocked[who[h]] /\ GoTo(h, "check")
       \/ isLocked[who[h]] /\ Reply(h)
    /\ UNCHANGED <<table, faults, wrongs, lateIns>>

(* NewUserByUsername, and the lock checked on what it returned. *)
Load(h) ==
    /\ pc[h] = "load"
    /\ \/ Fault /\ Reply(h)
       \/ NoFault /\ isLocked[who[h]] /\ Reply(h)
       \/ /\ NoFault /\ ~isLocked[who[h]]
          /\ pc' = [pc EXCEPT ![h] = "check"]
          /\ seen' = [seen EXCEPT ![h] = loginAttempts[who[h]]]
          /\ UNCHANGED who
    /\ UNCHANGED <<table, wrongs, lateIns>>

Tried(u) == wrongs' = [wrongs EXCEPT ![u] = IF @ < MaxWrongs THEN @ + 1 ELSE @]

(* Fault: every error of CheckPassword counts against the account. *)
CheckPassword_CountsErrors(h) ==
    /\ pc[h] = "check"
    /\ \/ Fault /\ GoTo(h, "bump") /\ UNCHANGED wrongs
       \/ NoFault /\ GoTo(h, "admit") /\ UNCHANGED wrongs
       \/ NoFault /\ GoTo(h, "bump") /\ Tried(who[h])
    /\ UNCHANGED <<table, lateIns>>

(* CheckPassword reads the hash again, and compares: an error, a right     *)
(* password or a wrong one.  Only the last counts against the account.     *)
CheckPassword(h) ==
    /\ pc[h] = "check"
    /\ \/ Fault /\ Reply(h) /\ UNCHANGED wrongs
       \/ NoFault /\ GoTo(h, "admit") /\ UNCHANGED wrongs
       \/ NoFault /\ GoTo(h, "bump") /\ Tried(who[h])
    /\ UNCHANGED <<table, lateIns>>

(* Fault: the counter saturates nowhere. *)
Incremented_Wide(n) == n + 1

(* u.LoginAttempts + 1, in 16 bits. *)
Incremented(n) == IF n = MaxInt16 THEN -(MaxInt16 + 1) ELSE n + 1

(* Fault: the limit itself is still allowed. *)
Bump_PastLimit(h) ==
    LET n == Incremented(seen[h])
    IN  /\ pc[h] = "bump"
        /\ loginAttempts' = [loginAttempts EXCEPT ![who[h]] = n]
        /\ \/ n > MaxFailedLogins /\ GoTo(h, "lock")
           \/ n <= MaxFailedLogins /\ Reply(h)
        /\ UNCHANGED <<isLocked, faults, wrongs, lateIns>>

(* IncrementLoginAttempts up to its UPDATE, whose error is only logged. *)
Bump(h) ==
    LET n == Incremented(seen[h])
    IN  /\ pc[h] = "bump"
        /\ \/ NoFault /\ loginAttempts' = [loginAttempts EXCEPT ![who[h]] = n]
           \/ Fault /\ UNCHANGED loginAttempts
        /\ \/ n >= MaxFailedLogins /\ GoTo(h, "lock")
           \/ n < MaxFailedLogins /\ Reply(h)
        /\ UNCHANGED <<isLocked, wrongs, lateIns>>

(* Lock(): the result is not looked at. *)
Lock(h) ==
    /\ pc[h] = "lock"
    /\ \/ NoFault /\ isLocked' = [isLocked EXCEPT ![who[h]] = TRUE]
       \/ Fault /\ UNCHANGED isLocked
    /\ GoTo(h, "clear")
    /\ UNCHANGED <<loginAttempts, wrongs, lateIns>>

ResetLoginAttempts(h) ==
    \/ NoFault /\ loginAttempts' = [loginAttempts EXCEPT ![who[h]] = 0]
    \/ Fault /\ UNCHANGED loginAttempts

(* ResetLoginAttempts() of the account just locked. *)
Clear(h) ==
    /\ pc[h] = "clear"
    /\ ResetLoginAttempts(h)
    /\ Reply(h)
    /\ UNCHANGED <<isLocked, wrongs, lateIns>>

(* The password was right: the counter goes to 0, the session cookie is    *)
(* issued, whatever has become of the account since Load.                  *)
Admit(h) ==
    LET u == who[h]
    IN  /\ pc[h] = "admit"
        /\ ResetLoginAttempts(h)
        /\ Reply(h)
        /\ lateIns' = [lateIns EXCEPT ![u] = IF isLocked[u] THEN @ + 1 ELSE @]
        /\ UNCHANGED <<isLocked, wrongs>>

Handle(h) ==
    \/ Exists(h) \/ Load(h) \/ CheckPassword(h)
    \/ Bump(h) \/ Lock(h) \/ Clear(h) \/ Admit(h)

Next == \E h \in Handlers : Post(h) \/ Handle(h)

Spec == Init /\ [][Next]_vars

(* Every handler runs to its answer; nobody has to log on. *)
FairSpec == Spec /\ \A h \in Handlers : WF_vars(Handle(h))

--------------------------------------------------------------------------------
(* Properties                                                              *)

(* An account is locked only after MaxFailedLogins wrong passwords, and    *)
(* never without one, however the handlers that count them overlap and     *)
(* whichever of their statements fail: a lost update may lose a wrong      *)
(* password but never invents one.                                         *)
LockEarned ==
    \A u \in Users : isLocked[u] => wrongs[u] >= 1 /\ wrongs[u] >= MaxFailedLogins

(* The lock is checked on a copy of the row, so handlers that have passed  *)
(* the check may still let somebody in: at most all the others than the    *)
(* one that locked the account, and after them nobody for good.            *)
LateInsBounded == \A u \in Users : lateIns[u] <= Cardinality(Handlers) - 1

(* Unless the database failed, an account whose counter has reached the    *)
(* limit is locked or a handler is just about to lock it: the two columns, *)
(* written in two statements, never part for good.                         *)
LimitMeansLock ==
    \A u \in Users :
        faults = 0 /\ loginAttempts[u] >= 1 /\ loginAttempts[u] >= MaxFailedLogins =>
            isLocked[u] \/ \E h \in Handlers : who[h] = u /\ pc[h] = "lock"

(* However the increments overwrite each other, somebody who goes on       *)
(* trying wrong passwords, while nobody logs on, gets the account locked.  *)
GuessingEndsLocked ==
    \A u \in Users :
        /\ []<>(\E h \in Handlers : who[h] = u /\ pc[h] = "bump")
        /\ <>[](\A h \in Handlers : ~(who[h] = u /\ pc[h] = "admit"))
        => <>isLocked[u]
================================================================================
