----------------------------- MODULE LogonProofs -------------------------------
(***************************************************************************)
(* Proofs about Logon, for any number of handlers and accounts, any limit, *)
(* any width of the counter and any number of database errors.             *)
(***************************************************************************)
EXTENDS Logon, FiniteSetTheorems, TLAPS

--------------------------------------------------------------------------------
(* Types *)

LEMMA InitTyped == Init => TypeOK
  BY UsersAssumption, LimitsAssumption DEF Init, TypeOK, Places, Int16

LEMMA IncrementedTyped == ASSUME NEW n \in Int16
                          PROVE  Incremented(n) \in Int16 /\ Incremented(n) <= n + 1
  BY LimitsAssumption DEF Int16, Incremented

(* One step of the counter of tried passwords: it never goes down. *)
LEMMA TriedGrows ==
  ASSUME TypeOK, NEW u \in Users, Tried(u)
  PROVE  /\ wrongs' \in [Users -> 0 .. MaxWrongs]
         /\ \A v \in Users : wrongs'[v] >= wrongs[v]
         /\ wrongs'[u] = MaxWrongs \/ wrongs'[u] = wrongs[u] + 1
         /\ wrongs'[u] >= 1
  BY LimitsAssumption DEF TypeOK, Tried

LEMMA StepTyped == ASSUME TypeOK, [Next]_vars PROVE TypeOK'
<1> USE UsersAssumption, LimitsAssumption DEF TypeOK, Places, table
<1> 0 \in Int16
  BY DEF Int16
<1>1. ASSUME NEW h \in Handlers, Post(h) PROVE TypeOK'
  BY <1>1 DEF Post
<1>2. ASSUME NEW h \in Handlers, Exists(h) PROVE TypeOK'
  BY <1>2 DEF Exists, Fault, NoFault, Reply, GoTo
<1>3. ASSUME NEW h \in Handlers, Load(h) PROVE TypeOK'
  BY <1>3 DEF Load, Fault, NoFault, Reply
<1>4. ASSUME NEW h \in Handlers, CheckPassword(h) PROVE TypeOK'
  <2>1. who[h] \in Users
    BY <1>4 DEF CheckPassword
  <2>2. wrongs' \in [Users -> 0 .. MaxWrongs]
    BY <1>4, <2>1, TriedGrows DEF CheckPassword
  <2> QED BY <1>4, <2>1, <2>2 DEF CheckPassword, Fault, NoFault, Reply, GoTo
<1>5. ASSUME NEW h \in Handlers, Bump(h) PROVE TypeOK'
  <2>1. Incremented(seen[h]) \in Int16 /\ who[h] \in Users
    BY <1>5, IncrementedTyped DEF Bump
  <2> QED BY <1>5, <2>1 DEF Bump, Fault, NoFault, Reply, GoTo
<1>6. ASSUME NEW h \in Handlers, Lock(h) PROVE TypeOK'
  <2>1. who[h] \in Users /\ faults' \in 0 .. MaxFaults /\ pc' \in [Handlers -> Places]
    BY <1>6 DEF Lock, Fault, NoFault, GoTo
  <2>2. isLocked' \in [Users -> BOOLEAN]
    <3>1. isLocked' = [isLocked EXCEPT ![who[h]] = TRUE] \/ isLocked' = isLocked
      BY <1>6 DEF Lock
    <3> QED BY <2>1, <3>1
  <2> QED BY <1>6, <2>1, <2>2 DEF Lock, GoTo
<1>7. ASSUME NEW h \in Handlers, Clear(h) PROVE TypeOK'
  BY <1>7 DEF Clear, ResetLoginAttempts, Fault, NoFault, Reply
<1>8. ASSUME NEW h \in Handlers, Admit(h) PROVE TypeOK'
  BY <1>8 DEF Admit, ResetLoginAttempts, Fault, NoFault, Reply
<1>9. CASE UNCHANGED vars
  BY <1>9 DEF vars
<1> QED BY <1>1, <1>2, <1>3, <1>4, <1>5, <1>6, <1>7, <1>8, <1>9 DEF Next, Handle

(* The variables keep their types, the counter its 16 bits. *)
THEOREM TypeCorrect == Spec => []TypeOK
  BY InitTyped, StepTyped, PTL DEF Spec

--------------------------------------------------------------------------------
(* No lock without wrong passwords: a counter, in the table or in a        *)
(* handler's copy of the row, is never ahead of the passwords tried.       *)

Covered(n, u) == n <= wrongs[u] \/ wrongs[u] = MaxWrongs

Earned(u) == wrongs[u] >= 1 /\ wrongs[u] >= MaxFailedLogins

CountInv ==
    /\ \A u \in Users : Covered(loginAttempts[u], u)
    /\ \A h \in Handlers :
          /\ pc[h] = "check" => Covered(seen[h], who[h])
          /\ pc[h] = "bump" => Covered(seen[h] + 1, who[h]) /\ wrongs[who[h]] >= 1
          /\ pc[h] = "lock" => Earned(who[h])
    /\ LockEarned

LEMMA CountInit == Init => CountInv
  BY UsersAssumption, LimitsAssumption DEF Init, CountInv, Covered, LockEarned

LEMMA CountStep == ASSUME TypeOK, CountInv, [Next]_vars PROVE CountInv'
<1> USE UsersAssumption, LimitsAssumption DEF TypeOK, CountInv, Covered, Earned, LockEarned, Int16, table
<1>1. ASSUME NEW h \in Handlers, Post(h) PROVE CountInv'
  BY <1>1 DEF Post
<1>2. ASSUME NEW h \in Handlers, Exists(h) PROVE CountInv'
  BY <1>2 DEF Exists, Fault, NoFault, Reply, GoTo
<1>3. ASSUME NEW h \in Handlers, Load(h) PROVE CountInv'
  BY <1>3 DEF Load, Fault, NoFault, Reply
<1>4. ASSUME NEW h \in Handlers, CheckPassword(h) PROVE CountInv'
  <2>1. who[h] \in Users
    BY <1>4 DEF CheckPassword
  <2>2. CASE Tried(who[h]) /\ GoTo(h, "bump")
    <3>1. /\ \A v \in Users : wrongs'[v] >= wrongs[v] /\ wrongs'[v] \in 0 .. MaxWrongs
          /\ wrongs'[who[h]] = MaxWrongs \/ wrongs'[who[h]] = wrongs[who[h]] + 1
          /\ wrongs'[who[h]] >= 1
      BY <2>1, <2>2, TriedGrows
    <3> QED BY <1>4, <2>1, <2>2, <3>1 DEF CheckPassword, GoTo
  <2>3. CASE UNCHANGED wrongs /\ (Reply(h) \/ GoTo(h, "admit"))
    BY <1>4, <2>3 DEF CheckPassword, Reply, GoTo
  <2> QED BY <1>4, <2>2, <2>3 DEF CheckPassword
<1>5. ASSUME NEW h \in Handlers, Bump(h) PROVE CountInv'
  <2> DEFINE n == Incremented(seen[h])
  <2>1. n \in Int16 /\ n <= seen[h] + 1 /\ who[h] \in Users
    BY <1>5, IncrementedTyped DEF Bump
  <2>2. n >= MaxFailedLogins => Earned(who[h])
    BY <1>5, <2>1 DEF Bump
  <2> HIDE DEF n
  <2>3. /\ \/ loginAttempts' = [loginAttempts EXCEPT ![who[h]] = n]
           \/ UNCHANGED loginAttempts
        /\ (n >= MaxFailedLogins /\ GoTo(h, "lock")) \/ Reply(h)
        /\ UNCHANGED <<isLocked, wrongs>>
        /\ Covered(n, who[h])
    BY <1>5, <2>1 DEF Bump, NoFault, Fault, n
  <2> QED BY <2>1, <2>2, <2>3 DEF Reply, GoTo
<1>6. ASSUME NEW h \in Handlers, Lock(h) PROVE CountInv'
  BY <1>6 DEF Lock, Fault, NoFault, GoTo
<1>7. ASSUME NEW h \in Handlers, Clear(h) PROVE CountInv'
  BY <1>7 DEF Clear, ResetLoginAttempts, Fault, NoFault, Reply
<1>8. ASSUME NEW h \in Handlers, Admit(h) PROVE CountInv'
  BY <1>8 DEF Admit, ResetLoginAttempts, Fault, NoFault, Reply
<1>9. CASE UNCHANGED vars
  BY <1>9 DEF vars
<1> QED BY <1>1, <1>2, <1>3, <1>4, <1>5, <1>6, <1>7, <1>8, <1>9 DEF Next, Handle

(* However handlers overlap and whichever statement fails, an account is   *)
(* only ever locked after MaxFailedLogins wrong passwords.                 *)
THEOREM LocksEarned == Spec => []LockEarned
<1>1. Init => TypeOK /\ CountInv
  BY InitTyped, CountInit
<1>2. TypeOK /\ CountInv /\ [Next]_vars => (TypeOK /\ CountInv)'
  BY StepTyped, CountStep
<1>3. CountInv => LockEarned
  BY DEF CountInv
<1> QED BY <1>1, <1>2, <1>3, PTL DEF Spec

--------------------------------------------------------------------------------
(* The limit and the lock *)

LEMMA LimitStep == ASSUME TypeOK, LimitMeansLock, [Next]_vars PROVE LimitMeansLock'
<1> USE UsersAssumption, LimitsAssumption DEF TypeOK, LimitMeansLock, Int16, table
<1>1. ASSUME NEW h \in Handlers, Post(h) PROVE LimitMeansLock'
  BY <1>1 DEF Post
<1>2. ASSUME NEW h \in Handlers, Exists(h) PROVE LimitMeansLock'
  BY <1>2 DEF Exists, Fault, NoFault, Reply, GoTo
<1>3. ASSUME NEW h \in Handlers, Load(h) PROVE LimitMeansLock'
  BY <1>3 DEF Load, Fault, NoFault, Reply
<1>4. ASSUME NEW h \in Handlers, CheckPassword(h) PROVE LimitMeansLock'
  BY <1>4 DEF CheckPassword, Fault, NoFault, Reply, GoTo
<1>5. ASSUME NEW h \in Handlers, Bump(h) PROVE LimitMeansLock'
  <2> DEFINE n == Incremented(seen[h])
  <2>1. n \in Int16 /\ who[h] \in Users
    BY <1>5, IncrementedTyped DEF Bump
  <2> HIDE DEF n
  <2>2. /\ (NoFault /\ loginAttempts' = [loginAttempts EXCEPT ![who[h]] = n]) \/ faults' # 0
        /\ (n >= MaxFailedLogins /\ GoTo(h, "lock")) \/ (n < MaxFailedLogins /\ Reply(h))
        /\ UNCHANGED isLocked
        /\ pc[h] = "bump"
    BY <1>5 DEF Bump, Fault, n
  <2> QED BY <2>1, <2>2 DEF NoFault, Reply, GoTo
<1>6. ASSUME NEW h \in Handlers, Lock(h) PROVE LimitMeansLock'
  BY <1>6 DEF Lock, Fault, NoFault, GoTo
<1>7. ASSUME NEW h \in Handlers, Clear(h) PROVE LimitMeansLock'
  BY <1>7 DEF Clear, ResetLoginAttempts, Fault, NoFault, Reply
<1>8. ASSUME NEW h \in Handlers, Admit(h) PROVE LimitMeansLock'
  BY <1>8 DEF Admit, ResetLoginAttempts, Fault, NoFault, Reply
<1>9. CASE UNCHANGED vars
  BY <1>9 DEF vars
<1> QED BY <1>1, <1>2, <1>3, <1>4, <1>5, <1>6, <1>7, <1>8, <1>9 DEF Next, Handle

(* As long as the database does not fail, a counter at the limit means a   *)
(* lock, or a handler about to lock.                                       *)
THEOREM LimitLocks == Spec => []LimitMeansLock
<1>1. Init => TypeOK /\ LimitMeansLock
  BY InitTyped DEF Init, LimitMeansLock
<1>2. TypeOK /\ LimitMeansLock /\ [Next]_vars => (TypeOK /\ LimitMeansLock)'
  BY StepTyped, LimitStep
<1> QED BY <1>1, <1>2, PTL DEF Spec

--------------------------------------------------------------------------------
(* Log-ons after the lock: each is one of the handlers that had passed the *)
(* check when the account was locked, and the one that locked it is none   *)
(* of them.                                                                *)

Passed(u) == {h \in Handlers : who[h] = u /\ pc[h] \in {"check", "admit"}}

LateInv ==
    \A u \in Users :
        IF isLocked[u]
        THEN lateIns[u] + Cardinality(Passed(u)) <= Cardinality(Handlers) - 1
        ELSE lateIns[u] = 0

LEMMA PassedCounts ==
  ASSUME NEW u \in Users
  PROVE  IsFiniteSet(Passed(u)) /\ Cardinality(Passed(u)) \in Nat
         /\ Cardinality(Handlers) \in Nat \ {0}
<1>1. Passed(u) \in SUBSET Handlers
  BY DEF Passed
<1>2. IsFiniteSet(Passed(u)) /\ Cardinality(Passed(u)) \in Nat
  BY <1>1, HandlersAssumption, FS_Subset, FS_CardinalityType
<1>3. Cardinality(Handlers) \in Nat \ {0}
  BY HandlersAssumption, FS_CardinalityType, FS_EmptySet
<1> QED BY <1>2, <1>3

(* If nobody passes the check, the handlers past it do not become more. *)
LEMMA PassedShrinks ==
  ASSUME NEW u \in Users, Passed(u)' \subseteq Passed(u)
  PROVE  Cardinality(Passed(u))' <= Cardinality(Passed(u))
         /\ Cardinality(Passed(u))' \in Nat
<1>1. IsFiniteSet(Passed(u))
  BY PassedCounts
<1>2. /\ IsFiniteSet(Passed(u)')
      /\ Cardinality(Passed(u)') <= Cardinality(Passed(u))
      /\ Cardinality(Passed(u)') \in Nat
  BY <1>1, FS_Subset, FS_CardinalityType
<1> QED BY <1>2

LEMMA LateInit == Init => LateInv
  BY DEF Init, LateInv

(* A step that locks nothing and lets nobody in. *)
LEMMA QuietStep ==
  ASSUME TypeOK, LateInv, UNCHANGED <<isLocked, lateIns>>,
         \A u \in Users : isLocked[u] => Passed(u)' \subseteq Passed(u)
  PROVE  LateInv'
<1> SUFFICES ASSUME NEW u \in Users, isLocked[u]
             PROVE  lateIns[u] + Cardinality(Passed(u))' <= Cardinality(Handlers) - 1
  BY DEF LateInv
<1>1. /\ Cardinality(Passed(u))' <= Cardinality(Passed(u))
      /\ Cardinality(Passed(u))' \in Nat
  BY PassedShrinks
<1>2. Cardinality(Passed(u)) \in Nat /\ Cardinality(Handlers) \in Nat
  BY PassedCounts
<1>3. lateIns[u] + Cardinality(Passed(u)) <= Cardinality(Handlers) - 1
  BY DEF LateInv
<1> QED BY <1>1, <1>2, <1>3 DEF TypeOK

LEMMA LateStep == ASSUME TypeOK, LateInv, [Next]_vars PROVE LateInv'
<1> USE UsersAssumption DEF table
<1>1. ASSUME NEW h \in Handlers, Post(h) PROVE LateInv'
  BY <1>1, QuietStep DEF Post, Passed, TypeOK
<1>2. ASSUME NEW h \in Handlers, Exists(h) PROVE LateInv'
  BY <1>2, QuietStep DEF Exists, Reply, GoTo, Passed, TypeOK
<1>3. ASSUME NEW h \in Handlers, Load(h) PROVE LateInv'
  BY <1>3, QuietStep DEF Load, Reply, Passed, TypeOK
<1>4. ASSUME NEW h \in Handlers, CheckPassword(h) PROVE LateInv'
  BY <1>4, QuietStep DEF CheckPassword, Reply, GoTo, Passed, TypeOK
<1>5. ASSUME NEW h \in Handlers, Bump(h) PROVE LateInv'
  BY <1>5, QuietStep DEF Bump, Reply, GoTo, Passed, TypeOK
<1>6. ASSUME NEW h \in Handlers, Lock(h) PROVE LateInv'
  <2> SUFFICES ASSUME NEW u \in Users, isLocked'[u]
               PROVE  lateIns[u] + Cardinality(Passed(u))' <= Cardinality(Handlers) - 1
    BY <1>6 DEF Lock, LateInv, TypeOK, NoFault, Fault
  <2>1. Passed(u)' = Passed(u)
    BY <1>6 DEF Lock, GoTo, Passed, TypeOK
  <2>2. CASE isLocked[u]
    BY <2>1, <2>2 DEF LateInv
  <2>3. CASE ~isLocked[u]
    <3>1. Passed(u) \subseteq Handlers \ {h}
      BY <1>6 DEF Lock, Passed
    <3>2. /\ IsFiniteSet(Handlers \ {h})
          /\ Cardinality(Handlers \ {h}) = Cardinality(Handlers) - 1
      BY HandlersAssumption, FS_RemoveElement
    <3>3. Cardinality(Passed(u)) <= Cardinality(Handlers) - 1
      BY <3>1, <3>2, FS_Subset
    <3>4. lateIns[u] = 0
      BY <2>3 DEF LateInv
    <3> QED BY <2>1, <3>3, <3>4, PassedCounts
  <2> QED BY <2>2, <2>3
<1>7. ASSUME NEW h \in Handlers, Clear(h) PROVE LateInv'
  BY <1>7, QuietStep DEF Clear, Reply, Passed, TypeOK
<1>8. ASSUME NEW h \in Handlers, Admit(h) PROVE LateInv'
  <2> SUFFICES ASSUME NEW u \in Users
               PROVE  IF isLocked[u]
                      THEN lateIns'[u] + Cardinality(Passed(u))' <= Cardinality(Handlers) - 1
                      ELSE lateIns'[u] = 0
    BY <1>8 DEF Admit, LateInv
  <2>1. /\ Passed(u)' \subseteq Passed(u)
        /\ lateIns'[u] = IF u = who[h] /\ isLocked[u] THEN lateIns[u] + 1 ELSE lateIns[u]
        /\ who[h] \in Users
    BY <1>8 DEF Admit, Reply, Passed, TypeOK
  <2>2. /\ Cardinality(Passed(u))' \in Nat
        /\ Cardinality(Passed(u))' <= Cardinality(Passed(u))
        /\ Cardinality(Passed(u)) \in Nat
        /\ Cardinality(Handlers) \in Nat
        /\ lateIns[u] \in Nat
    BY <2>1, PassedShrinks, PassedCounts DEF TypeOK
  <2>3. CASE ~isLocked[u]
    BY <2>1, <2>3 DEF LateInv
  <2>4. CASE isLocked[u] /\ u # who[h]
    BY <2>1, <2>2, <2>4 DEF LateInv
  <2>5. CASE isLocked[u] /\ u = who[h]
    <3>1. h \in Passed(u)
      BY <1>8, <2>5 DEF Admit, Passed
    <3>2. Passed(u)' \subseteq Passed(u) \ {h}
      BY <1>8, <2>1 DEF Admit, Reply, Passed, TypeOK
    <3>3. /\ IsFiniteSet(Passed(u) \ {h})
          /\ Cardinality(Passed(u) \ {h}) = Cardinality(Passed(u)) - 1
      BY <3>1, PassedCounts, FS_RemoveElement
    <3>4. Cardinality(Passed(u)') <= Cardinality(Passed(u)) - 1
      BY <3>2, <3>3, FS_Subset
    <3> QED BY <2>1, <2>2, <2>5, <3>4 DEF LateInv
  <2> QED BY <2>3, <2>4, <2>5
<1>9. CASE UNCHANGED vars
  BY <1>9, QuietStep DEF vars, Passed
<1> QED BY <1>1, <1>2, <1>3, <1>4, <1>5, <1>6, <1>7, <1>8, <1>9 DEF Next, Handle

(* After an account is locked, at most as many log-ons to it succeed as    *)
(* there are other handlers at work at that moment.                        *)
THEOREM LateLogonsBounded == Spec => []LateInsBounded
<1>1. Init => TypeOK /\ LateInv
  BY InitTyped, LateInit
<1>2. TypeOK /\ LateInv /\ [Next]_vars => (TypeOK /\ LateInv)'
  BY StepTyped, LateStep
<1>3. TypeOK /\ LateInv => LateInsBounded
  BY PassedCounts DEF TypeOK, LateInv, LateInsBounded
<1> QED BY <1>1, <1>2, <1>3, PTL DEF Spec
================================================================================
