------------------------ MODULE KernelServicesProofs ------------------------
(***************************************************************************)
(* The scheduler runs only tasks that exist, the mutex excludes and the    *)
(* semaphore counts right: for any number of tasks, any maximum, and       *)
(* tasks that yield, lock and unlock in any order.                         *)
(***************************************************************************)
EXTENDS KernelServices, FiniteSetTheorems, TLAPS

\* The index that the scheduler goes by stays below the number of tasks allocated, and a
\* task tries to take only what it has not.
TypeInv == /\ TypeOK
           /\ started => current < created
           /\ ~started => current = 0
           /\ \A t \in Task : wants[t] \notin holds[t]

LEMMA NextTaskIsAllocated ==
  ASSUME TypeInv, started
  PROVE  NextTask \in 0 .. created - 1
<1>1. /\ created \in Nat /\ current \in Nat /\ current < created
  BY ServicesAssumption DEF TypeInv, TypeOK
<1>2. NextTask = IF current + 1 = created THEN 0 ELSE current + 1 BY <1>1 DEF NextTask
<1>. QED BY <1>1, <1>2

\* What a yield, a call that returns with a lock and one that returns it leave behind.
LEMMA SwitchTyped ==
  ASSUME TypeInv, NEW t \in Task, Runs(t), Switch(t)
  PROVE  /\ current' \in 0 .. MaxTasks /\ current' < created
         /\ rested' \in [Task -> BOOLEAN]
<1>1. current' \in 0 .. created - 1 BY NextTaskIsAllocated DEF Runs, Switch
<1>2. created \in 0 .. MaxTasks + 1 /\ MaxTasks \in Nat
  BY ServicesAssumption DEF TypeInv, TypeOK
<1>3. rested' \in [Task -> BOOLEAN] BY DEF Switch, TypeInv, TypeOK
<1>. QED BY <1>1, <1>2, <1>3

LEMMA GivenTyped ==
  ASSUME TypeInv, NEW t \in Task, NEW k \in Lock, Given(t, k)
  PROVE  /\ wants' \in [Task -> Lock \cup {"none"}] /\ holds' \in [Task -> SUBSET Lock]
         /\ rested' \in [Task -> BOOLEAN] /\ current' = current
         /\ \A u \in Task : wants'[u] \notin holds'[u]
BY DEF Given, TypeInv, TypeOK, Lock

LEMMA ReturnedTyped ==
  ASSUME TypeInv, NEW t \in Task, NEW k \in Lock, Returned(t, k)
  PROVE  /\ wants' = wants /\ holds' \in [Task -> SUBSET Lock]
         /\ rested' \in [Task -> BOOLEAN] /\ current' = current
         /\ \A u \in Task : wants'[u] \notin holds'[u]
BY DEF Returned, TypeInv, TypeOK, Lock

LEMMA InitTyped == Init => TypeInv
<1> SUFFICES ASSUME Init PROVE TypeInv
  OBVIOUS
<1>1. MaxTasks \in Nat \ {0} /\ DefSemMax \in Nat /\ SemArg \subseteq Int
  BY ServicesAssumption
<1>2. mutex \in [owner : Task, lock : BOOLEAN] BY <1>1 DEF Init, Task
<1>3. semMax \in Int /\ semMax <= DefSemMax /\ sem \in Int
  BY <1>1 DEF Init, SemMaxOf
<1>4. /\ wants \in [Task -> Lock \cup {"none"}] /\ holds \in [Task -> SUBSET Lock]
      /\ rested \in [Task -> BOOLEAN] /\ \A t \in Task : wants[t] \notin holds[t]
  BY DEF Init
<1>5. created \in 0 .. MaxTasks + 1 /\ current \in 0 .. MaxTasks BY <1>1 DEF Init
<1>6. started = FALSE /\ current = 0 BY DEF Init
<1>7. TypeOK BY <1>2, <1>3, <1>4, <1>5, <1>6 DEF TypeOK
<1>. QED BY <1>4, <1>6, <1>7 DEF TypeInv

LEMMA StepTyped == ASSUME TypeInv, NEW t \in Task, Step(t) PROVE TypeInv'
<1>. USE DEF TypeInv, TypeOK, locks, clients
<1>1. started /\ current < created BY DEF Step, Yield, Want, TryMutex, UnlockMutex,
                                              TrySem, UnlockSem, Runs
<1>2. CASE Yield(t) BY <1>1, <1>2, SwitchTyped DEF Yield
<1>3. ASSUME NEW k \in Lock, Want(t, k) PROVE TypeInv'
  BY <1>1, <1>3 DEF Want
<1>4. "mutex" \in Lock /\ "sem" \in Lock BY DEF Lock
<1>5. CASE TryMutex(t)
  <2>1. CASE mutex.lock
    <3>1. Runs(t) /\ Switch(t) BY <1>5, <2>1 DEF TryMutex
    <3>2. UNCHANGED <<created, started, locks, wants, holds>> BY <1>5, <2>1 DEF TryMutex
    <3>. QED BY <1>1, <3>1, <3>2, SwitchTyped
  <2>2. CASE ~mutex.lock
    <3>1. mutex' \in [owner : Task, lock : BOOLEAN]
      <4>1. mutex' = [owner |-> t, lock |-> TRUE] BY <1>5, <2>2 DEF TryMutex, Owned
      <4>2. [owner |-> t, lock |-> TRUE] \in [owner : Task, lock : BOOLEAN] OBVIOUS
      <4>. QED BY <4>1, <4>2
    <3>. QED BY <1>1, <1>4, <1>5, <2>2, <3>1, GivenTyped DEF TryMutex
  <2>. QED BY <2>1, <2>2
<1>6. CASE UnlockMutex(t)
  <2>1. CASE mutex.owner = t
    <3>1. mutex' \in [owner : Task, lock : BOOLEAN] BY <1>6, <2>1 DEF UnlockMutex, Unlocked
    <3>. QED BY <1>1, <1>4, <1>6, <2>1, <3>1, ReturnedTyped DEF UnlockMutex
  <2>2. CASE mutex.owner # t
    <3>1. Runs(t) /\ Switch(t) BY <1>6, <2>2 DEF UnlockMutex
    <3>2. UNCHANGED <<created, started, locks, wants, holds>> BY <1>6, <2>2 DEF UnlockMutex
    <3>. QED BY <1>1, <3>1, <3>2, SwitchTyped
  <2>. QED BY <2>1, <2>2
<1>7. CASE TrySem(t)
  <2>1. CASE ~Left
    <3>1. Runs(t) /\ Switch(t) BY <1>7, <2>1 DEF TrySem
    <3>2. UNCHANGED <<created, started, locks, wants, holds>> BY <1>7, <2>1 DEF TrySem
    <3>. QED BY <1>1, <3>1, <3>2, SwitchTyped
  <2>2. CASE Left
    <3>1. sem' \in Int BY <1>7, <2>2 DEF TrySem
    <3>. QED BY <1>1, <1>4, <1>7, <2>2, <3>1, GivenTyped DEF TrySem
  <2>. QED BY <2>1, <2>2
<1>8. CASE UnlockSem(t)
  <2>1. sem' \in Int BY <1>8 DEF UnlockSem, Released
  <2>. QED BY <1>1, <1>4, <1>8, <2>1, ReturnedTyped DEF UnlockSem
<1>. QED BY <1>2, <1>3, <1>5, <1>6, <1>7, <1>8 DEF Step

LEMMA TypeStep == TypeInv /\ [Next]_vars => TypeInv'
<1> SUFFICES ASSUME TypeInv, [Next]_vars PROVE TypeInv'
  OBVIOUS
<1>1. CASE Create
  <2>1. /\ created' \in 0 .. MaxTasks + 1 /\ created' > created
    BY <1>1, ServicesAssumption DEF Create, Full, TypeInv, TypeOK
  <2>2. current \in Int /\ created \in Int BY ServicesAssumption DEF TypeInv, TypeOK
  <2>. QED BY <1>1, <2>1, <2>2 DEF Create, locks, clients, TypeInv, TypeOK
<1>2. CASE Start BY <1>2 DEF Start, locks, clients, TypeInv, TypeOK
<1>3. CASE UNCHANGED vars BY <1>3 DEF vars, locks, clients, TypeInv, TypeOK
<1>. QED BY <1>1, <1>2, <1>3, StepTyped DEF Next

\* The counters and lists keep to their types: the semaphore's maximum is cut down to the
\* default, and the scheduler is at most one past the end of its list.
THEOREM TypeCorrect == Spec => []TypeOK
<1>1. TypeInv => TypeOK BY DEF TypeInv
<1>. QED BY <1>1, InitTyped, TypeStep, PTL DEF Spec

\* However many tasks are created, and when, the scheduler goes round those that exist
\* until a creation fails.
THEOREM CreatedTasksRun == Spec => []OnlyCreatedRun
<1>1. TypeInv => OnlyCreatedRun BY DEF TypeInv, OnlyCreatedRun
<1>. QED BY <1>1, InitTyped, TypeStep, PTL DEF Spec

-----------------------------------------------------------------------------

\* The owner of the locked mutex is its holder, and there is no other.
OwnerInv == \A t \in Task : "mutex" \in holds[t] <=> mutex.lock /\ mutex.owner = t

LEMMA OwnerStep == TypeInv /\ OwnerInv /\ [Next]_vars => OwnerInv'
<1> SUFFICES ASSUME TypeInv, OwnerInv, [Next]_vars PROVE OwnerInv'
  OBVIOUS
<1>. USE DEF TypeInv, TypeOK
<1>1. CASE Create \/ Start \/ UNCHANGED vars
  BY <1>1 DEF Create, Start, vars, locks, clients, OwnerInv
<1>2. ASSUME NEW t \in Task, Step(t) PROVE OwnerInv'
  <2>1. CASE Yield(t) \/ \E k \in Lock : Want(t, k)
    BY <2>1 DEF Yield, Want, locks, OwnerInv
  <2>2. CASE TryMutex(t)
    <3>1. CASE mutex.lock BY <2>2, <3>1 DEF TryMutex, OwnerInv
    <3>2. CASE ~mutex.lock
      <4>1. mutex'.lock /\ mutex'.owner = t BY <2>2, <3>2 DEF TryMutex, Owned
      <4>2. \A u \in Task : "mutex" \in holds'[u] <=> u = t
        BY <2>2, <3>2 DEF TryMutex, Given, OwnerInv
      <4>. QED BY <4>1, <4>2 DEF OwnerInv
    <3>. QED BY <3>1, <3>2
  <2>3. CASE UnlockMutex(t)
    <3>1. CASE mutex.owner = t
      <4>1. ~mutex'.lock BY <2>3, <3>1 DEF UnlockMutex, Unlocked
      <4>2. \A u \in Task : "mutex" \notin holds'[u]
        BY <2>3, <3>1 DEF UnlockMutex, Returned, OwnerInv
      <4>. QED BY <4>1, <4>2 DEF OwnerInv
    <3>2. CASE mutex.owner # t BY <2>3, <3>2 DEF UnlockMutex, OwnerInv
    <3>. QED BY <3>1, <3>2
  <2>4. CASE TrySem(t) \/ UnlockSem(t)
    <3>1. mutex' = mutex BY <2>4 DEF TrySem, UnlockSem
    <3>2. \A u \in Task : "mutex" \in holds'[u] <=> "mutex" \in holds[u]
      BY <2>4 DEF TrySem, UnlockSem, Given, Returned
    <3>. QED BY <3>1, <3>2 DEF OwnerInv
  <2>. QED BY <1>2, <2>1, <2>2, <2>3, <2>4 DEF Step
<1>. QED BY <1>1, <1>2 DEF Next

\* For any number of tasks that lock and unlock in any order, also without having locked:
\* no two have the mutex at once, and it is not left locked by none.
THEOREM MutexExcludes == Spec => []MutualExclusion
<1>1. Init => OwnerInv BY DEF Init, OwnerInv
<1>2. TypeInv /\ OwnerInv => MutualExclusion
  BY DEF TypeInv, TypeOK, OwnerInv, MutualExclusion, Holders
<1>. QED BY <1>1, <1>2, InitTyped, TypeStep, OwnerStep, PTL DEF Spec

-----------------------------------------------------------------------------

LEMMA HoldersFinite == IsFiniteSet(Holders("sem")) /\ Cardinality(Holders("sem")) \in Nat
<1>1. IsFiniteSet(Task) BY ServicesAssumption, FS_Interval DEF Task
<1>2. Holders("sem") \in SUBSET Task BY DEF Holders
<1>. QED BY <1>1, <1>2, FS_Subset, FS_CardinalityType

LEMMA UnitsStep == TypeInv /\ UnitsAddUp /\ [Next]_vars => UnitsAddUp'
<1> SUFFICES ASSUME TypeInv, UnitsAddUp, [Next]_vars PROVE UnitsAddUp'
  OBVIOUS
<1>. USE DEF TypeInv, TypeOK
<1> DEFINE H == Holders("sem")
<1>1. IsFiniteSet(H) /\ Cardinality(H) \in Nat /\ sem \in Int /\ semMax \in Int
  BY HoldersFinite
<1>2. sem + Cardinality(H) = semMax /\ (H # {} => sem >= 0) BY DEF UnitsAddUp
<1>3. ASSUME H' = H, sem' = sem, semMax' = semMax PROVE UnitsAddUp'
  BY <1>2, <1>3 DEF UnitsAddUp
<1>4. CASE Create \/ Start \/ UNCHANGED vars
  <2>1. UNCHANGED <<holds, sem, semMax>> BY <1>4 DEF Create, Start, vars, locks, clients
  <2>. QED BY <1>3, <2>1 DEF Holders
<1>5. ASSUME NEW t \in Task, Step(t) PROVE UnitsAddUp'
  <2>1. CASE Yield(t) \/ \E k \in Lock : Want(t, k)
    <3>1. UNCHANGED <<holds, sem, semMax>> BY <2>1 DEF Yield, Want, locks
    <3>. QED BY <1>3, <3>1 DEF Holders
  <2>2. CASE TryMutex(t) \/ UnlockMutex(t)
    <3>1. UNCHANGED <<sem, semMax>> BY <2>2 DEF TryMutex, UnlockMutex
    <3>2. \A u \in Task : "sem" \in holds'[u] <=> "sem" \in holds[u]
      BY <2>2 DEF TryMutex, UnlockMutex, Given, Returned
    <3>. QED BY <1>3, <3>1, <3>2 DEF Holders
  <2>3. CASE TrySem(t)
    <3>1. CASE ~Left
      <4>1. UNCHANGED <<holds, sem, semMax>> BY <2>3, <3>1 DEF TrySem
      <4>. QED BY <1>3, <4>1 DEF Holders
    <3>2. CASE Left
      <4>1. sem' = sem - 1 /\ semMax' = semMax /\ Given(t, "sem") BY <2>3, <3>2 DEF TrySem
      <4>2. t \notin H BY <2>3 DEF TrySem, Holders
      <4>3. H' = H \cup {t} BY <4>1 DEF Given, Holders
      <4>4. Cardinality(H') = Cardinality(H) + 1 BY <1>1, <4>2, <4>3, FS_AddElement
      <4>5. sem' + Cardinality(H') = semMax' /\ sem' >= 0
        BY <1>1, <1>2, <3>2, <4>1, <4>4 DEF Left
      <4>. QED BY <4>5 DEF UnitsAddUp
    <3>. QED BY <3>1, <3>2
  <2>4. CASE UnlockSem(t)
    <3>1. /\ sem' = IF sem + 1 >= semMax THEN semMax ELSE sem + 1
          /\ semMax' = semMax /\ Returned(t, "sem")
      BY <2>4 DEF UnlockSem, Released
    <3>2. t \in H BY <2>4 DEF UnlockSem, Holders
    <3>3. H' = H \ {t} BY <3>1 DEF Returned, Holders
    <3>4. Cardinality(H') = Cardinality(H) - 1 /\ Cardinality(H) # 0
      BY <1>1, <3>2, <3>3, FS_RemoveElement, FS_EmptySet
    <3>5. sem' + Cardinality(H') = semMax' /\ sem' >= 0
      BY <1>1, <1>2, <3>1, <3>2, <3>4
    <3>. QED BY <3>5 DEF UnitsAddUp
  <2>. QED BY <1>5, <2>1, <2>2, <2>3, <2>4 DEF Step
<1>. QED BY <1>4, <1>5 DEF Next

\* For any number of tasks and any argument of Kernel_sem_init: the tasks that have the
\* semaphore and the units left add up to its maximum, so it is never given too often.
THEOREM SemaphoreCounts == Spec => []UnitsAddUp
<1>1. Init => UnitsAddUp
  <2> SUFFICES ASSUME Init PROVE UnitsAddUp
    OBVIOUS
  <2>1. Holders("sem") = {} BY DEF Init, Holders
  <2>2. semMax \in Int /\ sem = semMax BY InitTyped DEF Init, TypeInv, TypeOK
  <2>. QED BY <2>1, <2>2, FS_EmptySet DEF UnitsAddUp
<1>. QED BY <1>1, InitTyped, TypeStep, UnitsStep, PTL DEF Spec
=============================================================================
