--------------------------- MODULE KernelServices ---------------------------
(***************************************************************************)
(* The tasks of the kernel and what they wait for each other with: the     *)
(* round robin of kernel/task.c, the mutex and the semaphore of            *)
(* kernel/synch.c and the loops around them in kernel/kernel.c.  Tasks     *)
(* are cooperative: another one runs only when the running one yields, and *)
(* no interrupt calls any of this.  The firmware creates one task and      *)
(* takes no lock; the module is about the services as they are offered.    *)
(***************************************************************************)
EXTENDS Integers, FiniteSets

CONSTANTS MaxTasks,   \* MAX_TASK_NUM
          DefSemMax,  \* DEF_SEM_MAX
          SemArg      \* the arguments that Kernel_sem_init may be given

ASSUME ServicesAssumption ==
  MaxTasks \in Nat \ {0} /\ DefSemMax \in Nat \ {0} /\ SemArg \subseteq Int

Task == 0 .. MaxTasks - 1
Lock == {"mutex", "sem"}

VARIABLES created,   \* sAllocated_tcb_index
          current,   \* sCurrent_tcb_index
          started,   \* Kernel_start has been called
          mutex,     \* sMutex
          sem,       \* sSem
          semMax,    \* sSemMax
          wants,     \* per task: the lock it tries to take
          holds,     \* per task: the locks it was given and has not returned
          rested     \* per task: whether it has yielded since it returned one

locks == <<mutex, sem, semMax>>
clients == <<wants, holds, rested>>
vars == <<created, current, started, locks, clients>>

\* Mutant: the maximum is taken as given.
SemMaxWide(max) == max

\* The default for a maximum that is not positive is overwritten by the next line.
SemMaxOf(max) == IF max >= DefSemMax THEN DefSemMax ELSE max

Init == /\ created = 0 /\ current = 0 /\ started = FALSE
        /\ mutex = [owner |-> 0, lock |-> FALSE]
        /\ semMax \in {SemMaxOf(max) : max \in SemArg} /\ sem = semMax
        /\ wants = [t \in Task |-> "none"]
        /\ holds = [t \in Task |-> {}]
        /\ rested = [t \in Task |-> TRUE]

-----------------------------------------------------------------------------
(* Tasks.                                                                  *)

\* Kernel_task_create, by main or by a running task.  The number of tasks grows even
\* when there is no room and the call fails; it is enough to let it fail once.
Full == created > MaxTasks

Create == /\ ~Full
          /\ created' = created + 1
          /\ UNCHANGED <<current, started, locks, clients>>

Start == /\ ~started /\ created > 0
         /\ started' = TRUE
         /\ UNCHANGED <<created, current, locks, clients>>

\* Mutant: the whole list is gone through, whatever was created.
NextTaskOfList == (current + 1) % MaxTasks

\* Scheduler_round_robin_algorithm.
NextTask == (current + 1) % created

Runs(t) == started /\ current = t

\* Kernel_yield.
Switch(t) == current' = NextTask /\ rested' = [rested EXCEPT ![t] = TRUE]

Yield(t) == /\ Runs(t) /\ wants[t] = "none"
            /\ Switch(t)
            /\ UNCHANGED <<created, started, locks, wants, holds>>

-----------------------------------------------------------------------------
(* Locks.                                                                  *)

\* A task begins to take a lock.  It yields after it has returned one, so that others
\* get it too, does not take one twice, and no semaphore while it has the mutex.
Want(t, k) == /\ Runs(t) /\ wants[t] = "none"
              /\ rested[t] /\ k \notin holds[t]
              /\ k = "sem" => "mutex" \notin holds[t]
              /\ wants' = [wants EXCEPT ![t] = k]
              /\ UNCHANGED <<created, current, started, locks, holds, rested>>

\* The call that takes a lock returns.
Given(t, k) == /\ wants' = [wants EXCEPT ![t] = "none"]
               /\ holds' = [holds EXCEPT ![t] = @ \cup {k}]
               /\ UNCHANGED <<current, rested>>

Returned(t, k) == /\ holds' = [holds EXCEPT ![t] = @ \ {k}]
                  /\ rested' = [rested EXCEPT ![t] = FALSE]
                  /\ UNCHANGED <<current, wants>>

\* Kernel_mutex_lock and Kernel_mutex_unlock where they succeed: while it is free, and
\* to the task that took it last.
Owned(t) == [owner |-> t, lock |-> TRUE]
Unlocked == [mutex EXCEPT !.lock = FALSE]

\* Kernel_sem_test succeeds.
Left == sem > 0

\* Mutant: the limit is taken for reached one too early.
ReleasedCapped == IF sem + 2 >= semMax THEN semMax ELSE sem + 1

\* Kernel_sem_release.
Released == IF sem + 1 >= semMax THEN semMax ELSE sem + 1

\* Mutant: who tries in vain keeps the processor.
TryMutexSpins(t) == /\ Runs(t) /\ wants[t] = "mutex" /\ ~mutex.lock
                    /\ mutex' = Owned(t) /\ Given(t, "mutex")
                    /\ UNCHANGED <<created, started, sem, semMax>>

\* One round of the loop of Kernel_lock_mutex.
TryMutex(t) == /\ Runs(t) /\ wants[t] = "mutex"
               /\ IF mutex.lock
                  THEN Switch(t) /\ UNCHANGED <<mutex, wants, holds>>
                  ELSE mutex' = Owned(t) /\ Given(t, "mutex")
               /\ UNCHANGED <<created, started, sem, semMax>>

\* Mutant: any task may unlock it.
UnlockMutexAnyone(t) ==
  /\ Runs(t) /\ wants[t] = "none"
  /\ mutex' = Unlocked /\ Returned(t, "mutex")
  /\ UNCHANGED <<created, started, sem, semMax>>

\* Kernel_unlock_mutex, by a task that may or may not have it.
UnlockMutex(t) ==
  /\ Runs(t) /\ wants[t] = "none"
  /\ IF mutex.owner = t
     THEN mutex' = Unlocked /\ Returned(t, "mutex")
     ELSE Switch(t) /\ UNCHANGED <<mutex, wants, holds>>
  /\ UNCHANGED <<created, started, sem, semMax>>

\* One round of the loop of Kernel_lock_sem.
TrySem(t) == /\ Runs(t) /\ wants[t] = "sem"
             /\ IF Left
                THEN sem' = sem - 1 /\ Given(t, "sem")
                ELSE Switch(t) /\ UNCHANGED <<sem, wants, holds>>
             /\ UNCHANGED <<created, started, mutex, semMax>>

\* Kernel_unlock_sem, by a task that has taken it.
UnlockSem(t) == /\ Runs(t) /\ wants[t] = "none" /\ "sem" \in holds[t]
                /\ sem' = Released
                /\ Returned(t, "sem")
                /\ UNCHANGED <<created, started, mutex, semMax>>

-----------------------------------------------------------------------------

Step(t) == \/ Yield(t) \/ (\E k \in Lock : Want(t, k))
           \/ TryMutex(t) \/ UnlockMutex(t) \/ TrySem(t) \/ UnlockSem(t)

Next == Create \/ Start \/ \E t \in Task : Step(t)

Spec == Init /\ [][Next]_vars

\* The running task goes on, and one that has a lock returns it some time.
Fairness == /\ WF_vars(Start) /\ WF_vars(\E t \in Task : Step(t))
            /\ \A t \in Task : /\ SF_vars(UnlockMutex(t) /\ "mutex" \in holds[t])
                               /\ SF_vars(UnlockSem(t))

FairSpec == Spec /\ Fairness

-----------------------------------------------------------------------------

TypeOK == /\ created \in 0 .. MaxTasks + 1 /\ current \in 0 .. MaxTasks
          /\ started \in BOOLEAN
          /\ mutex \in [owner : Task, lock : BOOLEAN]
          /\ sem \in Int /\ semMax \in Int /\ semMax <= DefSemMax
          /\ wants \in [Task -> Lock \cup {"none"}]
          /\ holds \in [Task -> SUBSET Lock]
          /\ rested \in [Task -> BOOLEAN]

Holders(k) == {t \in Task : k \in holds[t]}

\* The task that runs is one that was created, as long as no creation has failed: after
\* that the scheduler runs off the end of the list (task.c:56-61, 84-85).
OnlyCreatedRun == started /\ ~Full => current < created

\* The mutex has one holder while it is locked and none while it is not, also when tasks
\* unlock it that do not have it, or once more after they had it (synch.c:68-76).
MutualExclusion ==
  /\ \A t, u \in Holders("mutex") : t = u
  /\ mutex.lock <=> Holders("mutex") # {}

\* No unit of the semaphore is lost, made up or given twice: those in use and those left
\* are what it was set up with, and it is never given beyond that, whatever tasks wait in
\* vain in between (synch.c:28-48).
UnitsAddUp == /\ sem + Cardinality(Holders("sem")) = semMax
              /\ Holders("sem") # {} => sem >= 0

\* Round robin is fair enough: a task that waits for a lock gets it, with clients that
\* return what they take and yield before they take it again.  A semaphore that was set
\* up with no unit is never given (kernel.c:111-138, task.c:82-88).
WaitersServed ==
  \A t \in Task, k \in Lock :
    wants[t] = k /\ (k = "sem" => semMax > 0) ~> k \in holds[t] \/ Full
=============================================================================
