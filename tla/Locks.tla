------------------------------- MODULE Locks --------------------------------
(***************************************************************************)
(* Semaphores and mutexes, src/kernel/ipc/semaphore.c and mutex.c, on top  *)
(* of Scheduler.  Both kinds share one structure and one pair of calls: a  *)
(* mutex is a semaphore of one resource that also records its owner, lends *)
(* it the priority of the tasks it keeps waiting, and counts the mutexes   *)
(* each task holds.                                                        *)
(*                                                                         *)
(* ipc_semaphoreWait is a loop.  A task that finds no resource blocks and  *)
(* calls tasks_sleep(0); ipc_semaphoreSignal wakes the first blocked task, *)
(* which does not own the resource but tries again, against any task that  *)
(* gets there first.                                                       *)
(***************************************************************************)
EXTENDS Scheduler, FiniteSets

CONSTANTS
    Mutex,           \* the locks that are mutexes
    Resources,       \* ipc_semaphoreInit's resourceAmount, for the others
    MaxCount,        \* bound on a semaphore's lockCount: the code wraps at 256
    MaxHeld,         \* a task that holds this many mutexes waits for nothing
    StrayUnlocks,    \* do tasks unlock mutexes they do not hold?
    NoTask           \* a NULL task pointer

ASSUME LocksAssumption ==
    /\ Mutex \subseteq Lock
    /\ Resources \in 0..MaxCount
    /\ MaxCount \in Nat \ {0}
    /\ MaxHeld \in Nat
    /\ StrayUnlocks \in BOOLEAN
    /\ NoTask \notin Task
    /\ IsFiniteSet(Lock)

VARIABLES
    lock,         \* lockCount, basePriority and lockOwner of each lock
    mutexCount,   \* mutexCount of each task
    held,         \* history: the mutexes each task has locked and not unlocked
    own           \* history: the priority each task was created with

lockVars == <<lock, mutexCount, held, own>>

allVars == <<vars, lockVars>>

SemaphoreInit(resources) == [count |-> resources, base |-> 0, owner |-> NoTask]

\* main initialises every lock before it starts the scheduler.
LocksInit ==
    /\ Init
    /\ lock = [l \in Lock |-> SemaphoreInit(IF l \in Mutex THEN 1 ELSE Resources)]
    /\ mutexCount = [t \in Task |-> 0]
    /\ held = [t \in Task |-> {}]
    /\ own = k.prio

Waiters(l) == k.list[Blocked(l)]

-----------------------------------------------------------------------------
\* A pass of the loop of ipc_semaphoreWait: the first, from the task's own code,
\* or a later one for the lock it waits for.
Tries(t, l) ==
    \/ At(t, "run") /\ t # Idle /\ l \notin held[t]
                    /\ Cardinality(held[t]) < MaxHeld
    \/ At(t, "retry") /\ todo[t] = l

\* A mutant: a task that was woken does not test again.
AvailableOnRetry(t, l) == lock[l].count > 0 \/ pc[t] = "retry"

Available(t, l) == lock[l].count > 0

Acquire(t, l) ==
    /\ Tries(t, l)
    /\ Available(t, l)
    /\ IF l \in Mutex
       THEN /\ lock' = [lock EXCEPT ![l] = [count |-> @.count - 1,
                                            base |-> k.prio[t], owner |-> t]]
            /\ mutexCount' = [mutexCount EXCEPT ![t] = @ + 1]
            /\ held' = [held EXCEPT ![t] = @ \cup {l}]
       ELSE /\ lock' = [lock EXCEPT ![l].count = @ - 1]
            /\ UNCHANGED <<mutexCount, held>>
    /\ UNCHANGED own
    /\ Goto(t, "run")
    /\ todo' = [todo EXCEPT ![t] = "none"]
    /\ UNCHANGED <<k, started>>

\* An owner that is gone: the code frees the mutex for the first waiter.
Orphaned(l) ==
    lock[l].owner = NoTask \/ k.state[lock[l].owner] = "UNINIT"

\* What a task that finds l taken does before it blocks.
Lend(t, l) ==
    LET o == lock[l].owner IN
    CASE l \notin Mutex -> k
      [] l \in Mutex /\ Orphaned(l) ->
            IF Waiters(l) = <<>> THEN k ELSE UnblockTask(k, Head(Waiters(l)))
      [] l \in Mutex /\ ~Orphaned(l) ->
            IF k.prio[o] < k.prio[t] THEN SetTaskPriority(k, o, k.prio[t])
                                     ELSE k

Block(t, l) ==
    /\ Tries(t, l)
    /\ ~Available(t, l)
    /\ k' = BlockTask(Lend(t, l), t, l)
    /\ lock' = IF l \in Mutex /\ Orphaned(l) THEN [lock EXCEPT ![l].count = 1]
                                             ELSE lock
    /\ Goto(t, "sleep")
    /\ todo' = [todo EXCEPT ![t] = l]
    /\ UNCHANGED <<started, mutexCount, held, own>>

-----------------------------------------------------------------------------
\* Mutants: nothing is given back; the lock stays taken; the count of a task that
\* holds nothing wraps; the wakeup is inside the branch that gives back a
\* priority.
ReturnedNothing(t, l) == k

ReleasedStaysTaken(t, l) ==
    IF k.prio[t] # lock[l].base THEN [count |-> 0, base |-> 0, owner |-> NoTask]
                                ELSE [lock[l] EXCEPT !.count = 1]

OneLessUntested(n) == n - 1

WakeFirstIfLent(kernel, l) ==
    IF Waiters(l) = <<>> \/ kernel = k THEN kernel
                                       ELSE UnblockTask(kernel, Head(Waiters(l)))

\* The mutex part of ipc_semaphoreSignal, for the owner: give back the priority
\* that was lent.  Only then is the owner forgotten.
Returned(t, l) ==
    IF k.prio[t] # lock[l].base THEN SetTaskPriority(k, t, lock[l].base) ELSE k

Released(t, l) ==
    IF k.prio[t] # lock[l].base THEN [count |-> 1, base |-> 0, owner |-> NoTask]
                                ELSE [lock[l] EXCEPT !.count = 1]

\* The first blocked task, if there is one, is woken in every case.
WakeFirst(kernel, l) ==
    IF Waiters(l) = <<>> THEN kernel ELSE UnblockTask(kernel, Head(Waiters(l)))

\* tasks_setHeldMutexCount(task, mutexCount - 1), unless it is 0 already.
OneLess(n) == IF n > 0 THEN n - 1 ELSE n

UnlockOwned(t, l) ==
    /\ At(t, "run")
    /\ l \in Mutex
    /\ lock[l].owner = t
    /\ StrayUnlocks \/ l \in held[t]
    /\ k' = WakeFirst(Returned(t, l), l)
    /\ lock' = [lock EXCEPT ![l] = Released(t, l)]
    /\ mutexCount' = [mutexCount EXCEPT ![t] = OneLess(@)]
    /\ held' = [held EXCEPT ![t] = @ \ {l}]
    /\ UNCHANGED <<started, pc, todo, own>>

\* A mutant: whoever unlocks frees the mutex.
UnlockForeignFrees(t, l) ==
    /\ StrayUnlocks
    /\ At(t, "run")
    /\ l \in Mutex
    /\ lock[l].owner # t
    /\ k' = WakeFirst(k, l)
    /\ lock' = [lock EXCEPT ![l].count = 1]
    /\ UNCHANGED <<started, pc, todo, mutexCount, held, own>>

\* Unlocking a mutex someone else owns leaves the mutex alone, but still wakes.
UnlockForeign(t, l) ==
    /\ StrayUnlocks
    /\ At(t, "run")
    /\ l \in Mutex
    /\ lock[l].owner # t
    /\ k' = WakeFirst(k, l)
    /\ UNCHANGED <<started, pc, todo, lockVars>>

SignalSemaphore(t, l) ==
    /\ At(t, "run")
    /\ l \notin Mutex
    /\ lock[l].count < MaxCount
    /\ k' = WakeFirst(k, l)
    /\ lock' = [lock EXCEPT ![l].count = @ + 1]
    /\ UNCHANGED <<started, pc, todo, mutexCount, held, own>>

-----------------------------------------------------------------------------
Signal(t, l) ==
    UnlockOwned(t, l) \/ UnlockForeign(t, l) \/ SignalSemaphore(t, l)

Wait(t, l) == Acquire(t, l) \/ Block(t, l)

KernelCode(t) ==
    \/ At(t, "retry") /\ \E l \in Lock : Wait(t, l)
    \/ (LoopSleep(t) \/ Yield(t)) /\ UNCHANGED lockVars

LocksNext ==
    \/ Boot /\ own' = k'.prio /\ UNCHANGED <<lock, mutexCount, held>>
    \/ (Tick \/ \E t \in Task : Calls(t)) /\ UNCHANGED lockVars
    \/ \E t \in Task : KernelCode(t)
    \/ \E t \in Task, l \in Lock : (At(t, "run") /\ Wait(t, l)) \/ Signal(t, l)

\* A task that is dispatched again and again gets its kernel code executed; idle
\* waits for nothing and never sleeps.
LocksFairness ==
    /\ WF_allVars(StartScheduler /\ UNCHANGED lockVars)
    /\ WF_allVars(Tick /\ UNCHANGED lockVars)
    /\ \A t \in Task \ {Idle} : SF_allVars(KernelCode(t))

LocksSpec == LocksInit /\ [][LocksNext]_allVars /\ LocksFairness

-----------------------------------------------------------------------------
LocksTypeOK ==
    /\ TypeOK
    /\ lock \in [Lock -> [count : 0..MaxCount, base : 0..NumPriorities,
                          owner : Task \cup {NoTask}]]
    /\ mutexCount \in [Task -> 0..Cardinality(Lock)]
    /\ held \in [Task -> SUBSET Mutex]
    /\ own \in [Task -> 0..NumPriorities]

\* No two tasks hold a mutex, however waiters are woken, spuriously or by strays,
\* and race for it with tasks that never waited.
MutualExclusion ==
    \A l \in Mutex : \A t, u \in Task : l \in held[t] /\ l \in held[u] => t = u

\* lockCount, lockOwner and mutexCount tell the truth: a mutex is taken exactly
\* while a task holds it, the owner is that task, and a task's mutexCount, which
\* alone keeps tasks_deleteTask from deleting it, is the number it holds.
BooksBalance ==
    /\ \A l \in Mutex :
          /\ lock[l].count = 1 <=> \A t \in Task : l \notin held[t]
          /\ lock[l].count = 0 => l \in held[lock[l].owner]
    /\ \A t \in Task : mutexCount[t] = Cardinality(held[t])

\* Tasks that were woken for l, or never slept, and will try again.
Retrying(l) == {t \in Task : todo[t] = l /\ k.state[t] = "READY"}

\* No lost wakeup: resources that are free while tasks are blocked for them are
\* matched by as many woken tasks on their way back to try, even if others barge
\* in, so no task stays blocked next to a free resource.
NoLostWakeup ==
    \A l \in Lock :
       Waiters(l) # <<>> => lock[l].count <= Cardinality(Retrying(l))

\* A task that is blocked is on the list of the lock it waits for, so that a
\* signal finds it: tasks.h:221, "Sets task state to KSTATE_BLOCKED and appends
\* it to blockList".
BlockedIsListed ==
    \A t \in Task : k.state[t] = "BLOCKED" => k.on[t] = Blocked(todo[t])

\* A lent priority is given back: basePriority remembers the owner's own priority
\* while it holds a mutex, and a task that holds none has its own again.
PriorityReturned ==
    \A t \in Task :
       IF held[t] = {} THEN k.prio[t] = own[t]
                       ELSE \A l \in held[t] : lock[l].base = own[t]

\* Tasks wait for l, which is free, and none of them has to wait for others that
\* the scheduler prefers.
FreeAmongEquals(l) ==
    /\ started
    /\ lock[l].count > 0
    /\ \E t \in Task : todo[t] = l
    /\ \A t, u \in Handle : own[t] = own[u]

\* Among tasks of one priority, a mutex or semaphore that is free while tasks wait
\* for it is taken, or they stop waiting: the retry loop and the wakeup never leave
\* everyone blocked.
FreeLockTaken ==
    \A l \in Lock :
       FreeAmongEquals(l) ~> (lock[l].count = 0 \/ \A t \in Task : todo[t] # l)
=============================================================================
