---------------------------- MODULE LocksProofs -----------------------------
(***************************************************************************)
(* Locks, for any number of tasks, mutexes and semaphores, any resources,  *)
(* any nesting, whatever states and priorities the tasks give one another  *)
(* and with or without tasks that unlock what they do not hold: who holds  *)
(* what, which wakeups are on their way, where blocked tasks are, and      *)
(* which priorities are lent.                                              *)
(***************************************************************************)
EXTENDS Locks, TasksProofs, FiniteSetTheorems

LockType == [Lock -> [count : 0..MaxCount, base : 0..NumPriorities,
                      owner : Task \cup {NoTask}]]

\* No task that exists is forgotten, unless it is deleted: only a task that does
\* not exist makes ipc_semaphoreWait take a mutex for an orphan.
Created == \A t \in Task : pc[t] # "new" => k.state[t] # "UNINIT"

\* A mutex that is taken has an owner that holds it, and nobody else does.
Owned == \A l \in Mutex :
            /\ lock[l].count \in {0, 1}
            /\ lock[l].count = 0 => /\ lock[l].owner \in Task
                                    /\ l \in held[lock[l].owner]
            /\ \A t \in Task : l \in held[t] => /\ lock[l].count = 0
                                                /\ lock[l].owner = t

\* A stray unlock may lower mutexCount too far, but nothing raises it too far.
Counted == \A t \in Task : /\ mutexCount[t] <= Cardinality(held[t])
                           /\ ~StrayUnlocks => mutexCount[t] = Cardinality(held[t])

KernelInv ==
    /\ Queued(k)
    /\ started \in BOOLEAN
    /\ pc \in [Task -> Label]
    /\ todo \in [Task -> Loop]

Books ==
    /\ lock \in LockType
    /\ held \in [Task -> SUBSET Mutex]
    /\ own \in [Task -> 0..NumPriorities]
    /\ mutexCount \in [Task -> Nat]
    /\ Owned
    /\ Counted

\* A task that holds a mutex exists.
LocksInv ==
    /\ KernelInv
    /\ Books
    /\ \A t \in Task : held[t] # {} => pc[t] # "new" /\ k.state[t] # "UNINIT"

-----------------------------------------------------------------------------
\* No task that exists in kernel k is gone in kernel u.
NoneLost(u, kernel) ==
    \A t \in Task : kernel.state[t] # "UNINIT" => u.state[t] # "UNINIT"

LEMMA Unlisting ==
    ASSUME NEW kernel, Queued(kernel), NEW t \in Task
    PROVE  SetTaskState(kernel, t, "BLOCKED").on[t] = NoList
<1>1. PICK v : v = ScheduleTask(kernel, t, "BLOCKED") OBVIOUS
<1>2. v.on = [kernel.on EXCEPT ![t] = Target("BLOCKED", kernel.prio[t])]
      /\ v \in KernelState
  BY <1>1, Scheduling DEF Queued
<1>3. Target("BLOCKED", kernel.prio[t]) = NoList BY DEF Target
<1>4. kernel.on \in [Task -> ListName \cup {NoList}] BY DEF Queued, KernelState
<1>5. v.on[t] = NoList BY <1>2, <1>3, <1>4
<1>6. SetTaskState(kernel, t, "BLOCKED")
        = [v EXCEPT !.state = [v.state EXCEPT ![t] = "BLOCKED"]]
  BY <1>1 DEF SetTaskState
<1> QED BY <1>2, <1>5, <1>6 DEF KernelState

\* tasks_setTaskState keeps the lists in order, whatever state the task was in.
LEMMA Rescheduling ==
    ASSUME NEW kernel, Queued(kernel), NEW t \in Task,
           NEW s \in State \ {"UNINIT"}, NEW u, u = SetTaskState(kernel, t, s)
    PROVE  Queued(u) /\ NoneLost(u, kernel)
<1>1. Queued(u) /\ u.state = [kernel.state EXCEPT ![t] = s] BY SettingState
<1>2. kernel.state \in [Task -> State] BY DEF Queued, KernelState
<1> QED BY <1>1, <1>2 DEF NoneLost

LEMMA Reprioritizing ==
    ASSUME NEW kernel, Queued(kernel), NEW t \in Task,
           NEW p \in 0..NumPriorities, NEW u, u = SetTaskPriority(kernel, t, p)
    PROVE  Queued(u) /\ NoneLost(u, kernel)
<1>1. Queued(u) /\ u.state = kernel.state BY SettingPriority
<1> QED BY <1>1 DEF NoneLost

\* tasks_blockTask.
LEMMA Blocking ==
    ASSUME NEW kernel, Queued(kernel), NEW t \in Task, NEW l \in Lock,
           NEW u, u = BlockTask(kernel, t, l)
    PROVE  Queued(u) /\ NoneLost(u, kernel)
<1>1. CASE kernel.on[t] = Blocked(l)
  <2>1. u = kernel BY <1>1 DEF BlockTask
  <2> QED BY <2>1 DEF NoneLost
<1>2. CASE kernel.on[t] # Blocked(l)
  <2>1. PICK v : v = SetTaskState(kernel, t, "BLOCKED") OBVIOUS
  <2>2. "BLOCKED" \in State \ {"UNINIT"} BY DEF State
  <2>3. Queued(v) /\ NoneLost(v, kernel) BY <2>1, <2>2, Rescheduling
  <2>4. v.on[t] = NoList BY <2>1, Unlisting
  <2>5. PICK b \in ListName : b = Blocked(l) BY ListNames
  <2>6. u = ListAddBack(v, b, t) BY <1>2, <2>1, <2>5 DEF BlockTask
  <2>7. Queued(u) /\ SameFields(u, v) /\ u.on = [v.on EXCEPT ![t] = b]
    <3>1. Queued(v) /\ v.on[t] = NoList /\ u = ListAddBack(v, b, t)
      BY <2>3, <2>4, <2>6
    <3> QED BY <3>1, Adding
  <2> QED BY <2>3, <2>7 DEF NoneLost, SameFields
<1> QED BY <1>1, <1>2

LEMMA FirstWaiter ==
    ASSUME Queued(k), NEW l \in Lock, Waiters(l) # <<>>
    PROVE  Head(Waiters(l)) \in Task
<1>1. Blocked(l) \in ListName BY ListNames
<1>2. Waiters(l) \in Seq(Task) BY <1>1 DEF Queued, KernelState, Waiters
<1> QED BY <1>2

\* Waking the first waiter, after the kernel has changed from k to some u or not.
LEMMA Waking ==
    ASSUME Queued(k), NEW l \in Lock, NEW u, Queued(u),
           NEW v, v = WakeFirst(u, l)
    PROVE  Queued(v) /\ NoneLost(v, u)
<1>1. CASE Waiters(l) = <<>> BY <1>1 DEF WakeFirst, NoneLost
<1>2. CASE Waiters(l) # <<>>
  <2>1. PICK t \in Task : t = Head(Waiters(l)) BY <1>2, FirstWaiter
  <2>2. v = SetTaskState(u, t, "READY")
    BY <1>2, <2>1 DEF WakeFirst, UnblockTask
  <2>3. "READY" \in State \ {"UNINIT"} BY DEF State
  <2> QED BY <2>2, <2>3, Rescheduling
<1> QED BY <1>1, <1>2

\* What a task that finds a mutex taken does to its owner or its first waiter.
LEMMA Lending ==
    ASSUME Queued(k), lock \in LockType, NEW t \in Task, NEW l \in Lock,
           NEW u, u = Lend(t, l)
    PROVE  Queued(u) /\ NoneLost(u, k)
<1>1. CASE u = k BY <1>1 DEF NoneLost
<1>2. CASE l \in Mutex /\ Orphaned(l)
  <2>1. u = WakeFirst(k, l) BY <1>2 DEF Lend, WakeFirst
  <2> QED BY <2>1, Waking
<1>3. CASE l \in Mutex /\ ~Orphaned(l) /\ u # k
  <2>1. PICK o \in Task : o = lock[l].owner
    BY <1>3 DEF LockType, Orphaned
  <2>2. PICK p \in 0..NumPriorities : p = k.prio[t] BY DEF Queued, KernelState
  <2>3. u = SetTaskPriority(k, o, p) BY <1>3, <2>1, <2>2 DEF Lend
  <2> QED BY <2>3, Reprioritizing
<1> QED BY <1>1, <1>2, <1>3 DEF Lend

-----------------------------------------------------------------------------
\* Before the first call every mutex is free.
LEMMA BooksOpen ==
    ASSUME Init, lock \in LockType, \A l \in Mutex : lock[l].count = 1,
           mutexCount = [t \in Task |-> 0], held = [t \in Task |-> {}], own = k.prio
    PROVE  LocksInv /\ Created
<1>1. k = InitialKernel /\ k \in KernelState /\ Queued(k)
  BY InitialConsistent DEF Init, Queued
<1>2. KernelInv /\ Created
  <2>1. k.state[Idle] # "UNINIT" BY <1>1, InitialConsistent
  <2>2. Created BY <2>1 DEF Init, Created
  <2>3. pc \in [Task -> Label] /\ todo \in [Task -> Loop] /\ started \in BOOLEAN
    BY DEF Init, Label, Loop
  <2> QED BY <1>1, <2>2, <2>3 DEF KernelInv
<1>4. /\ held \in [Task -> SUBSET Mutex] /\ mutexCount \in [Task -> Nat]
      /\ \A t \in Task : held[t] = {} /\ mutexCount[t] = 0
  OBVIOUS
<1>5. own \in [Task -> 0..NumPriorities]
  BY <1>1 DEF KernelState
<1>6. Owned BY <1>4 DEF Owned
<1>7. Counted
  <2>1. Cardinality({}) = 0 BY FS_EmptySet
  <2>2. ASSUME NEW t \in Task
        PROVE  /\ mutexCount[t] <= Cardinality(held[t])
               /\ mutexCount[t] = Cardinality(held[t])
    <3>1. held[t] = {} /\ mutexCount[t] = 0 BY <1>4
    <3>2. mutexCount[t] = Cardinality(held[t]) BY <2>1, <3>1
    <3>3. mutexCount[t] <= mutexCount[t] BY <3>1
    <3> QED BY <3>2, <3>3
  <2> QED BY <2>2 DEF Counted
<1> QED BY <1>2, <1>4, <1>5, <1>6, <1>7 DEF LocksInv, Books

LEMMA LocksInitial == LocksInit => LocksInv /\ Created
<1> SUFFICES ASSUME LocksInit PROVE LocksInv /\ Created
  OBVIOUS
<1>1. 1 \in 0..MaxCount /\ 0 \in 0..NumPriorities
  BY LocksAssumption, TasksAssumption
<1>2. lock \in LockType
  BY <1>1, LocksAssumption DEF LocksInit, SemaphoreInit, LockType
<1>3. \A l \in Mutex : lock[l].count = 1
  BY LocksAssumption DEF LocksInit, SemaphoreInit
<1> QED BY <1>2, <1>3, BooksOpen DEF LocksInit

LEMMA SwitchKeeps ==
    ASSUME KernelInv, Switch
    PROVE  Queued(k') /\ NoneLost(k', k)
<1>1. PICK counted : counted = CountTick(k) OBVIOUS
<1>2. k' = Dispatch(counted) BY <1>1 DEF Switch
<1>3. Queued(k) BY DEF KernelInv
<1>4. Queued(counted) /\ \A t \in Task : counted.state[t] \in {k.state[t], "READY"}
  BY <1>1, <1>3, CountingTick
<1>5. Queued(k') /\ k'.state = counted.state BY <1>2, <1>4, Dispatching
<1> QED BY <1>4, <1>5 DEF NoneLost

\* The steps of a lock's own code, and every other step, in the kernel state.
LEMMA KernelSteps ==
    ASSUME LocksInv, LocksNext
    PROVE  Queued(k') /\ NoneLost(k', k)
<1> DEFINE Goal == Queued(k') /\ NoneLost(k', k)
<1>1. Queued(k) /\ k \in KernelState /\ lock \in LockType /\ KernelInv
  BY DEF LocksInv, Books, KernelInv, Queued
<1>2. CASE UNCHANGED k BY <1>1, <1>2 DEF NoneLost
<1>3. ASSUME NEW t \in Task, NEW p \in CreatePriorities, Create(t, p)
      PROVE  Goal
  <2>1. k' = CreateTask(k, t, p) /\ p \in Nat /\ Queued(k)
    BY <1>1, <1>3, SchedulerAssumption DEF Create
  <2>2. Queued(k') /\ k'.state = [k.state EXCEPT ![t] = "READY"]
    BY <2>1, Creating
  <2> QED BY <1>1, <2>2 DEF NoneLost, KernelState
<1>4. CASE Switch BY <1>1, <1>4, SwitchKeeps
<1>5. ASSUME NEW t \in Task, NEW u \in Task, NEW s \in ApiStates,
             CallSetTaskState(t, u, s)
      PROVE  Goal
  <2>1. k' = SetTaskState(k, u, s) BY <1>5 DEF CallSetTaskState
  <2>2. s \in State \ {"UNINIT"} BY SchedulerAssumption DEF State
  <2> QED BY <1>1, <2>1, <2>2, Rescheduling
<1>6. ASSUME NEW t \in Task, NEW u \in Task, NEW p \in ApiPriorities,
             CallSetTaskPriority(t, u, p)
      PROVE  Goal
  <2>1. k' = SetTaskPriority(k, u, p) /\ p \in Nat
    BY <1>6, SchedulerAssumption DEF CallSetTaskPriority
  <2>2. CASE p > NumPriorities
    BY <2>1, <2>2, <1>1 DEF SetTaskPriority, NoneLost
  <2>3. CASE ~(p > NumPriorities)
    <3>1. p \in 0..NumPriorities BY <2>1, <2>3, TasksAssumption
    <3> QED BY <1>1, <2>1, <3>1, Reprioritizing
  <2> QED BY <2>2, <2>3
<1>7. ASSUME NEW n \in 0..MaxSleep, k' = SleepSection(k, n)
      PROVE  Goal
  <2>1. Queued(k') /\ \A v \in Task : k'.state[v] \in {k.state[v], "SLEEPING"}
    BY <1>1, <1>7, SleepingSection
  <2> QED BY <2>1 DEF NoneLost
<1>8. ASSUME NEW t \in Task, NEW l \in Lock, Block(t, l)
      PROVE  Goal
  <2>1. PICK lent : lent = Lend(t, l) OBVIOUS
  <2>2. Queued(lent) /\ NoneLost(lent, k) BY <1>1, <2>1, Lending
  <2>3. k' = BlockTask(lent, t, l) BY <1>8, <2>1 DEF Block
  <2>4. Queued(k') /\ NoneLost(k', lent) BY <2>2, <2>3, Blocking
  <2> QED BY <2>2, <2>4 DEF NoneLost
<1>9. ASSUME NEW t \in Task, NEW l \in Lock, UnlockOwned(t, l)
      PROVE  Goal
  <2>1. PICK back : back = Returned(t, l) OBVIOUS
  <2>2. Queued(back) /\ NoneLost(back, k)
    <3>1. lock[l].base \in 0..NumPriorities BY <1>1 DEF LockType
    <3>2. CASE k.prio[t] # lock[l].base
      <4>1. back = SetTaskPriority(k, t, lock[l].base)
        BY <2>1, <3>2 DEF Returned
      <4> QED BY <1>1, <3>1, <4>1, Reprioritizing
    <3>3. CASE k.prio[t] = lock[l].base
      BY <1>1, <2>1, <3>3 DEF Returned, NoneLost
    <3> QED BY <3>2, <3>3
  <2>3. k' = WakeFirst(back, l) BY <1>9, <2>1 DEF UnlockOwned
  <2>4. Queued(k') /\ NoneLost(k', back) BY <1>1, <2>2, <2>3, Waking
  <2> QED BY <2>2, <2>4 DEF NoneLost
<1>10. ASSUME NEW t \in Task, NEW l \in Lock,
              UnlockForeign(t, l) \/ SignalSemaphore(t, l)
      PROVE  Goal
  <2>1. k' = WakeFirst(k, l) BY <1>10 DEF UnlockForeign, SignalSemaphore
  <2> QED BY <1>1, <2>1, Waking
<1>11. ASSUME NEW t \in Task, Calls(t) PROVE Goal
  <2>1. ASSUME NEW n \in SleepTimes, CallSleep(t, n) PROVE Goal
    <3>1. n \in 0..MaxSleep /\ k' = SleepSection(k, n)
      BY <2>1, SchedulerAssumption DEF CallSleep
    <3> QED BY <3>1, <1>7
  <2> QED BY <1>11, <2>1, <1>5, <1>6 DEF Calls
<1>12. ASSUME NEW t \in Task, LoopSleep(t) \/ Yield(t) PROVE Goal
  <2>1. 0 \in 0..MaxSleep BY TasksAssumption
  <2> QED BY <1>12, <2>1, <1>4, <1>7 DEF LoopSleep, Yield
<1>13. ASSUME NEW t \in Task, NEW l \in Lock, Wait(t, l) \/ Signal(t, l)
       PROVE  Goal
  BY <1>13, <1>2, <1>8, <1>9, <1>10 DEF Wait, Signal, Acquire
<1>14. CASE Boot BY <1>14, <1>2, <1>3 DEF Boot, StartScheduler
<1>15. CASE Tick BY <1>15, <1>4 DEF Tick
<1> HIDE DEF Goal
<1>16. ASSUME NEW t \in Task, KernelCode(t) PROVE Goal
  BY <1>16, <1>12, <1>13 DEF KernelCode
<1>17. Goal
  <2>1. CASE \E t \in Task : Calls(t) BY <2>1, <1>11
  <2>2. CASE \E t \in Task : KernelCode(t) BY <2>2, <1>16
  <2>3. CASE \E t \in Task, l \in Lock :
               (At(t, "run") /\ Wait(t, l)) \/ Signal(t, l)
    BY <2>3, <1>13
  <2> QED BY <2>1, <2>2, <2>3, <1>14, <1>15 DEF LocksNext, Goal
<1> QED BY <1>17 DEF Goal

\* Control: a task that exists goes on existing, and one that appears was created.
LEMMA ControlSteps ==
    ASSUME LocksInv, LocksNext
    PROVE  /\ started' \in BOOLEAN
           /\ pc' \in [Task -> Label]
           /\ todo' \in [Task -> Loop]
           /\ \A t \in Task :
                /\ pc[t] # "new" => pc'[t] # "new"
                /\ pc'[t] # "new" => pc[t] # "new" \/ k'.state[t] # "UNINIT"
<1> DEFINE Goal == /\ started' \in BOOLEAN
                   /\ pc' \in [Task -> Label]
                   /\ todo' \in [Task -> Loop]
                   /\ \A t \in Task :
                        /\ pc[t] # "new" => pc'[t] # "new"
                        /\ pc'[t] # "new" => \/ pc[t] # "new"
                                             \/ k'.state[t] # "UNINIT"
<1>1. /\ started \in BOOLEAN /\ pc \in [Task -> Label] /\ todo \in [Task -> Loop]
      /\ Queued(k) /\ k \in KernelState
  BY DEF LocksInv, KernelInv, Queued
<1>2. \A l \in Lock : l \in Loop BY DEF Loop
<1>3. ASSUME UNCHANGED <<pc, todo>>, started' \in BOOLEAN PROVE Goal
  BY <1>1, <1>3
<1>4. ASSUME NEW t \in Task, NEW label \in Label \ {"new"}, Goto(t, label),
             NEW loop \in Loop, todo' = [todo EXCEPT ![t] = loop],
             started' = started, pc[t] # "new" \/ k'.state[t] # "UNINIT"
      PROVE  Goal
  BY <1>1, <1>4 DEF Goto
<1>5. {"run", "retry", "sleep", "yield"} \subseteq Label \ {"new"}
  BY DEF Label
<1>6. ASSUME NEW t \in Task, NEW label \in Label \ {"new"}, Goto(t, label),
             UNCHANGED <<started, todo>>, pc[t] # "new" \/ k'.state[t] # "UNINIT"
      PROVE  Goal
  <2>1. todo' = [todo EXCEPT ![t] = todo[t]] /\ todo[t] \in Loop BY <1>1, <1>6
  <2> QED BY <2>1, <1>4, <1>6
<1>7. ASSUME NEW t \in Task, NEW p \in CreatePriorities, Create(t, p)
      PROVE  Goal
  <2>1. k' = CreateTask(k, t, p) /\ p \in Nat /\ Queued(k)
    BY <1>1, <1>7, SchedulerAssumption DEF Create
  <2>2. k'.state = [k.state EXCEPT ![t] = "READY"] BY <2>1, Creating
  <2>3. k'.state[t] # "UNINIT" BY <1>1, <2>2 DEF KernelState
  <2>4. Goto(t, "run") /\ UNCHANGED <<started, todo>> BY <1>7 DEF Create
  <2> HIDE DEF Goal
  <2> QED BY <2>3, <2>4, <1>5, <1>6
<1>8. ASSUME NEW t \in Task, Calls(t) \/ LoopSleep(t) \/ Yield(t) PROVE Goal
  <2>1. ASSUME NEW label \in {"run", "retry", "yield"}, Goto(t, label),
               UNCHANGED <<started, todo>>, pc[t] # "new"
        PROVE  Goal
    BY <2>1, <1>5, <1>6
  <2> HIDE DEF Goal
  <2>2. ASSUME NEW u \in Task, NEW s \in ApiStates, CallSetTaskState(t, u, s)
        PROVE  Goal
    BY <2>2, <1>1, <1>3 DEF CallSetTaskState
  <2>3. ASSUME NEW u \in Task, NEW p \in ApiPriorities,
               CallSetTaskPriority(t, u, p)
        PROVE  Goal
    BY <2>3, <1>1, <1>3 DEF CallSetTaskPriority
  <2>4. ASSUME NEW n \in SleepTimes, CallSleep(t, n) PROVE Goal
    BY <2>4, <2>1 DEF CallSleep, At
  <2>5. CASE LoopSleep(t) BY <2>5, <2>1 DEF LoopSleep, At
  <2>6. CASE Yield(t) BY <2>6, <2>1 DEF Yield, At
  <2> QED BY <1>8, <2>2, <2>3, <2>4, <2>5, <2>6 DEF Calls
<1>9. ASSUME NEW t \in Task, NEW l \in Lock, Wait(t, l) PROVE Goal
  <2>1. pc[t] # "new" BY <1>9 DEF Wait, Acquire, Block, Tries, At
  <2>2. "none" \in Loop BY DEF Loop
  <2> HIDE DEF Goal
  <2>3. CASE Acquire(t, l)
    BY <2>1, <2>2, <2>3, <1>4, <1>5 DEF Acquire
  <2>4. CASE Block(t, l)
    BY <2>1, <2>4, <1>2, <1>4, <1>5 DEF Block
  <2> QED BY <1>9, <2>3, <2>4 DEF Wait
<1>10. ASSUME NEW t \in Task, NEW l \in Lock, Signal(t, l) PROVE Goal
  BY <1>1, <1>3, <1>10 DEF Signal, UnlockOwned, UnlockForeign, SignalSemaphore
<1>11. CASE Boot BY <1>1, <1>3, <1>7, <1>11 DEF Boot, StartScheduler
<1>12. CASE Tick BY <1>1, <1>3, <1>12 DEF Tick
<1> HIDE DEF Goal
<1>13. ASSUME NEW t \in Task, KernelCode(t) PROVE Goal
  BY <1>13, <1>8, <1>9 DEF KernelCode, Goal
<1>14. Goal
  <2>1. CASE \E t \in Task : Calls(t) BY <2>1, <1>8 DEF Goal
  <2>2. CASE \E t \in Task : KernelCode(t) BY <2>2, <1>13
  <2>3. CASE \E t \in Task, l \in Lock :
               (At(t, "run") /\ Wait(t, l)) \/ Signal(t, l)
    BY <2>3, <1>9, <1>10 DEF Goal
  <2> QED BY <2>1, <2>2, <2>3, <1>11, <1>12 DEF LocksNext, Goal
<1> QED BY <1>14 DEF Goal

-----------------------------------------------------------------------------
LEMMA HeldIsFinite ==
    ASSUME NEW S \in SUBSET Mutex
    PROVE  /\ IsFiniteSet(S) /\ Cardinality(S) \in Nat
           /\ Cardinality(S) <= Cardinality(Lock)
<1>1. S \subseteq Lock /\ IsFiniteSet(Lock) BY LocksAssumption
<1> QED BY <1>1, FS_Subset, FS_CardinalityType

\* Taking a mutex that is free: nobody holds it, so the taker is the only one.
LEMMA AcquireKeepsBooks ==
    ASSUME LocksInv, NEW t \in Task, NEW l \in Lock, Acquire(t, l)
    PROVE  Books'
<1>1. /\ lock \in LockType /\ held \in [Task -> SUBSET Mutex]
      /\ mutexCount \in [Task -> Nat] /\ own \in [Task -> 0..NumPriorities]
      /\ Owned /\ Counted /\ k.prio[t] \in 0..NumPriorities
  BY DEF LocksInv, Books, KernelInv, Queued, KernelState
<1>2. lock[l].count > 0 /\ lock[l].count \in 0..MaxCount /\ own' = own
  BY <1>1 DEF Acquire, Available, LockType
<1>3. lock[l].count - 1 \in 0..MaxCount BY <1>2, LocksAssumption
<1>4. CASE l \in Mutex
  <2>1. /\ lock' = [lock EXCEPT ![l] = [count |-> lock[l].count - 1,
                                        base |-> k.prio[t], owner |-> t]]
        /\ mutexCount' = [mutexCount EXCEPT ![t] = mutexCount[t] + 1]
        /\ held' = [held EXCEPT ![t] = held[t] \cup {l}]
    BY <1>4 DEF Acquire
  <2>2. lock[l].count = 1 /\ \A u \in Task : l \notin held[u]
    BY <1>1, <1>2, <1>4 DEF Owned
  <2>3. lock' \in LockType BY <1>1, <1>3, <2>1 DEF LockType
  <2>4. held' \in [Task -> SUBSET Mutex] /\ mutexCount' \in [Task -> Nat]
    BY <1>1, <1>4, <2>1
  <2>5. lock'[l].count = 0 /\ lock'[l].owner = t
        /\ \A m \in Mutex \ {l} : lock'[m] = lock[m]
    BY <1>1, <2>1, <2>2, LocksAssumption DEF LockType
  <2>6. /\ held'[t] = held[t] \cup {l}
        /\ \A u \in Task \ {t} : held'[u] = held[u]
        /\ mutexCount'[t] = mutexCount[t] + 1
        /\ \A u \in Task \ {t} : mutexCount'[u] = mutexCount[u]
    BY <1>1, <2>1
  <2>7. Owned'
    <3> SUFFICES ASSUME NEW m \in Mutex
                 PROVE  /\ lock'[m].count \in {0, 1}
                        /\ lock'[m].count = 0 => /\ lock'[m].owner \in Task
                                                 /\ m \in held'[lock'[m].owner]
                        /\ \A u \in Task : m \in held'[u] =>
                              lock'[m].count = 0 /\ lock'[m].owner = u
      BY DEF Owned
    <3>1. CASE m = l BY <3>1, <2>2, <2>5, <2>6
    <3>2. CASE m # l
      <4>1. \A u \in Task : m \in held'[u] <=> m \in held[u]
        BY <3>2, <2>6
      <4> QED BY <3>2, <4>1, <1>1, <2>5 DEF Owned
    <3> QED BY <3>1, <3>2
  <2>8. Counted'
    <3>1. Cardinality(held[t] \cup {l}) = Cardinality(held[t]) + 1
          /\ Cardinality(held[t]) \in Nat
      BY <1>1, <2>2, HeldIsFinite, FS_AddElement
    <3>2. /\ mutexCount[t] <= Cardinality(held[t]) /\ mutexCount[t] \in Nat
          /\ ~StrayUnlocks => mutexCount[t] = Cardinality(held[t])
      BY <1>1 DEF Counted
    <3>3. /\ mutexCount'[t] <= Cardinality(held'[t])
          /\ ~StrayUnlocks => mutexCount'[t] = Cardinality(held'[t])
      BY <3>1, <3>2, <2>6
    <3>4. ASSUME NEW u \in Task \ {t}
          PROVE  /\ mutexCount'[u] <= Cardinality(held'[u])
                 /\ ~StrayUnlocks => mutexCount'[u] = Cardinality(held'[u])
      BY <1>1, <2>6 DEF Counted
    <3> QED BY <3>3, <3>4 DEF Counted
  <2> QED BY <1>1, <1>2, <2>3, <2>4, <2>7, <2>8 DEF Books
<1>5. CASE l \notin Mutex
  <2>1. /\ lock' = [lock EXCEPT ![l].count = lock[l].count - 1]
        /\ UNCHANGED <<mutexCount, held>>
    BY <1>5 DEF Acquire
  <2>2. lock' \in LockType BY <1>1, <1>3, <2>1 DEF LockType
  <2>3. \A m \in Mutex : lock'[m] = lock[m] BY <1>1, <1>5, <2>1 DEF LockType
  <2>4. Owned' BY <1>1, <2>1, <2>3 DEF Owned
  <2>5. Counted' BY <1>1, <2>1 DEF Counted
  <2> QED BY <1>1, <1>2, <2>1, <2>2, <2>4, <2>5 DEF Books
<1> QED BY <1>4, <1>5

\* The branch for an orphaned mutex is never taken: a mutex that is taken has an
\* owner that exists.
LEMMA NeverOrphaned ==
    ASSUME LocksInv, NEW l \in Mutex, lock[l].count = 0
    PROVE  ~Orphaned(l)
<1>1. lock[l].owner \in Task /\ l \in held[lock[l].owner]
  BY DEF LocksInv, Books, Owned
<1>2. k.state[lock[l].owner] # "UNINIT" BY <1>1 DEF LocksInv
<1> QED BY <1>1, <1>2, LocksAssumption DEF Orphaned

LEMMA BlockKeepsBooks ==
    ASSUME LocksInv, NEW t \in Task, NEW l \in Lock, Block(t, l)
    PROVE  Books'
<1>1. UNCHANGED <<held, own, mutexCount>> BY DEF Block
<1>2. lock \in LockType /\ Books BY DEF LocksInv, Books
<1>3. lock' = lock
  <2>1. CASE l \notin Mutex BY <2>1 DEF Block
  <2>2. CASE l \in Mutex
    <3>1. lock[l].count = 0
      BY <1>2, LocksAssumption DEF Block, Available, LockType
    <3>2. ~Orphaned(l) BY <2>2, <3>1, NeverOrphaned
    <3> QED BY <3>2 DEF Block
  <2> QED BY <2>1, <2>2
<1> QED BY <1>1, <1>2, <1>3 DEF Books, Owned, Counted

\* An unlock by the recorded owner: it holds the mutex, or the mutex is free and
\* the record is stale.
LEMMA UnlockKeepsBooks ==
    ASSUME LocksInv, NEW t \in Task, NEW l \in Lock, UnlockOwned(t, l)
    PROVE  Books'
<1>1. /\ lock \in LockType /\ held \in [Task -> SUBSET Mutex]
      /\ mutexCount \in [Task -> Nat] /\ own \in [Task -> 0..NumPriorities]
      /\ Owned /\ Counted
  BY DEF LocksInv, Books
<1>2. /\ l \in Mutex /\ lock[l].owner = t /\ own' = own
      /\ StrayUnlocks \/ l \in held[t]
      /\ lock' = [lock EXCEPT ![l] = Released(t, l)]
      /\ mutexCount' = [mutexCount EXCEPT ![t] = OneLess(mutexCount[t])]
      /\ held' = [held EXCEPT ![t] = held[t] \ {l}]
  BY DEF UnlockOwned
<1>3. /\ Released(t, l) \in [count : 0..MaxCount, base : 0..NumPriorities,
                             owner : Task \cup {NoTask}]
      /\ Released(t, l).count = 1
  <2>1. 1 \in 0..MaxCount /\ 0 \in 0..NumPriorities
    BY LocksAssumption, TasksAssumption
  <2>2. CASE k.prio[t] # lock[l].base BY <2>1, <2>2 DEF Released
  <2>3. CASE k.prio[t] = lock[l].base
    <3>1. Released(t, l) = [lock[l] EXCEPT !.count = 1] BY <2>3 DEF Released
    <3> QED BY <1>1, <2>1, <3>1 DEF LockType
  <2> QED BY <2>2, <2>3
<1>4. /\ lock' \in LockType /\ lock'[l].count = 1
      /\ \A m \in Mutex \ {l} : lock'[m] = lock[m]
  BY <1>1, <1>2, <1>3, LocksAssumption DEF LockType
<1>5. OneLess(mutexCount[t]) \in Nat BY <1>1 DEF OneLess
<1>6. held' \in [Task -> SUBSET Mutex] /\ mutexCount' \in [Task -> Nat]
  BY <1>1, <1>2, <1>5
<1>7. /\ held'[t] = held[t] \ {l}
      /\ \A u \in Task \ {t} : held'[u] = held[u]
      /\ mutexCount'[t] = OneLess(mutexCount[t])
      /\ \A u \in Task \ {t} : mutexCount'[u] = mutexCount[u]
  BY <1>1, <1>2
<1>8. \A u \in Task : l \in held[u] => u = t
  BY <1>1, <1>2 DEF Owned
<1>9. Owned'
  <2> SUFFICES ASSUME NEW m \in Mutex
               PROVE  /\ lock'[m].count \in {0, 1}
                      /\ lock'[m].count = 0 => /\ lock'[m].owner \in Task
                                               /\ m \in held'[lock'[m].owner]
                      /\ \A u \in Task : m \in held'[u] =>
                            lock'[m].count = 0 /\ lock'[m].owner = u
    BY DEF Owned
  <2>1. CASE m = l
    <3>1. \A u \in Task : m \notin held'[u] BY <2>1, <1>7, <1>8
    <3> QED BY <2>1, <3>1, <1>4
  <2>2. CASE m # l
    <3>1. \A u \in Task : m \in held'[u] <=> m \in held[u]
      BY <2>2, <1>7
    <3> QED BY <2>2, <3>1, <1>1, <1>4 DEF Owned
  <2> QED BY <2>1, <2>2
<1>10. Counted'
  <2>1. /\ IsFiniteSet(held[t]) /\ Cardinality(held[t]) \in Nat
        /\ IsFiniteSet(held'[t]) /\ Cardinality(held'[t]) \in Nat
    BY <1>1, <1>6, HeldIsFinite
  <2>2. Cardinality(held'[t]) = IF l \in held[t] THEN Cardinality(held[t]) - 1
                                                 ELSE Cardinality(held[t])
    BY <1>7, <2>1, FS_RemoveElement
  <2>3. /\ mutexCount[t] <= Cardinality(held[t]) /\ mutexCount[t] \in Nat
        /\ ~StrayUnlocks => mutexCount[t] = Cardinality(held[t])
    BY <1>1 DEF Counted
  <2>4. mutexCount'[t] <= Cardinality(held'[t])
    BY <1>7, <2>1, <2>2, <2>3 DEF OneLess
  <2>5. ~StrayUnlocks => mutexCount'[t] = Cardinality(held'[t])
    BY <1>2, <1>7, <2>1, <2>2, <2>3 DEF OneLess
  <2>6. ASSUME NEW u \in Task \ {t}
        PROVE  /\ mutexCount'[u] <= Cardinality(held'[u])
               /\ ~StrayUnlocks => mutexCount'[u] = Cardinality(held'[u])
    BY <1>1, <1>7 DEF Counted
  <2> QED BY <2>4, <2>5, <2>6 DEF Counted
<1> QED BY <1>1, <1>2, <1>4, <1>6, <1>9, <1>10 DEF Books

LEMMA SignalKeepsBooks ==
    ASSUME LocksInv, NEW t \in Task, NEW l \in Lock, SignalSemaphore(t, l)
    PROVE  Books'
<1>1. lock \in LockType /\ Books BY DEF LocksInv, Books
<1>2. /\ lock' = [lock EXCEPT ![l].count = lock[l].count + 1]
      /\ l \notin Mutex /\ lock[l].count < MaxCount
      /\ UNCHANGED <<mutexCount, held, own>>
  BY DEF SignalSemaphore
<1>3. lock[l].count + 1 \in 0..MaxCount BY <1>1, <1>2, LocksAssumption DEF LockType
<1>4. lock' \in LockType BY <1>1, <1>2, <1>3 DEF LockType
<1>5. \A m \in Mutex : lock'[m] = lock[m] BY <1>1, <1>2 DEF LockType
<1> QED BY <1>1, <1>2, <1>4, <1>5 DEF Books, Owned, Counted

LEMMA BooksSteps ==
    ASSUME LocksInv, LocksNext
    PROVE  Books'
<1>1. Books /\ k \in KernelState BY DEF LocksInv, KernelInv, Queued
<1>2. CASE UNCHANGED lockVars BY <1>1, <1>2 DEF lockVars, Books, Owned, Counted
<1>3. CASE Boot /\ own' = k'.prio /\ UNCHANGED <<lock, mutexCount, held>>
  <2>1. k' \in KernelState BY KernelSteps DEF Queued
  <2>2. own' \in [Task -> 0..NumPriorities] BY <1>3, <2>1 DEF KernelState
  <2> QED BY <1>1, <1>3, <2>2 DEF Books, Owned, Counted
<1>4. ASSUME NEW t \in Task, NEW l \in Lock, Wait(t, l) PROVE Books'
  BY <1>4, AcquireKeepsBooks, BlockKeepsBooks DEF Wait
<1>5. ASSUME NEW t \in Task, NEW l \in Lock, Signal(t, l) PROVE Books'
  <2>1. CASE UnlockForeign(t, l) BY <2>1, <1>2 DEF UnlockForeign
  <2> QED BY <1>5, <2>1, UnlockKeepsBooks, SignalKeepsBooks DEF Signal
<1>6. ASSUME NEW t \in Task, KernelCode(t) PROVE Books'
  BY <1>6, <1>2, <1>4 DEF KernelCode
<1>7. CASE \E t \in Task, l \in Lock : (At(t, "run") /\ Wait(t, l)) \/ Signal(t, l)
  BY <1>7, <1>4, <1>5
<1> QED BY <1>2, <1>3, <1>6, <1>7 DEF LocksNext

\* Only tasks that exist hold mutexes.
LEMMA HoldersExist ==
    ASSUME LocksInv, LocksNext, NEW t \in Task, held'[t] # {}
    PROVE  pc'[t] # "new"
<1>1. CASE held[t] # {} BY <1>1, ControlSteps DEF LocksInv
<1>2. CASE held'[t] = held[t] BY <1>1, <1>2
<1>3. held \in [Task -> SUBSET Mutex] BY DEF LocksInv, Books
<1>4. ASSUME NEW u \in Task, NEW l \in Lock, Wait(u, l) PROVE pc'[t] # "new"
  <2>1. CASE u = t
    <3>1. pc[t] # "new" BY <1>4, <2>1 DEF Wait, Acquire, Block, Tries, At
    <3> QED BY <3>1, ControlSteps
  <2>2. CASE u # t
    <3>1. held'[t] = held[t] BY <1>3, <1>4, <2>2 DEF Wait, Acquire, Block
    <3> QED BY <3>1, <1>2
  <2> QED BY <2>1, <2>2
<1>5. ASSUME NEW u \in Task, NEW l \in Lock, Signal(u, l) PROVE pc'[t] # "new"
  <2>1. held'[t] \subseteq held[t]
    BY <1>3, <1>5
       DEF Signal, UnlockOwned, UnlockForeign, SignalSemaphore, lockVars
  <2> QED BY <2>1, <1>1
<1>6. CASE UNCHANGED lockVars BY <1>6, <1>2 DEF lockVars
<1>7. ASSUME NEW u \in Task, KernelCode(u) PROVE pc'[t] # "new"
  BY <1>7, <1>4, <1>6 DEF KernelCode
<1>8. CASE \E u \in Task, l \in Lock : (At(u, "run") /\ Wait(u, l)) \/ Signal(u, l)
  BY <1>8, <1>4, <1>5
<1> QED BY <1>2, <1>6, <1>7, <1>8 DEF LocksNext

\* Any step, if it leaves those who hold mutexes in existence.
LEMMA LocksSteps ==
    ASSUME LocksInv, [LocksNext]_allVars,
           \A t \in Task : held'[t] # {} => k'.state[t] # "UNINIT"
    PROVE  LocksInv'
<1>1. CASE LocksNext
  <2>1. KernelInv' BY <1>1, KernelSteps, ControlSteps DEF KernelInv
  <2>2. Books' BY <1>1, BooksSteps
  <2>3. \A t \in Task : held'[t] # {} => pc'[t] # "new"
    BY <1>1, HoldersExist
  <2> QED BY <2>1, <2>2, <2>3 DEF LocksInv
<1>2. CASE UNCHANGED allVars
  BY <1>2 DEF allVars, vars, lockVars, LocksInv, KernelInv, Books, Owned, Counted
<1> QED BY <1>1, <1>2

\* Nothing in Locks deletes a task.
LEMMA LocksInvariantHolds == LocksSpec => []LocksInv
<1>1. LocksInit => LocksInv /\ Created BY LocksInitial
<1>2. ASSUME LocksInv, Created, [LocksNext]_allVars PROVE LocksInv' /\ Created'
  <2>1. CASE LocksNext
    <3>1. NoneLost(k', k) BY <1>2, <2>1, KernelSteps
    <3>2. Created'
      BY <1>2, <2>1, <3>1, ControlSteps DEF Created, NoneLost, LocksInv, KernelInv
    <3>3. \A t \in Task : held'[t] # {} => pc'[t] # "new"
      BY <1>2, <2>1, HoldersExist
    <3> QED BY <1>2, <3>2, <3>3, LocksSteps DEF Created
  <2>2. CASE UNCHANGED allVars
    <3>1. k' = k /\ pc' = pc /\ held' = held
      BY <2>2 DEF allVars, vars, lockVars
    <3> QED BY <1>2, <3>1, LocksSteps DEF Created, LocksInv
  <2> QED BY <1>2, <2>1, <2>2
<1> QED BY <1>1, <1>2, PTL DEF LocksSpec

-----------------------------------------------------------------------------
\* No two tasks hold a mutex, whoever is woken, by whom and in whatever order the
\* woken tasks and newcomers try again, and although a task may unlock a mutex it
\* does not hold: the test and the decrement of ipc_semaphoreWait are one critical
\* section, and only the recorded owner gives a mutex back.
THEOREM MutexesExclude == LocksSpec => []MutualExclusion
<1>1. LocksInv => MutualExclusion
  BY DEF LocksInv, Books, Owned, MutualExclusion
<1> QED BY <1>1, LocksInvariantHolds, PTL

\* Every lock's count, base priority and owner and every task's mutexCount keep
\* their types: a count does not wrap below 0, and mutexCount never exceeds the
\* number of locks.
THEOREM LocksTypeCorrect == LocksSpec => []LocksTypeOK
<1>1. ASSUME LocksInv PROVE LocksTypeOK
  <2>1. TypeOK BY <1>1 DEF LocksInv, KernelInv, TypeOK, Queued
  <2>2. mutexCount \in [Task -> 0..Cardinality(Lock)]
    <3> SUFFICES ASSUME NEW t \in Task PROVE mutexCount[t] \in 0..Cardinality(Lock)
      BY <1>1 DEF LocksInv, Books
    <3>1. /\ mutexCount[t] \in Nat /\ held[t] \in SUBSET Mutex
          /\ mutexCount[t] <= Cardinality(held[t])
      BY <1>1 DEF LocksInv, Books, Counted
    <3>2. /\ Cardinality(held[t]) \in Nat /\ Cardinality(Lock) \in Nat
          /\ Cardinality(held[t]) <= Cardinality(Lock)
      BY <3>1, HeldIsFinite, LocksAssumption, FS_CardinalityType
    <3> QED BY <3>1, <3>2
  <2> QED BY <1>1, <2>1, <2>2 DEF LocksInv, Books, LockType, LocksTypeOK
<1> QED BY <1>1, LocksInvariantHolds, PTL

\* If tasks only unlock mutexes they hold, the books balance, for any number of
\* mutexes held at once: in particular mutexCount, which keeps tasks_deleteTask
\* away from a task that holds a mutex, is the number it holds.
THEOREM DisciplinedBooksBalance ==
    ASSUME ~StrayUnlocks
    PROVE  LocksSpec => []BooksBalance
<1>1. ASSUME LocksInv PROVE BooksBalance
  <2>1. Owned /\ Counted BY <1>1 DEF LocksInv, Books
  <2>2. ASSUME NEW l \in Mutex
        PROVE  /\ lock[l].count = 1 <=> \A t \in Task : l \notin held[t]
               /\ lock[l].count = 0 => l \in held[lock[l].owner]
    BY <2>1 DEF Owned
  <2>3. \A t \in Task : mutexCount[t] = Cardinality(held[t])
    BY <2>1 DEF Counted
  <2> QED BY <2>2, <2>3 DEF BooksBalance
<1> QED BY <1>1, LocksInvariantHolds, PTL

-----------------------------------------------------------------------------
(***************************************************************************)
(* Waiting.  Eases and its companions say of each kernel function what it  *)
(* does to tasks that are blocked; WaitInv says where a task that waits    *)
(* can be, and is inductive whatever the tasks do to one another.  On it   *)
(* rest the counting of wakeups, the lists of blocked tasks, and, with     *)
(* OneInv, the priorities that mutexes remember.                           *)
(***************************************************************************)
SameClock(u, kernel) ==
    /\ u.cur = kernel.cur /\ u.next = kernel.next
    /\ u.qtl = kernel.qtl /\ u.tql = kernel.tql

\* From one kernel to the next nobody blocks, and no task that is blocked moves
\* to another lock's list.
Eases(u, kernel) ==
    /\ u.on[Idle] = kernel.on[Idle] /\ u.state[Idle] = kernel.state[Idle]
    /\ \A t \in Task :
          \/ u.state[t] = kernel.state[t] /\ u.on[t] = kernel.on[t]
          \/ u.state[t] # "BLOCKED" /\ \A l \in Lock : u.on[t] # Blocked(l)
          \/ /\ u.state[t] = "BLOCKED" /\ kernel.state[t] = "BLOCKED"
             /\ u.on[t] = NoList

\* Whoever is blocked was blocked, and is still on the list it was on.
StayListed(u, kernel) ==
    \A t \in Task : u.state[t] = "BLOCKED" =>
                       kernel.state[t] = "BLOCKED" /\ u.on[t] = kernel.on[t]

\* No task stops being ready.
StayReady(u, kernel) ==
    \A t \in Task : kernel.state[t] = "READY" => u.state[t] = "READY"

LEMMA ListsApart ==
    /\ \A l \in Lock : /\ Blocked(l) # NoList
                       /\ Blocked(l) # Sleeping /\ Blocked(l) # Suspended
                       /\ \A p \in 0..NumPriorities : Blocked(l) # Ready(p)
    /\ \A l, m \in Lock : Blocked(l) = Blocked(m) => l = m
    /\ \A p \in Priority : Ready(p) # NoList
    /\ Ready(0) # Sleeping /\ 0 \in Priority
<1>1. ASSUME NEW l \in Lock
      PROVE  Blocked(l) # NoList /\ Blocked(l) # Sleeping /\ Blocked(l) # Suspended
  BY DEF Blocked, NoList, Sleeping, Suspended
<1>2. ASSUME NEW l \in Lock, NEW p \in 0..NumPriorities
      PROVE  Blocked(l) # Ready(p)
  BY <1>1 DEF Blocked, Ready
<1>3. \A l, m \in Lock : Blocked(l) = Blocked(m) => l = m
  BY DEF Blocked
<1>4. \A p \in Priority : Ready(p) # NoList
  BY DEF Ready, NoList, Sleeping
<1>5. 0 \in Priority /\ 0 # NumPriorities BY TasksAssumption DEF Priority
<1>6. Ready(0) # Sleeping BY <1>5 DEF Ready, Sleeping
<1> QED BY <1>1, <1>2, <1>3, <1>4, <1>5, <1>6

LEMMA TargetsFree ==
    ASSUME NEW s, NEW p \in 0..NumPriorities, NEW l \in Lock
    PROVE  Target(s, p) # Blocked(l)
<1>1. Target(s, p) \in {Suspended, Sleeping, Ready(p), NoList} BY DEF Target
<1> QED BY <1>1, ListsApart

\* A task is given a state, and is put where that state and some priority say.
LEMMA MovingEases ==
    ASSUME NEW kernel \in KernelState, NEW u \in KernelState,
           NEW t \in Task \ {Idle}, NEW s, NEW p \in 0..NumPriorities,
           u.state = [kernel.state EXCEPT ![t] = s],
           Moves(u, kernel, t, Target(s, p)),
           s # "BLOCKED" \/ kernel.state[t] = "BLOCKED"
    PROVE  /\ Eases(u, kernel)
           /\ s = "READY" \/ s = kernel.state[t] => StayReady(u, kernel)
           /\ s # "BLOCKED" => StayListed(u, kernel)
<1>1. \A v \in Task \ {t} : u.state[v] = kernel.state[v] /\ u.on[v] = kernel.on[v]
  BY DEF KernelState, Moves
<1>2. u.state[t] = s /\ u.on[t] = Target(s, p)
  BY DEF KernelState, Moves
<1>3. Idle \in Task \ {t} BY TasksAssumption
<1>4. s = "BLOCKED" => Target(s, p) = NoList BY DEF Target
<1> QED BY <1>1, <1>2, <1>3, <1>4, TargetsFree DEF Eases, StayReady, StayListed

LEMMA EasingTwice ==
    ASSUME NEW kernel, NEW u, NEW v, Eases(u, kernel), Eases(v, u)
    PROVE  Eases(v, kernel)
BY DEF Eases

LEMMA StandingStill ==
    ASSUME NEW kernel, NEW u, u.state = kernel.state, u.on = kernel.on
    PROVE  Eases(u, kernel) /\ StayReady(u, kernel) /\ StayListed(u, kernel)
BY DEF Eases, StayReady, StayListed

\* tasks_setTaskState, tasks_setTaskPriority.
LEMMA SettingEases ==
    ASSUME NEW kernel, Queued(kernel), NEW t \in Task \ {Idle},
           NEW s \in State \ {"BLOCKED"}, NEW u, u = SetTaskState(kernel, t, s)
    PROVE  /\ Queued(u) /\ SameClock(u, kernel)
           /\ Eases(u, kernel) /\ StayListed(u, kernel)
           /\ s = "READY" => StayReady(u, kernel)
           /\ u.state[t] = s /\ u.prio = kernel.prio
<1>1. kernel.prio[t] \in 0..NumPriorities /\ kernel \in KernelState
  BY DEF Queued, KernelState
<1>2. /\ Queued(u) /\ u.state = [kernel.state EXCEPT ![t] = s]
      /\ Moves(u, kernel, t, Target(s, kernel.prio[t])) /\ u.prio = kernel.prio
      /\ u.cur = kernel.cur /\ u.next = kernel.next
      /\ u.qtl = kernel.qtl /\ u.tql = kernel.tql
  BY SettingState
<1>3. u \in KernelState BY <1>2 DEF Queued
<1>4. /\ Eases(u, kernel) /\ StayListed(u, kernel)
      /\ s = "READY" => StayReady(u, kernel)
  BY <1>1, <1>2, <1>3, MovingEases
<1>5. u.state[t] = s BY <1>1, <1>2 DEF KernelState
<1> QED BY <1>2, <1>4, <1>5 DEF SameClock

LEMMA ReprioritizingEases ==
    ASSUME NEW kernel, Queued(kernel), NEW t \in Task \ {Idle},
           NEW p \in 0..NumPriorities, NEW u, u = SetTaskPriority(kernel, t, p)
    PROVE  /\ Queued(u) /\ Eases(u, kernel) /\ SameClock(u, kernel)
           /\ StayReady(u, kernel)
           /\ kernel.state[t] # "BLOCKED" => StayListed(u, kernel)
           /\ Reranks(u, kernel, t, p)
<1>1. kernel \in KernelState BY DEF Queued
<1>2. /\ Queued(u) /\ u.state = kernel.state /\ Reranks(u, kernel, t, p)
      /\ Moves(u, kernel, t, Target(kernel.state[t], p))
      /\ u.cur = kernel.cur /\ u.next = kernel.next
      /\ u.qtl = kernel.qtl /\ u.tql = kernel.tql
  BY SettingPriority
<1>3. u \in KernelState BY <1>2 DEF Queued
<1>4. u.state = [kernel.state EXCEPT ![t] = kernel.state[t]]
  BY <1>1, <1>2 DEF KernelState
<1>5. PICK s : s = kernel.state[t] OBVIOUS
<1>6. /\ Eases(u, kernel) /\ StayReady(u, kernel)
      /\ kernel.state[t] # "BLOCKED" => StayListed(u, kernel)
  BY <1>1, <1>2, <1>3, <1>4, <1>5, MovingEases
<1> QED BY <1>2, <1>6 DEF SameClock

\* A list is empty exactly if no task points to it.
LEMMA WaitersPoint ==
    ASSUME NEW kernel, Queued(kernel), NEW l \in Lock
    PROVE  /\ kernel.list[Blocked(l)] # <<>> =>
                /\ Head(kernel.list[Blocked(l)]) \in Task
                /\ kernel.on[Head(kernel.list[Blocked(l)])] = Blocked(l)
           /\ \A t \in Task : kernel.on[t] = Blocked(l) =>
                                kernel.list[Blocked(l)] # <<>>
<1>1. /\ Agree(kernel.list, kernel.on) /\ kernel \in KernelState
      /\ Blocked(l) \in ListName /\ Blocked(l) # NoList
  BY ListNames, ListsApart DEF Queued, QueuesAgree
<1>2. kernel.list[Blocked(l)] \in Seq(Task) BY <1>1 DEF KernelState
<1>3. ASSUME kernel.list[Blocked(l)] # <<>>
      PROVE  /\ Head(kernel.list[Blocked(l)]) \in Task
             /\ kernel.on[Head(kernel.list[Blocked(l)])] = Blocked(l)
  <2> DEFINE s == kernel.list[Blocked(l)]
  <2>1. 1 \in 1..Len(s) /\ Head(s) = s[1] /\ s[1] \in Task BY <1>2, <1>3
  <2>2. kernel.on[s[1]] = Blocked(l) BY <1>1, <2>1 DEF Agree, PointBack
  <2> QED BY <2>1, <2>2
<1>4. ASSUME NEW t \in Task, kernel.on[t] = Blocked(l)
      PROVE  kernel.list[Blocked(l)] # <<>>
  <2>1. \E i \in 1..Len(kernel.list[Blocked(l)]) : kernel.list[Blocked(l)][i] = t
    BY <1>1, <1>4 DEF Agree, OnTheirLists
  <2> QED BY <2>1
<1> QED BY <1>3, <1>4

\* Waking the first waiter of l, in a kernel u that has come from k.
LEMMA WakingEases ==
    ASSUME Queued(k), NEW l \in Lock, k.on[Idle] = Ready(0),
           NEW u, Queued(u), NEW v, v = WakeFirst(u, l)
    PROVE  /\ Queued(v) /\ SameClock(v, u) /\ v.prio = u.prio
           /\ Eases(v, u) /\ StayReady(v, u) /\ StayListed(v, u)
           /\ Waiters(l) # <<>> =>
                \E h \in Task : k.on[h] = Blocked(l) /\ v.state[h] = "READY"
<1>1. CASE Waiters(l) = <<>>
  <2>1. v = u BY <1>1 DEF WakeFirst
  <2> QED BY <1>1, <2>1, StandingStill DEF SameClock
<1>2. CASE Waiters(l) # <<>>
  <2>1. PICK h \in Task : h = Head(Waiters(l)) BY <1>2, FirstWaiter
  <2>2. k.on[h] = Blocked(l) BY <1>2, <2>1, WaitersPoint DEF Waiters
  <2>3. h # Idle BY <2>2, ListsApart, TasksAssumption
  <2>4. v = SetTaskState(u, h, "READY")
    BY <1>2, <2>1 DEF WakeFirst, UnblockTask
  <2>5. "READY" \in State \ {"BLOCKED"} BY DEF State
  <2>6. /\ Queued(v) /\ SameClock(v, u) /\ v.prio = u.prio
        /\ Eases(v, u) /\ StayReady(v, u) /\ StayListed(v, u)
        /\ v.state[h] = "READY"
    BY <2>3, <2>4, <2>5, SettingEases
  <2> QED BY <2>2, <2>6
<1> QED BY <1>1, <1>2

\* tasks_blockTask, for a task that is not on the list already.
LEMMA BlockingMoves ==
    ASSUME NEW kernel, Queued(kernel), NEW t \in Task, NEW l \in Lock,
           kernel.on[t] # Blocked(l), NEW u, u = BlockTask(kernel, t, l)
    PROVE  /\ u.state = [kernel.state EXCEPT ![t] = "BLOCKED"]
           /\ Moves(u, kernel, t, Blocked(l))
           /\ SameClock(u, kernel) /\ u.prio = kernel.prio
<1>1. PICK v : v = SetTaskState(kernel, t, "BLOCKED") OBVIOUS
<1>2. "BLOCKED" \in State BY DEF State
<1>3. /\ Queued(v) /\ v.state = [kernel.state EXCEPT ![t] = "BLOCKED"]
      /\ Moves(v, kernel, t, Target("BLOCKED", kernel.prio[t]))
      /\ v.prio = kernel.prio
      /\ v.cur = kernel.cur /\ v.next = kernel.next
      /\ v.qtl = kernel.qtl /\ v.tql = kernel.tql
  BY <1>1, <1>2, SettingState
<1>4. v.on = [kernel.on EXCEPT ![t] = NoList] /\ kernel.on \in OnType
  <2>1. Target("BLOCKED", kernel.prio[t]) = NoList BY DEF Target
  <2>2. kernel.on \in OnType BY DEF Queued, KernelState, OnType
  <2> QED BY <1>3, <2>1, <2>2 DEF Moves
<1>5. PICK b \in ListName : b = Blocked(l) BY ListNames
<1>6. u = ListAddBack(v, b, t) BY <1>1, <1>5 DEF BlockTask
<1>7. v.on[t] = NoList BY <1>4 DEF OnType
<1>8. SameFields(u, v) /\ u.on = [v.on EXCEPT ![t] = b]
  BY <1>3, <1>6, <1>7, Adding
<1>9. u.on = [kernel.on EXCEPT ![t] = b]
  BY <1>4, <1>8 DEF OnType
<1> QED BY <1>3, <1>5, <1>8, <1>9 DEF SameFields, SameClock, Moves

\* tasks_switchTask, whoever runs it: it blocks nobody, and the task it dispatches
\* is on a ready list, unless the quantum of the task that runs is not used up.
LEMMA SwitchEases ==
    ASSUME Queued(k), k.next = k.cur, k.on[Idle] = Ready(0), Switch
    PROVE  /\ Queued(k') /\ k'.prio = k.prio /\ k'.next = k'.cur
           /\ Eases(k', k) /\ StayReady(k', k) /\ StayListed(k', k)
           /\ Ranked(k', k'.cur) \/ (k'.cur = k.cur /\ ~(k.tql = 0 /\ k.qtl = 0))
           /\ \A t \in Task : k'.state[t] \in {k.state[t], "READY"}
<1>1. PICK counted : counted = CountTick(k) OBVIOUS
<1>2. k' = Dispatch(counted) BY <1>1 DEF Switch
<1>3. /\ Queued(counted) /\ OnlyWakes(counted, k)
      /\ counted.prio = k.prio /\ counted.cur = k.cur /\ counted.next = k.next
      /\ \A t \in Task : counted.state[t] \in {k.state[t], "READY"}
      /\ IF k.qtl # 0 THEN counted.qtl = k.qtl - 1 /\ counted.tql = k.tql
         ELSE /\ counted.qtl = TickRate
              /\ counted.tql = IF k.tql > 0 THEN k.tql - 1 ELSE 0
  BY <1>1, CountingTick
<1>4. /\ Queued(k') /\ k'.state = counted.state /\ k'.prio = counted.prio
      /\ k'.on = counted.on /\ k'.next = k'.cur
      /\ \/ /\ k'.cur = counted.next /\ k'.tql = counted.tql
            /\ counted.tql = 0 => \A t \in Task : ~Ranked(counted, t)
         \/ Ranked(counted, k'.cur)
  BY <1>2, <1>3, Dispatching
<1>5. k.prio \in [Task -> 0..NumPriorities] BY DEF Queued, KernelState
<1>6. OnlyWakes(k', k) BY <1>3, <1>4 DEF OnlyWakes
<1>7. \A t \in Task, l \in Lock : Ready(k.prio[t]) # Blocked(l)
  BY <1>5, ListsApart
<1>8. Idle \in Task /\ Ready(0) # Sleeping BY ListsApart, TasksAssumption
<1>9. Eases(k', k) BY <1>6, <1>7, <1>8 DEF OnlyWakes, Eases
<1>10. StayReady(k', k) /\ StayListed(k', k)
  BY <1>6 DEF OnlyWakes, StayReady, StayListed
<1>11. Ranked(counted, Idle)
  <2>1. counted.on[Idle] = Ready(0) BY <1>3, <1>8 DEF OnlyWakes
  <2> QED BY <2>1, ListsApart DEF Ranked
<1>12. Ranked(k', k'.cur) \/ (k'.cur = k.cur /\ ~(k.tql = 0 /\ k.qtl = 0))
  <2>1. CASE Ranked(counted, k'.cur) BY <1>4, <2>1 DEF Ranked
  <2>2. CASE k'.cur = counted.next /\ counted.tql # 0
    BY <1>3, <2>2
  <2> QED BY <1>4, <1>8, <1>11, <2>1, <2>2
<1> QED BY <1>3, <1>4, <1>9, <1>10, <1>12

-----------------------------------------------------------------------------
\* Idle never waits, is never rescheduled and never owns a mutex, so there is
\* always a ready task to dispatch.
IdleReady ==
    /\ k.on[Idle] = Ready(0) /\ k.state[Idle] = "READY"
    /\ pc[Idle] = "run"
    /\ \A l \in Lock : lock[l].owner # Idle

InLoops == \A t \in Task : pc[t] \in {"new", "run"} => todo[t] = "none"

\* A task on the list of a lock is blocked, in the loop that waits for that lock.
WaitersWait ==
    \A t \in Task, l \in Lock :
       k.on[t] = Blocked(l) => k.state[t] = "BLOCKED" /\ todo[t] = l

\* A blocked task is on the list of the lock it waits for, or was taken off it by
\* a change of its priority; it runs no further than to the end of its quantum.
BlockedWait ==
    \A t \in Task : k.state[t] = "BLOCKED" =>
       /\ todo[t] \in Lock /\ k.on[t] \in {Blocked(todo[t]), NoList}
       /\ pc[t] \in {"retry", "sleep", "yield"}
       /\ t = k.cur => \/ pc[t] = "sleep"
                       \/ pc[t] = "yield" /\ k.tql = 0 /\ k.qtl = 0

WaitInv == /\ k.next = k.cur
           /\ IdleReady /\ InLoops /\ WaitersWait /\ BlockedWait

\* A task that calls, or tries for, a lock is not blocked.
LEMMA CallersRun ==
    ASSUME WaitInv, NEW t \in Task, At(t, "run") \/ At(t, "retry")
    PROVE  /\ k.state[t] # "BLOCKED"
           /\ \A l \in Lock : k.on[t] # Blocked(l)
BY DEF WaitInv, BlockedWait, WaitersWait, At

LEMMA LendingEases ==
    ASSUME LocksInv, IdleReady, NEW t \in Task, NEW l \in Lock,
           lock[l].count = 0, NEW u, u = Lend(t, l)
    PROVE  /\ Queued(u) /\ SameClock(u, k) /\ Eases(u, k) /\ StayReady(u, k)
           /\ (\A o \in Task : l \in held[o] => k.state[o] # "BLOCKED") =>
                StayListed(u, k)
           /\ \A o \in Task : held[o] = {} => u.prio[o] = k.prio[o]
<1>1. Queued(k) /\ k \in KernelState BY DEF LocksInv, KernelInv, Queued
<1>2. CASE u = k BY <1>1, <1>2, StandingStill DEF SameClock
<1>3. CASE l \in Mutex /\ u # k
  <2>1. ~Orphaned(l) BY <1>3, NeverOrphaned
  <2>2. PICK o \in Task : o = lock[l].owner /\ l \in held[o]
    BY <1>3 DEF LocksInv, Books, Owned
  <2>3. o # Idle BY <2>2 DEF IdleReady
  <2>4. PICK p \in 0..NumPriorities : p = k.prio[t] BY <1>1 DEF KernelState
  <2>5. u = SetTaskPriority(k, o, p) BY <1>3, <2>1, <2>2, <2>4 DEF Lend
  <2>6. /\ Queued(u) /\ Eases(u, k) /\ SameClock(u, k) /\ StayReady(u, k)
        /\ k.state[o] # "BLOCKED" => StayListed(u, k)
        /\ Reranks(u, k, o, p)
    BY <1>1, <2>3, <2>5, ReprioritizingEases
  <2>7. \A v \in Task \ {o} : u.prio[v] = k.prio[v]
    BY <1>1, <2>6 DEF Reranks, KernelState
  <2> QED BY <2>2, <2>6, <2>7
<1> QED BY <1>2, <1>3 DEF Lend

LEMMA ReturnedEases ==
    ASSUME LocksInv, NEW t \in Task \ {Idle}, NEW l \in Lock,
           NEW u, u = Returned(t, l)
    PROVE  /\ Queued(u) /\ SameClock(u, k) /\ Eases(u, k) /\ StayReady(u, k)
           /\ k.state[t] # "BLOCKED" => StayListed(u, k)
           /\ Reranks(u, k, t, lock[l].base)
<1>1. /\ Queued(k) /\ k \in KernelState /\ lock[l].base \in 0..NumPriorities
      /\ k.prio \in [Task -> 0..NumPriorities]
  BY DEF LocksInv, KernelInv, Queued, Books, LockType, KernelState
<1>2. CASE k.prio[t] # lock[l].base
  <2>1. u = SetTaskPriority(k, t, lock[l].base) BY <1>2 DEF Returned
  <2> QED BY <1>1, <2>1, ReprioritizingEases
<1>3. CASE k.prio[t] = lock[l].base
  <2>1. u = k BY <1>3 DEF Returned
  <2>2. Reranks(u, k, t, lock[l].base) BY <1>1, <1>3, <2>1 DEF Reranks
  <2> QED BY <1>1, <2>1, <2>2, StandingStill DEF SameClock
<1> QED BY <1>2, <1>3

\* A step after which nobody is blocked who was not.
LEMMA CalmStep ==
    ASSUME WaitInv, Eases(k', k), k'.next = k'.cur, pc'[Idle] = "run",
           \A l \in Lock : lock'[l].owner # Idle,
           \A t \in Task : pc'[t] \in {"new", "run"} => todo'[t] = "none",
           \A t \in Task : k'.state[t] = "BLOCKED" =>
              /\ todo'[t] = todo[t] /\ pc'[t] \in {"retry", "sleep", "yield"}
              /\ t = k'.cur => \/ pc'[t] = "sleep"
                               \/ pc'[t] = "yield" /\ k'.tql = 0 /\ k'.qtl = 0
    PROVE  WaitInv'
<1>1. IdleReady' BY DEF WaitInv, IdleReady, Eases
<1>2. InLoops' BY DEF InLoops
<1>3. WaitersWait'
  <2> SUFFICES ASSUME NEW t \in Task, NEW l \in Lock, k'.on[t] = Blocked(l)
               PROVE  k'.state[t] = "BLOCKED" /\ todo'[t] = l
    BY DEF WaitersWait
  <2>1. k'.state[t] = k.state[t] /\ k.on[t] = Blocked(l)
    BY ListsApart DEF Eases
  <2>2. k.state[t] = "BLOCKED" /\ todo[t] = l
    BY <2>1 DEF WaitInv, WaitersWait
  <2> QED BY <2>1, <2>2
<1>4. BlockedWait'
  <2> SUFFICES ASSUME NEW t \in Task, k'.state[t] = "BLOCKED"
               PROVE  /\ todo'[t] \in Lock
                      /\ k'.on[t] \in {Blocked(todo'[t]), NoList}
                      /\ pc'[t] \in {"retry", "sleep", "yield"}
                      /\ t = k'.cur => \/ pc'[t] = "sleep"
                                       \/ pc'[t] = "yield" /\ k'.tql = 0 /\ k'.qtl = 0
    BY DEF BlockedWait
  <2>1. k.state[t] = "BLOCKED" /\ k'.on[t] \in {k.on[t], NoList} BY DEF Eases
  <2>2. todo[t] \in Lock /\ k.on[t] \in {Blocked(todo[t]), NoList}
    BY <2>1 DEF WaitInv, BlockedWait
  <2> QED BY <2>1, <2>2
<1> QED BY <1>1, <1>2, <1>3, <1>4 DEF WaitInv

LEMMA QuietStep ==
    ASSUME WaitInv, Eases(k', k), SameClock(k', k), UNCHANGED <<pc, todo, lock>>
    PROVE  WaitInv'
<1>1. /\ pc'[Idle] = "run" /\ k'.next = k'.cur
      /\ \A l \in Lock : lock'[l].owner # Idle
  BY DEF WaitInv, IdleReady, SameClock
<1>2. \A v \in Task : pc'[v] \in {"new", "run"} => todo'[v] = "none"
  BY DEF WaitInv, InLoops
<1>3. ASSUME NEW v \in Task, k'.state[v] = "BLOCKED"
      PROVE  /\ todo'[v] = todo[v] /\ pc'[v] \in {"retry", "sleep", "yield"}
             /\ v = k'.cur => \/ pc'[v] = "sleep"
                              \/ pc'[v] = "yield" /\ k'.tql = 0 /\ k'.qtl = 0
  <2>1. k.state[v] = "BLOCKED" BY <1>3 DEF Eases
  <2> QED BY <2>1 DEF SameClock, WaitInv, BlockedWait
<1> QED BY <1>1, <1>2, <1>3, CalmStep

\* tasks_setTaskState and tasks_setTaskPriority, called by a task.
LEMMA CallEases ==
    ASSUME LocksInv, WaitInv, NEW t \in Task,
           \/ \E u \in Task, s \in ApiStates : CallSetTaskState(t, u, s)
           \/ \E u \in Task, p \in ApiPriorities : CallSetTaskPriority(t, u, p)
    PROVE  /\ Eases(k', k) /\ SameClock(k', k)
           /\ ApiPriorities = {} => StayListed(k', k)
           /\ ApiStates \subseteq {"READY"} => StayReady(k', k)
<1> DEFINE Goal == /\ Eases(k', k) /\ SameClock(k', k)
                   /\ ApiPriorities = {} => StayListed(k', k)
                   /\ ApiStates \subseteq {"READY"} => StayReady(k', k)
<1>1. Queued(k) BY DEF LocksInv, KernelInv
<1>2. ASSUME NEW u \in Task, NEW s \in ApiStates, CallSetTaskState(t, u, s)
      PROVE  Goal
  <2>1. k' = SetTaskState(k, u, s) /\ u \in Task \ {Idle}
    BY <1>2 DEF CallSetTaskState, Handle
  <2>2. s \in State \ {"BLOCKED"} BY SchedulerAssumption DEF State
  <2> QED BY <1>1, <2>1, <2>2, SettingEases
<1>3. ASSUME NEW u \in Task, NEW p \in ApiPriorities, CallSetTaskPriority(t, u, p)
      PROVE  Goal
  <2>1. k' = SetTaskPriority(k, u, p) /\ u \in Task \ {Idle} /\ p \in Nat
    BY <1>3, SchedulerAssumption DEF CallSetTaskPriority, Handle
  <2>2. CASE p > NumPriorities
    <3>1. k' = k BY <2>1, <2>2 DEF SetTaskPriority
    <3> QED BY <3>1, StandingStill DEF SameClock
  <2>3. CASE ~(p > NumPriorities)
    <3>1. p \in 0..NumPriorities BY <2>1, <2>3, TasksAssumption
    <3> QED BY <1>1, <2>1, <3>1, ReprioritizingEases
  <2> QED BY <2>2, <2>3
<1> QED BY <1>2, <1>3

LEMMA CreateEases ==
    ASSUME Queued(k), NEW t \in Task \ {Idle}, NEW p \in CreatePriorities,
           Create(t, p)
    PROVE  /\ Eases(k', k) /\ StayReady(k', k) /\ StayListed(k', k)
           /\ SameClock(k', k) /\ k'.state[t] = "READY"
<1>1. k' = CreateTask(k, t, p) /\ p \in Nat
  BY SchedulerAssumption DEF Create
<1>2. /\ Queued(k') /\ k'.state = [k.state EXCEPT ![t] = "READY"]
      /\ k'.cur = k.cur /\ k'.next = k.next /\ k'.qtl = k.qtl /\ k'.tql = k.tql
      /\ \E c \in Priority : Reranks(k', k, t, c) /\ Moves(k', k, t, Ready(c))
  BY <1>1, Creating
<1>3. PICK c \in 0..NumPriorities : Moves(k', k, t, Target("READY", c))
  <2>1. PICK c \in Priority : Moves(k', k, t, Ready(c)) BY <1>2
  <2>2. c \in 0..NumPriorities BY TasksAssumption DEF Priority
  <2>3. Target("READY", c) = Ready(c) BY DEF Target
  <2> QED BY <2>1, <2>2, <2>3
<1>4. k \in KernelState /\ k' \in KernelState BY <1>2 DEF Queued
<1>5. Eases(k', k) /\ StayReady(k', k) /\ StayListed(k', k)
  BY <1>2, <1>3, <1>4, MovingEases
<1>6. k'.state[t] = "READY" BY <1>2, <1>4 DEF KernelState
<1> QED BY <1>2, <1>5, <1>6 DEF SameClock

LEMMA SleepEases ==
    ASSUME Queued(k), k.cur # Idle, NEW n \in 0..MaxSleep, k' = SleepSection(k, n)
    PROVE  /\ Queued(k') /\ k'.prio = k.prio
           /\ k'.cur = k.cur /\ k'.next = k.next /\ k'.qtl = 0 /\ k'.tql = 0
           /\ Eases(k', k) /\ StayListed(k', k)
           /\ \A t \in Task \ {k.cur} : k'.state[t] = k.state[t]
           /\ n = 0 => StayReady(k', k) /\ k'.state = k.state
<1>1. /\ Queued(k') /\ k'.prio = k.prio
      /\ k'.cur = k.cur /\ k'.next = k.next /\ k'.qtl = 0 /\ k'.tql = 0
      /\ IF n = 0 THEN StaysPut(k', k) ELSE FallsAsleep(k', k)
  BY SleepingSection
<1>2. CASE n = 0
  <2>1. k'.state = k.state /\ k'.on = k.on BY <1>1, <1>2 DEF StaysPut
  <2> QED BY <1>1, <2>1, StandingStill
<1>3. CASE n # 0
  <2>1. /\ k'.state = [k.state EXCEPT ![k.cur] = "SLEEPING"]
        /\ Moves(k', k, k.cur, Sleeping)
    BY <1>1, <1>3 DEF FallsAsleep
  <2>2. k \in KernelState /\ k' \in KernelState /\ k.cur \in Task \ {Idle}
        /\ k.prio[k.cur] \in 0..NumPriorities
    BY <1>1 DEF Queued, KernelState
  <2>3. Target("SLEEPING", k.prio[k.cur]) = Sleeping BY DEF Target
  <2>4. Eases(k', k) /\ StayListed(k', k)
    BY <2>1, <2>2, <2>3, MovingEases
  <2>5. \A t \in Task \ {k.cur} : k'.state[t] = k.state[t]
    BY <2>1, <2>2 DEF KernelState
  <2> QED BY <1>1, <1>3, <2>4, <2>5
<1> QED BY <1>2, <1>3

\* The task dispatched by tasks_switchTask is not blocked, unless it runs on in a
\* loop that has not yet ended its quantum.
LEMMA DispatchedRuns ==
    ASSUME LocksInv, WaitInv, Switch, k'.state[k'.cur] = "BLOCKED"
    PROVE  k'.cur = k.cur /\ pc[k.cur] = "sleep"
<1>1. /\ Queued(k) /\ k.next = k.cur /\ k.on[Idle] = Ready(0) /\ BlockedWait
  BY DEF LocksInv, KernelInv, WaitInv, IdleReady
<1>2. /\ Queued(k') /\ Eases(k', k) /\ StayListed(k', k)
      /\ Ranked(k', k'.cur) \/ (k'.cur = k.cur /\ ~(k.tql = 0 /\ k.qtl = 0))
  BY <1>1, SwitchEases
<1>3. PICK t \in Task : t = k'.cur BY <1>2 DEF Queued, KernelState
<1>4. k.state[t] = "BLOCKED" /\ k'.on[t] = k.on[t]
  BY <1>2, <1>3 DEF StayListed
<1>5. /\ todo[t] \in Lock /\ k.on[t] \in {Blocked(todo[t]), NoList}
      /\ t = k.cur => \/ pc[t] = "sleep"
                      \/ pc[t] = "yield" /\ k.tql = 0 /\ k.qtl = 0
  BY <1>1, <1>4 DEF BlockedWait
<1>6. \A p \in Priority : p \in 0..NumPriorities
  BY TasksAssumption DEF Priority
<1>7. ~Ranked(k', t) BY <1>4, <1>5, <1>6, ListsApart DEF Ranked
<1> QED BY <1>2, <1>3, <1>5, <1>7

LEMMA NobodyWaits ==
    ASSUME Init, \A l \in Lock : lock[l].owner = NoTask
    PROVE  WaitInv
<1>1. k = InitialKernel BY DEF Init
<1>2. IdleReady
  <2>1. pc[Idle] = "run" BY TasksAssumption DEF Init
  <2> QED BY <1>1, <2>1, InitialConsistent, LocksAssumption, TasksAssumption
          DEF IdleReady
<1>3. InLoops BY DEF Init, InLoops
<1>4. WaitersWait
  <2>1. \A t \in Task : k.on[t] \in {Ready(0), NoList} BY <1>1, InitialConsistent
  <2>2. 0 \in 0..NumPriorities BY TasksAssumption
  <2>3. \A l \in Lock : Blocked(l) # Ready(0) /\ Blocked(l) # NoList
    BY <2>2, ListsApart
  <2> QED BY <2>1, <2>3 DEF WaitersWait
<1>5. BlockedWait BY <1>1, InitialConsistent DEF BlockedWait
<1> QED BY <1>1, <1>2, <1>3, <1>4, <1>5, InitialConsistent DEF WaitInv

\* Blocking: the caller was not blocked, and is now on the list of l.
LEMMA BlockWaits ==
    ASSUME LocksInv, WaitInv, NEW t \in Task, NEW l \in Lock, Block(t, l)
    PROVE  /\ WaitInv' /\ lock' = lock
           /\ t # Idle /\ k.state[t] # "BLOCKED" /\ lock[l].count = 0
           /\ \E lent \in {Lend(t, l)} :
                /\ Queued(lent) /\ k'.prio = lent.prio
                /\ k'.state[t] = "BLOCKED" /\ k'.on[t] = Blocked(l)
                /\ \A v \in Task \ {t} : /\ k'.state[v] = lent.state[v]
                                         /\ k'.on[v] = lent.on[v]
<1>1. /\ At(t, "run") \/ At(t, "retry")
      /\ t = k.cur /\ t # Idle /\ lock[l].count = 0
  <2>1. Tries(t, l) /\ ~Available(t, l) BY DEF Block
  <2>2. (At(t, "run") /\ t # Idle) \/ At(t, "retry") BY <2>1 DEF Tries
  <2>3. lock[l].count \in Nat BY DEF LocksInv, Books, LockType
  <2> QED BY <2>1, <2>2, <2>3 DEF Available, At, WaitInv, IdleReady
<1>2. lock' = lock
  <2>1. l \in Mutex => ~Orphaned(l) BY <1>1, NeverOrphaned
  <2> QED BY <2>1 DEF Block
<1>3. k.state[t] # "BLOCKED" /\ \A m \in Lock : k.on[t] # Blocked(m)
  BY <1>1, CallersRun
<1>4. PICK lent : lent = Lend(t, l) OBVIOUS
<1>5. Queued(lent) /\ SameClock(lent, k) /\ Eases(lent, k)
  BY <1>1, <1>4, LendingEases DEF WaitInv
<1>6. lent.on[t] # Blocked(l) BY <1>3, <1>5 DEF Eases
<1>7. k' = BlockTask(lent, t, l) BY <1>4 DEF Block
<1>8. /\ k'.state = [lent.state EXCEPT ![t] = "BLOCKED"]
      /\ Moves(k', lent, t, Blocked(l))
      /\ SameClock(k', lent) /\ k'.prio = lent.prio
  BY <1>5, <1>6, <1>7, BlockingMoves
<1>9. /\ k'.state[t] = "BLOCKED" /\ k'.on[t] = Blocked(l)
      /\ \A v \in Task \ {t} : k'.state[v] = lent.state[v] /\ k'.on[v] = lent.on[v]
  BY <1>5, <1>8 DEF Queued, KernelState, Moves
<1>10. /\ pc' = [pc EXCEPT ![t] = "sleep"] /\ todo' = [todo EXCEPT ![t] = l]
       /\ pc \in [Task -> Label] /\ todo \in [Task -> Loop]
  BY DEF Block, Goto, LocksInv, KernelInv
<1>11. /\ pc'[t] = "sleep" /\ todo'[t] = l
       /\ \A v \in Task \ {t} : pc'[v] = pc[v] /\ todo'[v] = todo[v]
  BY <1>10
<1>12. k'.cur = t /\ k'.next = t
  BY <1>1, <1>5, <1>8 DEF SameClock, WaitInv
<1>13. IdleReady'
  <2>1. Idle \in Task \ {t} BY <1>1, TasksAssumption
  <2> QED BY <2>1, <1>2, <1>5, <1>9, <1>11 DEF IdleReady, WaitInv, Eases
<1>14. InLoops' BY <1>11 DEF InLoops, WaitInv
<1>15. WaitersWait'
  <2> SUFFICES ASSUME NEW v \in Task, NEW m \in Lock, k'.on[v] = Blocked(m)
               PROVE  k'.state[v] = "BLOCKED" /\ todo'[v] = m
    BY DEF WaitersWait
  <2>1. CASE v = t
    <3>1. Blocked(l) = Blocked(m) BY <1>9, <2>1
    <3>2. m = l BY <3>1, ListsApart
    <3> QED BY <2>1, <3>2, <1>9, <1>11
  <2>2. CASE v # t
    <3>1. lent.on[v] = Blocked(m) BY <2>2, <1>9
    <3>2. lent.state[v] = k.state[v] /\ k.on[v] = Blocked(m)
      BY <3>1, <1>5, ListsApart DEF Eases
    <3>3. k.state[v] = "BLOCKED" /\ todo[v] = m
      BY <3>2 DEF WaitInv, WaitersWait
    <3> QED BY <2>2, <3>2, <3>3, <1>9, <1>11
  <2> QED BY <2>1, <2>2
<1>16. BlockedWait'
  <2> SUFFICES ASSUME NEW v \in Task, k'.state[v] = "BLOCKED"
               PROVE  /\ todo'[v] \in Lock
                      /\ k'.on[v] \in {Blocked(todo'[v]), NoList}
                      /\ pc'[v] \in {"retry", "sleep", "yield"}
                      /\ v = k'.cur => \/ pc'[v] = "sleep"
                                       \/ pc'[v] = "yield" /\ k'.tql = 0 /\ k'.qtl = 0
    BY DEF BlockedWait
  <2>1. CASE v = t BY <2>1, <1>9, <1>11
  <2>2. CASE v # t
    <3>1. lent.state[v] = "BLOCKED" BY <2>2, <1>9
    <3>2. k.state[v] = "BLOCKED" /\ lent.on[v] \in {k.on[v], NoList}
      BY <3>1, <1>5 DEF Eases
    <3>3. /\ todo[v] \in Lock /\ k.on[v] \in {Blocked(todo[v]), NoList}
          /\ pc[v] \in {"retry", "sleep", "yield"}
      BY <3>2 DEF WaitInv, BlockedWait
    <3> QED BY <2>2, <3>2, <3>3, <1>9, <1>11, <1>12
  <2> QED BY <2>1, <2>2
<1>17. WaitInv' BY <1>12, <1>13, <1>14, <1>15, <1>16 DEF WaitInv
<1> QED BY <1>1, <1>2, <1>3, <1>4, <1>5, <1>8, <1>9, <1>17

\* Taking a lock: the caller is not blocked, and leaves the loop if it was in one.
LEMMA AcquireWaits ==
    ASSUME LocksInv, WaitInv, NEW t \in Task, NEW l \in Lock, Acquire(t, l)
    PROVE  WaitInv'
<1>1. (At(t, "run") /\ t # Idle) \/ At(t, "retry")
  BY DEF Acquire, Tries
<1>2. t # Idle /\ k.state[t] # "BLOCKED"
  BY <1>1, CallersRun DEF WaitInv, IdleReady, At
<1>3. /\ k' = k /\ pc' = [pc EXCEPT ![t] = "run"] /\ todo' = [todo EXCEPT ![t] = "none"]
      /\ pc \in [Task -> Label] /\ todo \in [Task -> Loop]
  BY DEF Acquire, Goto, LocksInv, KernelInv
<1>4. /\ pc'[t] = "run" /\ todo'[t] = "none"
      /\ \A v \in Task \ {t} : pc'[v] = pc[v] /\ todo'[v] = todo[v]
  BY <1>3
<1>5. \A m \in Lock : lock'[m].owner # Idle
  <2>1. lock \in LockType /\ (\A m \in Lock : lock[m].owner # Idle)
    BY DEF LocksInv, Books, WaitInv, IdleReady
  <2>2. CASE l \in Mutex
    <3>1. lock' = [lock EXCEPT ![l] = [count |-> lock[l].count - 1,
                                       base |-> k.prio[t], owner |-> t]]
      BY <2>2 DEF Acquire
    <3> QED BY <1>2, <2>1, <3>1 DEF LockType
  <2>3. CASE l \notin Mutex
    <3>1. lock' = [lock EXCEPT ![l].count = lock[l].count - 1]
      BY <2>3 DEF Acquire
    <3> QED BY <2>1, <3>1 DEF LockType
  <2> QED BY <2>2, <2>3
<1>6. Eases(k', k) BY <1>3, StandingStill
<1>7. Idle \in Task \ {t} /\ pc'[Idle] = "run"
  BY <1>2, <1>4, TasksAssumption DEF WaitInv, IdleReady
<1>8. \A v \in Task : pc'[v] \in {"new", "run"} => todo'[v] = "none"
  BY <1>4 DEF WaitInv, InLoops
<1>9. ASSUME NEW v \in Task, k'.state[v] = "BLOCKED"
      PROVE  /\ todo'[v] = todo[v] /\ pc'[v] \in {"retry", "sleep", "yield"}
             /\ v = k'.cur => \/ pc'[v] = "sleep"
                              \/ pc'[v] = "yield" /\ k'.tql = 0 /\ k'.qtl = 0
  BY <1>2, <1>3, <1>4, <1>9 DEF WaitInv, BlockedWait
<1>10. k'.next = k'.cur BY <1>3 DEF WaitInv
<1> QED BY <1>5, <1>6, <1>7, <1>8, <1>9, <1>10, CalmStep

\* Signalling: an owner may get its priority back, a waiter may be woken.
LEMMA SignalWaits ==
    ASSUME LocksInv, WaitInv, NEW t \in Task, NEW l \in Lock, Signal(t, l)
    PROVE  /\ WaitInv' /\ k.state[t] # "BLOCKED"
           /\ UNCHANGED <<pc, todo>>
           /\ Eases(k', k) /\ StayReady(k', k) /\ StayListed(k', k)
           /\ Waiters(l) # <<>> =>
                \E h \in Task : k.on[h] = Blocked(l) /\ k'.state[h] = "READY"
<1>1. /\ At(t, "run") /\ UNCHANGED <<pc, todo>>
      /\ Queued(k) /\ k.on[Idle] = Ready(0) /\ lock \in LockType
  BY DEF Signal, UnlockOwned, UnlockForeign, SignalSemaphore, lockVars,
         LocksInv, KernelInv, Books, WaitInv, IdleReady
<1>2. k.state[t] # "BLOCKED" BY <1>1, CallersRun
<1>3. PICK back : back = IF UnlockOwned(t, l) THEN Returned(t, l) ELSE k OBVIOUS
<1>4. /\ Queued(back) /\ SameClock(back, k)
      /\ Eases(back, k) /\ StayReady(back, k) /\ StayListed(back, k)
  <2>1. CASE UnlockOwned(t, l)
    <3>1. t # Idle
      BY <2>1, LocksAssumption DEF UnlockOwned, WaitInv, IdleReady
    <3> QED BY <1>2, <1>3, <2>1, <3>1, ReturnedEases
  <2>2. CASE ~UnlockOwned(t, l)
    BY <1>1, <1>3, <2>2, StandingStill DEF SameClock
  <2> QED BY <2>1, <2>2
<1>5. k' = WakeFirst(back, l)
  BY <1>3 DEF Signal, UnlockOwned, UnlockForeign, SignalSemaphore
<1>6. /\ Queued(k') /\ SameClock(k', back)
      /\ Eases(k', back) /\ StayReady(k', back) /\ StayListed(k', back)
      /\ Waiters(l) # <<>> =>
           \E h \in Task : k.on[h] = Blocked(l) /\ k'.state[h] = "READY"
  BY <1>1, <1>4, <1>5, WakingEases
<1>7. /\ Eases(k', k) /\ StayReady(k', k) /\ StayListed(k', k)
      /\ SameClock(k', k)
  <2>1. Eases(k', k) BY <1>4, <1>6, EasingTwice
  <2> QED BY <2>1, <1>4, <1>6 DEF StayReady, StayListed, SameClock
<1>8. \A m \in Lock : lock'[m].owner # Idle
  <2>0. \A m \in Lock : lock[m].owner # Idle BY DEF WaitInv, IdleReady
  <2>1. CASE UnlockOwned(t, l)
    <3>1. PICK r : lock' = [lock EXCEPT ![l] = r] /\ r = Released(t, l)
      BY <2>1 DEF UnlockOwned
    <3>2. r.owner \in {NoTask, lock[l].owner}
      BY <1>1, <3>1 DEF Released, LockType
    <3>3. r.owner # Idle
      BY <2>0, <3>2, LocksAssumption, TasksAssumption
    <3> QED BY <1>1, <2>0, <3>1, <3>3 DEF LockType
  <2>2. CASE UnlockForeign(t, l)
    BY <2>0, <2>2 DEF UnlockForeign, lockVars
  <2>3. CASE SignalSemaphore(t, l)
    <3>1. lock' = [lock EXCEPT ![l].count = lock[l].count + 1]
      BY <2>3 DEF SignalSemaphore
    <3> QED BY <1>1, <2>0, <3>1 DEF LockType
  <2> QED BY <2>1, <2>2, <2>3 DEF Signal
<1>9. WaitInv'
  <2>1. pc'[Idle] = "run" /\ k'.next = k'.cur
    BY <1>1, <1>7 DEF WaitInv, IdleReady, SameClock
  <2>2. \A v \in Task : pc'[v] \in {"new", "run"} => todo'[v] = "none"
    BY <1>1 DEF WaitInv, InLoops
  <2>3. ASSUME NEW v \in Task, k'.state[v] = "BLOCKED"
        PROVE  /\ todo'[v] = todo[v] /\ pc'[v] \in {"retry", "sleep", "yield"}
               /\ v = k'.cur => \/ pc'[v] = "sleep"
                                \/ pc'[v] = "yield" /\ k'.tql = 0 /\ k'.qtl = 0
    <3>1. k.state[v] = "BLOCKED" BY <1>7, <2>3 DEF StayListed
    <3> QED BY <3>1, <1>1, <1>7 DEF SameClock, WaitInv, BlockedWait
  <2> QED BY <1>7, <1>8, <2>1, <2>2, <2>3, CalmStep
<1> QED BY <1>1, <1>2, <1>6, <1>7, <1>9

\* Steps that are no part of a call that waits or signals.
OtherStep == \/ Boot \/ Tick
             \/ \E t \in Task : Calls(t) \/ LoopSleep(t) \/ Yield(t)

\* They wake and put to sleep, but do not touch a task that tries again.
LEMMA OtherWaits ==
    ASSUME LocksInv, WaitInv, OtherStep, lock' = lock
    PROVE  /\ WaitInv' /\ Eases(k', k) /\ todo' = todo
           /\ ApiPriorities = {} => StayListed(k', k)
           /\ ApiStates \subseteq {"READY"} =>
                \A t \in Task : k.state[t] = "READY" /\ todo[t] # "none" =>
                                   k'.state[t] = "READY"
<1> DEFINE Goal ==
       /\ WaitInv' /\ Eases(k', k) /\ todo' = todo
       /\ ApiPriorities = {} => StayListed(k', k)
       /\ ApiStates \subseteq {"READY"} =>
            \A t \in Task : k.state[t] = "READY" /\ todo[t] # "none" =>
                               k'.state[t] = "READY"
<1>1. /\ Queued(k) /\ pc \in [Task -> Label] /\ todo \in [Task -> Loop]
      /\ k.next = k.cur /\ k.on[Idle] = Ready(0) /\ Idle \in Task
      /\ pc[Idle] = "run" /\ \A l \in Lock : lock'[l].owner # Idle
  BY TasksAssumption DEF LocksInv, KernelInv, WaitInv, IdleReady
<1>2. ASSUME Eases(k', k), SameClock(k', k), UNCHANGED <<pc, todo>> PROVE WaitInv'
  BY <1>2, QuietStep
<1>3. ASSUME NEW t \in Task, NEW p \in CreatePriorities, Create(t, p) PROVE Goal
  <2>1. /\ pc[t] = "new" /\ pc' = [pc EXCEPT ![t] = "run"] /\ todo' = todo
    BY <1>3 DEF Create, Goto
  <2>2. t \in Task \ {Idle} BY <1>1, <2>1
  <2>3. /\ Eases(k', k) /\ StayReady(k', k) /\ StayListed(k', k)
        /\ SameClock(k', k) /\ k'.state[t] = "READY"
    BY <1>1, <1>3, <2>2, CreateEases
  <2>4. /\ pc'[t] = "run" /\ \A v \in Task \ {t} : pc'[v] = pc[v] BY <1>1, <2>1
  <2>5. todo[t] = "none" BY <2>1 DEF WaitInv, InLoops
  <2>6. WaitInv'
    <3>1. pc'[Idle] = "run" /\ k'.next = k'.cur
      BY <1>1, <2>2, <2>3, <2>4 DEF SameClock
    <3>2. \A v \in Task : pc'[v] \in {"new", "run"} => todo'[v] = "none"
      BY <2>1, <2>4, <2>5 DEF WaitInv, InLoops
    <3>3. ASSUME NEW v \in Task, k'.state[v] = "BLOCKED"
          PROVE  /\ todo'[v] = todo[v] /\ pc'[v] \in {"retry", "sleep", "yield"}
                 /\ v = k'.cur => \/ pc'[v] = "sleep"
                                  \/ pc'[v] = "yield" /\ k'.tql = 0 /\ k'.qtl = 0
      <4>1. v # t /\ k.state[v] = "BLOCKED" BY <2>3, <3>3 DEF StayListed
      <4> QED BY <4>1, <2>1, <2>3, <2>4 DEF SameClock, WaitInv, BlockedWait
    <3> QED BY <1>1, <2>3, <3>1, <3>2, <3>3, CalmStep
  <2> QED BY <2>1, <2>3, <2>6 DEF StayReady
<1>4. CASE StartScheduler
  <2>1. k' = k /\ UNCHANGED <<pc, todo>> BY <1>4 DEF StartScheduler
  <2>2. Eases(k', k) /\ StayListed(k', k) /\ StayReady(k', k) /\ SameClock(k', k)
    BY <2>1, StandingStill DEF SameClock
  <2> QED BY <1>2, <2>1, <2>2 DEF StayReady
<1>5. ASSUME Switch,
             \/ UNCHANGED <<pc, todo>>
             \/ \E t \in Task :
                  /\ At(t, "yield") /\ todo' = todo
                  /\ Goto(t, IF todo[t] = "none" THEN "run" ELSE "retry")
      PROVE  Goal
  <2>1. /\ k'.next = k'.cur /\ Eases(k', k) /\ StayReady(k', k) /\ StayListed(k', k)
    BY <1>1, <1>5, SwitchEases
  <2>2. k'.state[k'.cur] = "BLOCKED" => k'.cur = k.cur /\ pc[k.cur] = "sleep"
    BY <1>5, DispatchedRuns
  <2>3. todo' = todo BY <1>5
  <2>4. PICK t \in Task :
           /\ pc' = [pc EXCEPT ![t] = pc'[t]]
           /\ pc'[t] # pc[t] => /\ pc[t] = "yield"
                                /\ pc'[t] = IF todo[t] = "none" THEN "run" ELSE "retry"
    <3>1. CASE pc' = pc
      <4>1. pc' = [pc EXCEPT ![Idle] = pc'[Idle]] BY <1>1, <3>1
      <4> QED BY <4>1, <1>1, <3>1
    <3>2. CASE pc' # pc
      <4>1. PICK t \in Task :
               /\ At(t, "yield")
               /\ Goto(t, IF todo[t] = "none" THEN "run" ELSE "retry")
        BY <1>5, <3>2
      <4>2. PICK r : /\ pc' = [pc EXCEPT ![t] = r]
                     /\ r = IF todo[t] = "none" THEN "run" ELSE "retry"
        BY <4>1 DEF Goto
      <4>3. pc'[t] = r BY <1>1, <4>2
      <4> QED BY <4>1, <4>2, <4>3 DEF At
    <3> QED BY <3>1, <3>2
  <2>5. \A v \in Task \ {t} : pc'[v] = pc[v] BY <1>1, <2>4
  <2>6. WaitInv'
    <3>1. pc'[Idle] = "run" BY <1>1, <2>4, <2>5
    <3>2. ASSUME NEW v \in Task, pc'[v] \in {"new", "run"} PROVE todo'[v] = "none"
      <4>1. CASE pc'[v] = pc[v] BY <4>1, <2>3, <3>2 DEF WaitInv, InLoops
      <4>2. CASE pc'[v] # pc[v] BY <4>2, <2>3, <2>4, <2>5, <3>2
      <4> QED BY <4>1, <4>2
    <3>3. ASSUME NEW v \in Task, k'.state[v] = "BLOCKED"
          PROVE  /\ todo'[v] = todo[v] /\ pc'[v] \in {"retry", "sleep", "yield"}
                 /\ v = k'.cur => \/ pc'[v] = "sleep"
                                  \/ pc'[v] = "yield" /\ k'.tql = 0 /\ k'.qtl = 0
      <4>1. k.state[v] = "BLOCKED" BY <2>1, <3>3 DEF StayListed
      <4>2. todo[v] \in Lock /\ pc[v] \in {"retry", "sleep", "yield"}
        BY <4>1 DEF WaitInv, BlockedWait
      <4>3. todo[v] # "none" BY <4>2, SchedulerAssumption
      <4>4. pc'[v] \in {pc[v], "retry"} /\ (pc'[v] # pc[v] => pc[v] = "yield")
        BY <2>4, <2>5, <4>3
      <4>5. v = k'.cur => pc'[v] = "sleep"
        BY <2>2, <3>3, <4>4
      <4> QED BY <2>3, <4>2, <4>4, <4>5
    <3> QED BY <1>1, <2>1, <3>1, <3>2, <3>3, CalmStep
  <2> QED BY <2>1, <2>3, <2>6 DEF StayReady
<1>6. ASSUME NEW t \in Task,
             \/ \E u \in Task, s \in ApiStates : CallSetTaskState(t, u, s)
             \/ \E u \in Task, p \in ApiPriorities : CallSetTaskPriority(t, u, p)
      PROVE  Goal
  <2>1. /\ Eases(k', k) /\ SameClock(k', k)
        /\ ApiPriorities = {} => StayListed(k', k)
        /\ ApiStates \subseteq {"READY"} => StayReady(k', k)
    BY <1>6, CallEases
  <2>2. UNCHANGED <<pc, todo>>
    BY <1>6 DEF CallSetTaskState, CallSetTaskPriority
  <2> QED BY <1>2, <2>1, <2>2 DEF StayReady
<1>7. ASSUME NEW t \in Task, NEW n \in 0..MaxSleep,
             t = k.cur, t # Idle, k' = SleepSection(k, n), Goto(t, "yield"),
             todo' = todo, n = 0 \/ pc[t] = "run"
      PROVE  Goal
  <2>1. /\ k'.cur = k.cur /\ k'.next = k.next /\ k'.qtl = 0 /\ k'.tql = 0
        /\ Eases(k', k) /\ StayListed(k', k)
        /\ \A v \in Task \ {t} : k'.state[v] = k.state[v]
        /\ n = 0 => StayReady(k', k)
    BY <1>1, <1>7, SleepEases
  <2>2. pc'[t] = "yield" /\ \A v \in Task \ {t} : pc'[v] = pc[v]
    BY <1>1, <1>7 DEF Goto
  <2>3. pc[t] = "run" => todo[t] = "none" BY DEF WaitInv, InLoops
  <2>4. WaitInv'
    <3>1. pc'[Idle] = "run" /\ k'.next = k'.cur BY <1>1, <1>7, <2>1, <2>2
    <3>2. \A v \in Task : pc'[v] \in {"new", "run"} => todo'[v] = "none"
      BY <1>7, <2>2 DEF WaitInv, InLoops
    <3>3. ASSUME NEW v \in Task, k'.state[v] = "BLOCKED"
          PROVE  /\ todo'[v] = todo[v] /\ pc'[v] \in {"retry", "sleep", "yield"}
                 /\ v = k'.cur => \/ pc'[v] = "sleep"
                                  \/ pc'[v] = "yield" /\ k'.tql = 0 /\ k'.qtl = 0
      <4>1. k.state[v] = "BLOCKED" BY <2>1, <3>3 DEF StayListed
      <4>2. pc[v] \in {"retry", "sleep", "yield"} BY <4>1 DEF WaitInv, BlockedWait
      <4> QED BY <4>2, <1>7, <2>1, <2>2
    <3> QED BY <1>1, <2>1, <3>1, <3>2, <3>3, CalmStep
  <2>5. ASSUME NEW v \in Task, k.state[v] = "READY", todo[v] # "none"
        PROVE  k'.state[v] = "READY"
    BY <1>7, <2>1, <2>3, <2>5 DEF StayReady
  <2> QED BY <1>7, <2>1, <2>4, <2>5
<1> HIDE DEF Goal
<1>8. ASSUME NEW t \in Task, Calls(t) \/ LoopSleep(t) PROVE Goal
  <2>1. ASSUME NEW n \in SleepTimes, CallSleep(t, n) PROVE Goal
    <3>1. n \in 0..MaxSleep BY SchedulerAssumption
    <3> QED BY <2>1, <3>1, <1>7 DEF CallSleep, At, Goal
  <2>2. CASE LoopSleep(t)
    <3>1. 0 \in 0..MaxSleep BY TasksAssumption
    <3>2. t # Idle BY <1>1, <2>2 DEF LoopSleep, At
    <3> QED BY <2>2, <3>1, <3>2, <1>7 DEF LoopSleep, At, Goal
  <2> QED BY <1>6, <1>8, <2>1, <2>2 DEF Calls, Goal
<1>9. CASE Boot BY <1>3, <1>4, <1>9 DEF Boot, Goal
<1>10. CASE Tick
  <2>1. Switch /\ UNCHANGED <<pc, todo>> BY <1>10 DEF Tick
  <2> QED BY <2>1, <1>5 DEF Goal
<1>11. ASSUME NEW t \in Task, Yield(t) PROVE Goal
  <2>1. /\ Switch /\ At(t, "yield") /\ todo' = todo
        /\ Goto(t, IF todo[t] = "none" THEN "run" ELSE "retry")
    BY <1>11 DEF Yield
  <2> QED BY <2>1, <1>5 DEF Goal
<1>12. Goal
  <2>1. CASE \E t \in Task : Calls(t) \/ LoopSleep(t) \/ Yield(t)
    BY <2>1, <1>8, <1>11
  <2> QED BY <2>1, <1>9, <1>10 DEF OtherStep, Goal
<1> QED BY <1>12 DEF Goal

LEMMA StepKinds ==
    ASSUME LocksNext
    PROVE  \/ OtherStep /\ lock' = lock
           \/ \E t \in Task, l \in Lock :
                 Acquire(t, l) \/ Block(t, l) \/ Signal(t, l)
BY DEF LocksNext, OtherStep, KernelCode, Wait, lockVars

LEMMA WaitSteps ==
    ASSUME LocksInv, WaitInv, [LocksNext]_allVars
    PROVE  WaitInv'
<1>1. CASE LocksNext
  <2>1. CASE OtherStep /\ lock' = lock BY <2>1, OtherWaits
  <2>2. ASSUME NEW t \in Task, NEW l \in Lock,
               Acquire(t, l) \/ Block(t, l) \/ Signal(t, l)
        PROVE  WaitInv'
    BY <2>2, AcquireWaits, BlockWaits, SignalWaits
  <2> QED BY <1>1, <2>1, <2>2, StepKinds
<1>2. CASE UNCHANGED allVars
  BY <1>2 DEF allVars, vars, lockVars, WaitInv, IdleReady, InLoops, WaitersWait,
              BlockedWait
<1> QED BY <1>1, <1>2

LEMMA WaitInvariantHolds == LocksSpec => []WaitInv
<1>1. LocksInit => WaitInv BY NobodyWaits DEF LocksInit, SemaphoreInit
<1>2. LocksInv /\ WaitInv /\ [LocksNext]_allVars => WaitInv' BY WaitSteps
<1> QED BY <1>1, <1>2, LocksInvariantHolds, PTL DEF LocksSpec

-----------------------------------------------------------------------------
\* Counting wakeups.
Matched(l) == Waiters(l) # <<>> => lock[l].count <= Cardinality(Retrying(l))

LEMMA RetryingFinite ==
    ASSUME IsFiniteSet(Task), NEW l \in Lock
    PROVE  IsFiniteSet(Retrying(l)) /\ Cardinality(Retrying(l)) \in Nat
BY FS_Subset, FS_CardinalityType DEF Retrying

\* If nobody starts to wait for l and whoever tries again for it goes on trying,
\* free resources stay matched.
LEMMA StaysMatched ==
    ASSUME IsFiniteSet(Task), NEW l \in Lock, Matched(l), Queued(k), Queued(k'),
           lock[l].count \in Nat, lock'[l].count = lock[l].count,
           \A t \in Task : k'.on[t] = Blocked(l) => k.on[t] = Blocked(l),
           \A t \in Task : todo[t] = l /\ k.state[t] = "READY" =>
                              todo'[t] = l /\ k'.state[t] = "READY"
    PROVE  Matched(l)'
<1>1. Retrying(l) \subseteq Retrying(l)' BY DEF Retrying
<1>2. /\ IsFiniteSet(Retrying(l)') /\ Cardinality(Retrying(l)') \in Nat
      /\ Cardinality(Retrying(l)) \in Nat
  <2>1. Retrying(l)' \subseteq Task BY DEF Retrying
  <2> QED BY <2>1, RetryingFinite, FS_Subset, FS_CardinalityType
<1>3. Cardinality(Retrying(l)) <= Cardinality(Retrying(l)')
  BY <1>1, <1>2, FS_Subset
<1>4. Waiters(l)' # <<>> => Waiters(l) # <<>>
  BY WaitersPoint DEF Waiters
<1> QED BY <1>2, <1>3, <1>4 DEF Matched

\* A task that waits, waits for nothing else: it comes from its own code, or from
\* the loop for the same lock.
LEMMA TriesOne ==
    ASSUME WaitInv, NEW t \in Task, NEW l \in Lock, Tries(t, l)
    PROVE  /\ todo[t] \in {"none", l}
           /\ pc[t] \in {"run", "retry"} /\ (todo[t] = "none" => pc[t] = "run")
BY SchedulerAssumption DEF Tries, At, WaitInv, InLoops

\* Taking one resource takes away one task that tries again, or none.
LEMMA AcquireMatches ==
    ASSUME LocksInv, WaitInv, IsFiniteSet(Task), \A m \in Lock : Matched(m),
           NEW t \in Task, NEW l \in Lock, Acquire(t, l), NEW m \in Lock
    PROVE  Matched(m)'
<1>1. /\ Queued(k) /\ k' = k /\ lock \in LockType /\ todo \in [Task -> Loop]
      /\ todo' = [todo EXCEPT ![t] = "none"]
      /\ todo[t] \in {"none", l}
  BY TriesOne DEF LocksInv, KernelInv, Books, Acquire
<1>2. Queued(k') BY <1>1
<1>3. lock[l].count \in Nat /\ lock[m].count \in Nat BY <1>1 DEF LockType
<1>4. \A v \in Task \ {t} : todo'[v] = todo[v] BY <1>1
<1>5. /\ lock'[l].count = lock[l].count - 1
      /\ m # l => lock'[m].count = lock[m].count
  <2>1. CASE l \in Mutex
    <3>1. lock' = [lock EXCEPT ![l] = [count |-> lock[l].count - 1,
                                       base |-> k.prio[t], owner |-> t]]
      BY <2>1 DEF Acquire
    <3> QED BY <1>1, <3>1 DEF LockType
  <2>2. CASE l \notin Mutex
    <3>1. lock' = [lock EXCEPT ![l].count = lock[l].count - 1]
      BY <2>2 DEF Acquire
    <3> QED BY <1>1, <3>1 DEF LockType
  <2> QED BY <2>1, <2>2
<1>6. CASE m # l
  <2>1. \A v \in Task : todo[v] = m => v # t
    BY <1>1, <1>6, SchedulerAssumption
  <2> QED BY <1>1, <1>2, <1>3, <1>4, <1>5, <1>6, <2>1, StaysMatched
<1>7. CASE m = l
  <2>1. Retrying(l) \ {t} \subseteq Retrying(l)'
    BY <1>1, <1>4 DEF Retrying
  <2>2. /\ IsFiniteSet(Retrying(l)') /\ Cardinality(Retrying(l)') \in Nat
        /\ IsFiniteSet(Retrying(l)) /\ Cardinality(Retrying(l)) \in Nat
    <3>1. Retrying(l)' \subseteq Task BY DEF Retrying
    <3> QED BY <3>1, RetryingFinite, FS_Subset, FS_CardinalityType
  <2>3. /\ Cardinality(Retrying(l) \ {t}) \in {Cardinality(Retrying(l)),
                                              Cardinality(Retrying(l)) - 1}
        /\ Cardinality(Retrying(l) \ {t}) <= Cardinality(Retrying(l)')
    BY <2>1, <2>2, FS_RemoveElement, FS_Subset
  <2>4. Waiters(l)' = Waiters(l) BY <1>1 DEF Waiters
  <2> QED BY <1>3, <1>5, <1>7, <2>2, <2>3, <2>4 DEF Matched
<1> QED BY <1>6, <1>7

\* A signal that finds a waiter adds at most one resource and one task that tries
\* again; one that finds none leaves nobody waiting.
LEMMA SignalMatches ==
    ASSUME LocksInv, WaitInv, IsFiniteSet(Task), \A m \in Lock : Matched(m),
           Queued(k'),
           NEW t \in Task, NEW l \in Lock, Signal(t, l), NEW m \in Lock
    PROVE  Matched(m)'
<1>1. /\ Queued(k) /\ lock \in LockType /\ LocksAssumption
      /\ lock[l].count \in Nat /\ lock[m].count \in Nat
  BY LocksAssumption DEF LocksInv, KernelInv, Books, LockType
<1>2. /\ todo' = todo /\ Eases(k', k) /\ StayReady(k', k)
      /\ Waiters(l) # <<>> =>
           \E h \in Task : k.on[h] = Blocked(l) /\ k'.state[h] = "READY"
  BY SignalWaits
<1>3. /\ lock'[l].count \in Nat /\ lock'[l].count <= lock[l].count + 1
      /\ m # l => lock'[m].count = lock[m].count
  <2>1. CASE UnlockOwned(t, l)
    <3>1. PICK r : lock' = [lock EXCEPT ![l] = r] /\ r = Released(t, l)
      BY <2>1 DEF UnlockOwned
    <3>2. r.count = 1 BY <1>1, <3>1 DEF Released, LockType
    <3> QED BY <1>1, <3>1, <3>2 DEF LockType
  <2>2. CASE UnlockForeign(t, l) BY <1>1, <2>2 DEF UnlockForeign, lockVars
  <2>3. CASE SignalSemaphore(t, l)
    <3>1. lock' = [lock EXCEPT ![l].count = lock[l].count + 1]
      BY <2>3 DEF SignalSemaphore
    <3> QED BY <1>1, <3>1 DEF LockType
  <2> QED BY <2>1, <2>2, <2>3 DEF Signal
<1>4. \A n \in Lock : \A v \in Task : k'.on[v] = Blocked(n) => k.on[v] = Blocked(n)
  BY <1>2, ListsApart DEF Eases
<1>5. CASE m # l
  BY <1>1, <1>2, <1>3, <1>4, <1>5, StaysMatched DEF StayReady
<1>6. CASE m = l /\ Waiters(l) = <<>>
  <2>1. Waiters(l)' = <<>> BY <1>1, <1>4, <1>6, WaitersPoint DEF Waiters
  <2> QED BY <1>6, <2>1 DEF Matched
<1>7. CASE m = l /\ Waiters(l) # <<>>
  <2>1. PICK h \in Task : k.on[h] = Blocked(l) /\ k'.state[h] = "READY"
    BY <1>2, <1>7
  <2>2. k.state[h] = "BLOCKED" /\ todo[h] = l
    BY <2>1 DEF WaitInv, WaitersWait
  <2>3. h \notin Retrying(l) /\ Retrying(l) \cup {h} \subseteq Retrying(l)'
    BY <1>2, <2>1, <2>2 DEF Retrying, StayReady
  <2>4. /\ IsFiniteSet(Retrying(l)') /\ Cardinality(Retrying(l)') \in Nat
        /\ IsFiniteSet(Retrying(l)) /\ Cardinality(Retrying(l)) \in Nat
    <3>1. Retrying(l)' \subseteq Task BY DEF Retrying
    <3> QED BY <3>1, RetryingFinite, FS_Subset, FS_CardinalityType
  <2>5. /\ Cardinality(Retrying(l) \cup {h}) = Cardinality(Retrying(l)) + 1
        /\ Cardinality(Retrying(l) \cup {h}) <= Cardinality(Retrying(l)')
    BY <2>3, <2>4, FS_AddElement, FS_Subset
  <2>6. lock[l].count <= Cardinality(Retrying(l)) BY <1>7 DEF Matched
  <2> QED BY <1>1, <1>3, <1>7, <2>4, <2>5, <2>6 DEF Matched
<1> QED BY <1>5, <1>6, <1>7

\* A task blocks on a lock that has no resource free.
LEMMA BlockMatches ==
    ASSUME LocksInv, WaitInv, IsFiniteSet(Task), \A m \in Lock : Matched(m),
           Queued(k'),
           NEW t \in Task, NEW l \in Lock, Block(t, l), NEW m \in Lock
    PROVE  Matched(m)'
<1>1. /\ Queued(k) /\ lock[m].count \in Nat /\ IdleReady
      /\ todo \in [Task -> Loop] /\ todo' = [todo EXCEPT ![t] = l]
      /\ todo[t] \in {"none", l}
  BY TriesOne DEF LocksInv, KernelInv, Books, LockType, Block, WaitInv
<1>2. PICK lent : lent = Lend(t, l) OBVIOUS
<1>3. /\ lock' = lock /\ lock[l].count = 0
      /\ k'.state[t] = "BLOCKED" /\ k'.on[t] = Blocked(l)
      /\ \A v \in Task \ {t} : /\ k'.state[v] = lent.state[v]
                               /\ k'.on[v] = lent.on[v]
  BY <1>2, BlockWaits
<1>4. Eases(lent, k) /\ StayReady(lent, k)
  BY <1>1, <1>2, <1>3, LendingEases
<1>5. CASE m = l
  <2>1. Cardinality(Retrying(l)') \in Nat
    <3>1. Retrying(l)' \subseteq Task BY DEF Retrying
    <3> QED BY <3>1, FS_Subset, FS_CardinalityType
  <2> QED BY <1>3, <1>5, <2>1 DEF Matched
<1>6. CASE m # l
  <2>1. \A v \in Task : k'.on[v] = Blocked(m) => k.on[v] = Blocked(m)
    <3> SUFFICES ASSUME NEW v \in Task, k'.on[v] = Blocked(m)
                 PROVE  k.on[v] = Blocked(m)
      OBVIOUS
    <3>1. v # t BY <1>3, <1>6, ListsApart
    <3>2. lent.on[v] = Blocked(m) BY <1>3, <3>1
    <3> QED BY <1>4, <3>2, ListsApart DEF Eases
  <2>2. ASSUME NEW v \in Task, todo[v] = m, k.state[v] = "READY"
        PROVE  todo'[v] = m /\ k'.state[v] = "READY"
    <3>1. v # t BY <1>1, <1>6, <2>2, SchedulerAssumption
    <3> QED BY <1>1, <1>3, <1>4, <2>2, <3>1 DEF StayReady
  <2> QED BY <1>1, <1>3, <2>1, <2>2, StaysMatched
<1> QED BY <1>5, <1>6

AllMatched == \A l \in Lock : Matched(l)

LEMMA NothingToMatch ==
    ASSUME Init
    PROVE  AllMatched
<1> SUFFICES ASSUME NEW l \in Lock PROVE Matched(l)
  BY DEF AllMatched
<1>1. k = InitialKernel /\ Queued(k) BY InitialConsistent DEF Init
<1>2. 0 \in 0..NumPriorities BY TasksAssumption
<1>3. \A t \in Task : k.on[t] # Blocked(l)
  BY <1>1, <1>2, InitialConsistent, ListsApart
<1>4. Waiters(l) = <<>> BY <1>1, <1>3, WaitersPoint DEF Waiters
<1> QED BY <1>4 DEF Matched

LEMMA MatchedSteps ==
    ASSUME ApiStates \subseteq {"READY"}, IsFiniteSet(Task),
           LocksInv, WaitInv, AllMatched, Queued(k'), [LocksNext]_allVars
    PROVE  AllMatched'
<1> SUFFICES ASSUME NEW m \in Lock PROVE Matched(m)'
  BY DEF AllMatched
<1>1. Queued(k) /\ lock[m].count \in Nat
  BY DEF LocksInv, KernelInv, Books, LockType
<1>2. \A l \in Lock : Matched(l) BY DEF AllMatched
<1>3. CASE OtherStep /\ lock' = lock
  <2>1. /\ Eases(k', k) /\ todo' = todo
        /\ \A t \in Task : k.state[t] = "READY" /\ todo[t] # "none" =>
                           k'.state[t] = "READY"
    BY <1>3, OtherWaits
  <2>2. \A v \in Task : k'.on[v] = Blocked(m) => k.on[v] = Blocked(m)
    BY <2>1, ListsApart DEF Eases
  <2>3. \A v \in Task : todo[v] = m /\ k.state[v] = "READY" =>
                           todo'[v] = m /\ k'.state[v] = "READY"
    BY <2>1, SchedulerAssumption
  <2> QED BY <1>1, <1>2, <1>3, <2>2, <2>3, StaysMatched
<1>4. ASSUME NEW t \in Task, NEW l \in Lock,
             Acquire(t, l) \/ Block(t, l) \/ Signal(t, l)
      PROVE  Matched(m)'
  BY <1>2, <1>4, AcquireMatches, BlockMatches, SignalMatches
<1>5. CASE UNCHANGED allVars
  BY <1>2, <1>5 DEF allVars, vars, lockVars, Matched, Waiters, Retrying
<1> QED BY <1>3, <1>4, <1>5, StepKinds

\* No wakeup is lost between the test and the block of ipc_semaphoreWait, between
\* the wakeup of ipc_semaphoreSignal and the second test, or to a task that takes
\* the resource first, for any number of tasks, locks and resources, if tasks are
\* only ever set ready by other tasks: a task that is suspended on its way back
\* to the lock keeps the wakeup to itself.
THEOREM NoWakeupLost ==
    ASSUME ApiStates \subseteq {"READY"}, IsFiniteSet(Task)
    PROVE  LocksSpec => []NoLostWakeup
<1>1. LocksInit => AllMatched BY NothingToMatch DEF LocksInit
<1>2. LocksInv /\ LocksInv' /\ WaitInv /\ AllMatched /\ [LocksNext]_allVars
        => AllMatched'
  BY MatchedSteps DEF LocksInv, KernelInv
<1>3. AllMatched => NoLostWakeup BY DEF AllMatched, Matched, NoLostWakeup
<1> QED BY <1>1, <1>2, <1>3, LocksInvariantHolds, WaitInvariantHolds, PTL
        DEF LocksSpec

-----------------------------------------------------------------------------
\* One mutex at a time: a task that waits holds none, the priority a mutex
\* remembers is its owner's own, and a task that holds none has its own.
WaitsEmptyHanded == \A t \in Task : todo[t] # "none" => held[t] = {}

BaseIsOwn == \A l \in Mutex :
    lock[l].owner # NoTask => lock[l].base = own[lock[l].owner]

FreeHasOwn == \A t \in Task : held[t] = {} => k.prio[t] = own[t]

NobodyYet == ~started => /\ own = k.prio
                         /\ \A t \in Task : held[t] = {}
                         /\ \A l \in Lock : lock[l].owner = NoTask

OneInv == WaitsEmptyHanded /\ BaseIsOwn /\ FreeHasOwn /\ NobodyYet

LEMMA OneInitial == LocksInit => OneInv /\ BlockedIsListed
<1> SUFFICES ASSUME LocksInit PROVE OneInv /\ BlockedIsListed OBVIOUS
<1>1. /\ k = InitialKernel /\ own = k.prio
      /\ \A t \in Task : held[t] = {} /\ todo[t] = "none"
      /\ \A l \in Lock : lock[l].owner = NoTask
  BY DEF LocksInit, Init, SemaphoreInit
<1>2. BlockedIsListed BY <1>1, InitialConsistent DEF BlockedIsListed
<1>3. BaseIsOwn BY <1>1, LocksAssumption DEF BaseIsOwn
<1> QED BY <1>1, <1>2, <1>3 DEF OneInv, WaitsEmptyHanded, FreeHasOwn, NobodyYet

\* A task that waits for a lock holds none: it may not hold one and wait for
\* another, and a task in a waiting loop has not come by one.
LEMMA WaitersHoldNone ==
    ASSUME MaxHeld <= 1, LocksInv, WaitInv, WaitsEmptyHanded,
           NEW t \in Task, NEW l \in Lock, Tries(t, l)
    PROVE  held[t] = {} /\ started
<1>1. CASE At(t, "run") /\ t # Idle /\ l \notin held[t] /\ Cardinality(held[t]) < MaxHeld
  <2>1. held[t] \in SUBSET Mutex BY DEF LocksInv, Books
  <2>2. IsFiniteSet(held[t]) /\ Cardinality(held[t]) \in Nat BY <2>1, HeldIsFinite
  <2>3. Cardinality(held[t]) = 0 BY <1>1, <2>2, LocksAssumption
  <2> QED BY <1>1, <2>2, <2>3, FS_EmptySet DEF At
<1>2. CASE At(t, "retry") /\ todo[t] = l
  BY <1>2, SchedulerAssumption DEF WaitsEmptyHanded, At
<1> QED BY <1>1, <1>2 DEF Tries

\* Steps that are no part of a call that waits or signals change no priority.
LEMMA OtherKeepsPriority ==
    ASSUME ApiPriorities = {}, LocksInv, WaitInv, OtherStep, ~Boot
    PROVE  k'.prio = k.prio /\ started /\ started'
<1>1. Queued(k) /\ k.next = k.cur /\ k.on[Idle] = Ready(0) /\ pc[Idle] = "run"
  BY DEF LocksInv, KernelInv, WaitInv, IdleReady
<1>2. CASE Tick
  <2>1. Switch /\ started /\ started' BY <1>2 DEF Tick
  <2> QED BY <1>1, <2>1, SwitchEases
<1>3. ASSUME NEW t \in Task, Yield(t) PROVE k'.prio = k.prio /\ started /\ started'
  <2>1. Switch /\ started /\ started' BY <1>3 DEF Yield, At
  <2> QED BY <1>1, <2>1, SwitchEases
<1>4. ASSUME NEW t \in Task, LoopSleep(t)
      PROVE  k'.prio = k.prio /\ started /\ started'
  <2>1. /\ k' = SleepSection(k, 0) /\ started /\ started' /\ k.cur # Idle
        /\ 0 \in 0..MaxSleep
    BY <1>1, <1>4, TasksAssumption DEF LoopSleep, At
  <2> QED BY <1>1, <2>1, SleepEases
<1>5. ASSUME NEW t \in Task, NEW n \in SleepTimes, CallSleep(t, n)
      PROVE  k'.prio = k.prio /\ started /\ started'
  <2>1. /\ k' = SleepSection(k, n) /\ started /\ started' /\ k.cur # Idle
        /\ n \in 0..MaxSleep
    BY <1>5, SchedulerAssumption DEF CallSleep, At
  <2> QED BY <1>1, <2>1, SleepEases
<1>6. ASSUME NEW t \in Task, NEW u \in Task, NEW s \in ApiStates,
             CallSetTaskState(t, u, s)
      PROVE  k'.prio = k.prio /\ started /\ started'
  <2>1. /\ k' = SetTaskState(k, u, s) /\ u \in Task \ {Idle} /\ started /\ started'
    BY <1>6 DEF CallSetTaskState, Handle, At
  <2>2. s \in State \ {"BLOCKED"} BY SchedulerAssumption DEF State
  <2> QED BY <1>1, <2>1, <2>2, SettingEases
<1>7. ASSUME NEW t \in Task, Calls(t) PROVE k'.prio = k.prio /\ started /\ started'
  BY <1>5, <1>6, <1>7 DEF Calls
<1> QED BY <1>2, <1>3, <1>4, <1>7 DEF OtherStep

LEMMA OtherOne ==
    ASSUME ApiPriorities = {}, LocksInv, WaitInv, OneInv,
           \/ Boot /\ own' = k'.prio /\ UNCHANGED <<lock, mutexCount, held>>
           \/ OtherStep /\ ~Boot /\ UNCHANGED lockVars
    PROVE  OneInv'
<1>1. CASE Boot /\ own' = k'.prio /\ UNCHANGED <<lock, mutexCount, held>>
  <2>1. ~started /\ todo' = todo BY <1>1 DEF Boot, StartScheduler, Create
  <2>2. /\ \A t \in Task : held'[t] = {}
        /\ \A l \in Lock : lock'[l].owner = NoTask
    BY <1>1, <2>1 DEF OneInv, NobodyYet
  <2> QED BY <1>1, <2>2, LocksAssumption
          DEF OneInv, WaitsEmptyHanded, BaseIsOwn, FreeHasOwn, NobodyYet
<1>2. CASE OtherStep /\ UNCHANGED lockVars /\ ~Boot
  <2>1. k'.prio = k.prio /\ started /\ started' BY <1>2, OtherKeepsPriority
  <2>2. todo' = todo BY <1>2, OtherWaits DEF lockVars
  <2> QED BY <1>2, <2>1, <2>2
          DEF OneInv, WaitsEmptyHanded, BaseIsOwn, FreeHasOwn, NobodyYet, lockVars
<1> QED BY <1>1, <1>2

LEMMA AcquireOne ==
    ASSUME MaxHeld <= 1, LocksInv, WaitInv, OneInv,
           NEW t \in Task, NEW l \in Lock, Acquire(t, l)
    PROVE  OneInv'
<1>1. /\ lock \in LockType /\ held \in [Task -> SUBSET Mutex]
      /\ todo \in [Task -> Loop]
      /\ k' = k /\ own' = own /\ started' = started
      /\ todo' = [todo EXCEPT ![t] = "none"]
  BY DEF LocksInv, Books, KernelInv, Acquire
<1>2. held[t] = {} /\ started
  BY WaitersHoldNone DEF OneInv, Acquire
<1>3. k.prio[t] = own[t] BY <1>2 DEF OneInv, FreeHasOwn
<1>4. todo'[t] = "none" /\ \A v \in Task \ {t} : todo'[v] = todo[v] BY <1>1
<1>5. \A v \in Task \ {t} : held'[v] = held[v]
  BY <1>1 DEF Acquire
<1>6. WaitsEmptyHanded' BY <1>4, <1>5 DEF OneInv, WaitsEmptyHanded
<1>7. NobodyYet' BY <1>1, <1>2 DEF NobodyYet
<1>8. CASE l \in Mutex
  <2>1. /\ lock' = [lock EXCEPT ![l] = [count |-> lock[l].count - 1,
                                        base |-> k.prio[t], owner |-> t]]
        /\ held' = [held EXCEPT ![t] = held[t] \cup {l}]
    BY <1>8 DEF Acquire
  <2>2. /\ lock'[l].base = own[t] /\ lock'[l].owner = t
        /\ \A m \in Lock \ {l} : lock'[m] = lock[m]
    BY <1>1, <1>3, <2>1 DEF LockType
  <2>3. BaseIsOwn'
    BY <1>1, <2>2, LocksAssumption DEF OneInv, BaseIsOwn
  <2>4. FreeHasOwn' BY <1>1, <1>5, <2>1 DEF OneInv, FreeHasOwn
  <2> QED BY <1>6, <1>7, <2>3, <2>4 DEF OneInv
<1>9. CASE l \notin Mutex
  <2>1. /\ lock' = [lock EXCEPT ![l].count = lock[l].count - 1]
        /\ held' = held
    BY <1>9 DEF Acquire
  <2>2. \A m \in Mutex : lock'[m] = lock[m] BY <1>1, <1>9, <2>1 DEF LockType
  <2>3. BaseIsOwn' BY <1>1, <2>2 DEF OneInv, BaseIsOwn
  <2>4. FreeHasOwn' BY <1>1, <2>1 DEF OneInv, FreeHasOwn
  <2> QED BY <1>6, <1>7, <2>3, <2>4 DEF OneInv
<1> QED BY <1>8, <1>9

LEMMA BlockOne ==
    ASSUME MaxHeld <= 1, LocksInv, WaitInv, OneInv,
           NEW t \in Task, NEW l \in Lock, Block(t, l)
    PROVE  OneInv'
<1>1. /\ todo \in [Task -> Loop] /\ IdleReady
      /\ UNCHANGED <<started, held, own>> /\ todo' = [todo EXCEPT ![t] = l]
  BY DEF LocksInv, KernelInv, Block, WaitInv
<1>2. held[t] = {} /\ started
  BY WaitersHoldNone DEF OneInv, Block
<1>3. PICK lent : lent = Lend(t, l) OBVIOUS
<1>4. lock' = lock /\ lock[l].count = 0 /\ k'.prio = lent.prio
  BY <1>3, BlockWaits
<1>5. \A o \in Task : held[o] = {} => lent.prio[o] = k.prio[o]
  BY <1>1, <1>3, <1>4, LendingEases
<1>6. \A v \in Task \ {t} : todo'[v] = todo[v] BY <1>1
<1> QED BY <1>1, <1>2, <1>4, <1>5, <1>6
        DEF OneInv, WaitsEmptyHanded, BaseIsOwn, FreeHasOwn, NobodyYet

LEMMA SignalOne ==
    ASSUME LocksInv, WaitInv, OneInv,
           NEW t \in Task, NEW l \in Lock, Signal(t, l)
    PROVE  OneInv'
<1>1. /\ Queued(k) /\ k \in KernelState /\ k.on[Idle] = Ready(0)
      /\ lock \in LockType /\ held \in [Task -> SUBSET Mutex]
      /\ own' = own /\ started' = started /\ started /\ todo' = todo
  BY DEF LocksInv, Books, KernelInv, Queued, WaitInv, IdleReady, At,
         Signal, UnlockOwned, UnlockForeign, SignalSemaphore, lockVars
<1>2. CASE UnlockOwned(t, l)
  <2>1. PICK back : back = Returned(t, l) OBVIOUS
  <2>2. /\ k' = WakeFirst(back, l) /\ l \in Mutex /\ lock[l].owner = t
        /\ held' = [held EXCEPT ![t] = held[t] \ {l}]
    BY <1>2, <2>1 DEF UnlockOwned
  <2>3. t # Idle BY <2>2, LocksAssumption DEF WaitInv, IdleReady
  <2>4. Queued(back) /\ Reranks(back, k, t, lock[l].base)
    BY <2>1, <2>3, ReturnedEases
  <2>5. k'.prio = back.prio BY <1>1, <2>2, <2>4, WakingEases
  <2>6. lock[l].base = own[t]
    BY <2>2, LocksAssumption DEF OneInv, BaseIsOwn
  <2>7. k'.prio[t] = own[t] /\ \A v \in Task \ {t} : k'.prio[v] = k.prio[v]
    BY <1>1, <2>4, <2>5, <2>6 DEF Reranks, KernelState
  <2>8. held'[t] \subseteq held[t] /\ \A v \in Task \ {t} : held'[v] = held[v]
    BY <1>1, <2>2
  <2>9. WaitsEmptyHanded' BY <1>1, <2>8 DEF OneInv, WaitsEmptyHanded
  <2>10. FreeHasOwn' BY <1>1, <2>7, <2>8 DEF OneInv, FreeHasOwn
  <2>11. BaseIsOwn'
    <3>1. PICK r : lock' = [lock EXCEPT ![l] = r] /\ r = Released(t, l)
      BY <1>2 DEF UnlockOwned
    <3>2. r.owner # NoTask => r.owner = lock[l].owner /\ r.base = lock[l].base
      BY <1>1, <3>1 DEF Released, LockType
    <3>3. lock'[l] = r /\ \A m \in Lock \ {l} : lock'[m] = lock[m]
      BY <1>1, <3>1 DEF LockType
    <3> QED BY <1>1, <3>2, <3>3, LocksAssumption DEF OneInv, BaseIsOwn
  <2> QED BY <1>1, <2>9, <2>10, <2>11 DEF OneInv, NobodyYet
<1>3. CASE UnlockForeign(t, l) \/ SignalSemaphore(t, l)
  <2>1. k' = WakeFirst(k, l) /\ held' = held
    BY <1>3 DEF UnlockForeign, SignalSemaphore, lockVars
  <2>2. k'.prio = k.prio BY <1>1, <2>1, WakingEases
  <2>3. \A m \in Mutex : lock'[m] = lock[m]
    <3>1. CASE UnlockForeign(t, l) BY <3>1 DEF UnlockForeign, lockVars
    <3>2. CASE SignalSemaphore(t, l)
      <4>1. lock' = [lock EXCEPT ![l].count = lock[l].count + 1] /\ l \notin Mutex
        BY <3>2 DEF SignalSemaphore
      <4> QED BY <1>1, <4>1 DEF LockType
    <3> QED BY <1>3, <3>1, <3>2
  <2> QED BY <1>1, <2>1, <2>2, <2>3
          DEF OneInv, WaitsEmptyHanded, FreeHasOwn, BaseIsOwn, NobodyYet
<1> QED BY <1>2, <1>3 DEF Signal

LEMMA StepBooks ==
    ASSUME LocksNext
    PROVE  \/ Boot /\ own' = k'.prio /\ UNCHANGED <<lock, mutexCount, held>>
           \/ OtherStep /\ ~Boot /\ UNCHANGED lockVars
           \/ \E t \in Task, l \in Lock :
                 Acquire(t, l) \/ Block(t, l) \/ Signal(t, l)
<1>1. ASSUME Boot PROVE ~started BY <1>1 DEF Boot, StartScheduler, Create
<1>2. ASSUME NEW t \in Task, Calls(t) \/ LoopSleep(t) \/ Yield(t) PROVE started
  BY <1>2 DEF Calls, CallSetTaskState, CallSetTaskPriority, CallSleep, LoopSleep,
              Yield, At
<1>3. Tick => started BY DEF Tick
<1>4. CASE \E t \in Task : KernelCode(t)
  <2>1. PICK t \in Task : KernelCode(t) BY <1>4
  <2>2. CASE (LoopSleep(t) \/ Yield(t)) /\ UNCHANGED lockVars
    BY <2>2, <1>1, <1>2 DEF OtherStep
  <2> QED BY <2>1, <2>2 DEF KernelCode, Wait
<1>5. CASE (Tick \/ \E t \in Task : Calls(t)) /\ UNCHANGED lockVars
  BY <1>5, <1>1, <1>2, <1>3 DEF OtherStep
<1>6. CASE \E t \in Task, l \in Lock : (At(t, "run") /\ Wait(t, l)) \/ Signal(t, l)
  BY <1>6 DEF Wait
<1> QED BY <1>4, <1>5, <1>6 DEF LocksNext

LEMMA OneInvariantHolds ==
    ASSUME MaxHeld <= 1, ApiPriorities = {}
    PROVE  LocksSpec => []OneInv
<1>1. LocksInit => OneInv BY OneInitial
<1>2. ASSUME LocksInv, WaitInv, OneInv, [LocksNext]_allVars PROVE OneInv'
  <2>1. CASE LocksNext
    <3>1. ASSUME NEW t \in Task, NEW l \in Lock,
                 Acquire(t, l) \/ Block(t, l) \/ Signal(t, l)
          PROVE  OneInv'
      BY <1>2, <3>1, AcquireOne, BlockOne, SignalOne
    <3> QED BY <1>2, <2>1, <3>1, OtherOne, StepBooks
  <2>2. CASE UNCHANGED allVars
    BY <1>2, <2>2 DEF allVars, vars, lockVars, OneInv, WaitsEmptyHanded, BaseIsOwn,
                      FreeHasOwn, NobodyYet
  <2> QED BY <1>2, <2>1, <2>2
<1> QED BY <1>1, <1>2, LocksInvariantHolds, WaitInvariantHolds, PTL DEF LocksSpec

\* A lent priority is given back, whoever borrowed against whom in the meantime,
\* for any number of tasks, mutexes and priorities, if a task that holds a mutex
\* waits for nothing and priorities change by lending only.  Of several mutexes
\* only the one locked first remembers its owner's own priority.
THEOREM PrioritiesReturn ==
    ASSUME MaxHeld <= 1, ApiPriorities = {}
    PROVE  LocksSpec => []PriorityReturned
<1>1. LocksInv /\ OneInv => PriorityReturned
  <2> SUFFICES ASSUME LocksInv, OneInv, NEW t \in Task, NEW l \in held[t]
               PROVE  lock[l].base = own[t]
    BY DEF PriorityReturned, OneInv, FreeHasOwn
  <2>1. l \in Mutex /\ lock[l].owner = t
    BY DEF LocksInv, Books, Owned
  <2> QED BY <2>1, LocksAssumption DEF OneInv, BaseIsOwn
<1> QED BY <1>1, LocksInvariantHolds, OneInvariantHolds, PTL

\* A step loses no blocked task, if lending takes none off its list.
LEMMA ListedSteps ==
    ASSUME ApiPriorities = {}, LocksInv, WaitInv, BlockedIsListed,
           [LocksNext]_allVars,
           \A t \in Task, l \in Lock : Block(t, l) => StayListed(Lend(t, l), k)
    PROVE  BlockedIsListed'
<1>1. CASE OtherStep /\ lock' = lock
  <2>1. StayListed(k', k) /\ todo' = todo BY <1>1, OtherWaits
  <2> QED BY <2>1 DEF StayListed, BlockedIsListed
<1>2. ASSUME NEW t \in Task, NEW l \in Lock, Acquire(t, l)
      PROVE  BlockedIsListed'
  <2>1. /\ k' = k /\ todo \in [Task -> Loop]
        /\ todo' = [todo EXCEPT ![t] = "none"]
    BY <1>2 DEF Acquire, LocksInv, KernelInv
  <2>2. k.state[t] # "BLOCKED"
    BY <1>2, CallersRun DEF Acquire, Tries
  <2> QED BY <2>1, <2>2 DEF BlockedIsListed
<1>3. ASSUME NEW t \in Task, NEW l \in Lock, Block(t, l)
      PROVE  BlockedIsListed'
  <2>1. todo \in [Task -> Loop] /\ todo' = [todo EXCEPT ![t] = l]
    BY <1>3 DEF Block, LocksInv, KernelInv
  <2>2. PICK lent : lent = Lend(t, l) OBVIOUS
  <2>3. /\ k'.on[t] = Blocked(l)
        /\ \A v \in Task \ {t} : /\ k'.state[v] = lent.state[v]
                                 /\ k'.on[v] = lent.on[v]
    BY <1>3, <2>2, BlockWaits
  <2>4. StayListed(lent, k) BY <1>3, <2>2
  <2>5. todo'[t] = l /\ \A v \in Task \ {t} : todo'[v] = todo[v] BY <2>1
  <2> QED BY <2>3, <2>4, <2>5 DEF StayListed, BlockedIsListed
<1>4. ASSUME NEW t \in Task, NEW l \in Lock, Signal(t, l)
      PROVE  BlockedIsListed'
  <2>1. StayListed(k', k) /\ UNCHANGED <<pc, todo>> BY <1>4, SignalWaits
  <2> QED BY <2>1 DEF StayListed, BlockedIsListed
<1>5. CASE UNCHANGED allVars
  BY <1>5 DEF allVars, vars, BlockedIsListed
<1> QED BY <1>1, <1>2, <1>3, <1>4, <1>5, StepKinds

\* A blocked task is on the list that the next signal looks at, for any number of
\* tasks and locks and whatever states the tasks give one another, under the same
\* condition: the owner of a mutex is then never blocked, so that lending it a
\* priority does not take it off a list.
THEOREM BlockedAreListed ==
    ASSUME MaxHeld <= 1, ApiPriorities = {}
    PROVE  LocksSpec => []BlockedIsListed
<1>1. LocksInit => BlockedIsListed BY OneInitial
<1>2. ASSUME LocksInv, WaitInv, OneInv, BlockedIsListed, [LocksNext]_allVars
      PROVE  BlockedIsListed'
  <2>1. ASSUME NEW t \in Task, NEW l \in Lock, Block(t, l)
        PROVE  StayListed(Lend(t, l), k)
    <3>1. PICK lent : lent = Lend(t, l) OBVIOUS
    <3>2. lock[l].count = 0 /\ IdleReady BY <1>2, <2>1, BlockWaits DEF WaitInv
    <3>3. \A o \in Task : l \in held[o] => k.state[o] # "BLOCKED"
      BY <1>2, SchedulerAssumption
         DEF OneInv, WaitsEmptyHanded, WaitInv, BlockedWait
    <3>4. StayListed(lent, k) BY <1>2, <3>1, <3>2, <3>3, LendingEases
    <3> QED BY <3>1, <3>4
  <2> QED BY <1>2, <2>1, ListedSteps
<1> QED BY <1>1, <1>2, LocksInvariantHolds, WaitInvariantHolds, OneInvariantHolds,
           PTL DEF LocksSpec
=============================================================================
