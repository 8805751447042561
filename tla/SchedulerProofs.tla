--------------------------- MODULE SchedulerProofs ---------------------------
(***************************************************************************)
(* Scheduler, for any number of tasks, priorities and ticks: the queues    *)
(* stay consistent, and if the priorities passed to tasks_setTaskPriority  *)
(* are those its documentation allows, priorities stay in range, every     *)
(* dispatch picks a best ready task, and a task that is outranked loses    *)
(* the processor within a quantum.  And Events on top of it: an event that *)
(* a task waits for is not lost, on a port whose critical sections mask    *)
(* the interrupts that send events and if no task suspends another.        *)
(***************************************************************************)
EXTENDS SchedulerTiming, Events, TasksProofs

\* Lists and back pointers agree, and every task is where its state says.
Consistent(kernel) == Queued(kernel) /\ AtHome(kernel)

\* No kernel function but tasks_blockTask blocks a task.
NoneBlocked(kernel) == \A t \in Task : kernel.state[t] # "BLOCKED"

\* The strengthening: the kernel state is consistent, no task is blocked (nothing
\* here blocks one), and between critical sections the task that tasks_search
\* picked last is the current one.
SchedulerInv ==
    /\ Consistent(k)
    /\ NoneBlocked(k)
    /\ k.next = k.cur
    /\ started \in BOOLEAN
    /\ pc \in [Task -> Label]
    /\ todo \in [Task -> Loop]

-----------------------------------------------------------------------------
LEMMA InitEstablishes == Init => SchedulerInv /\ PriorityInRange
<1> SUFFICES ASSUME Init PROVE SchedulerInv /\ PriorityInRange
  OBVIOUS
<1>1. k = InitialKernel BY DEF Init
<1>2. pc \in [Task -> Label] /\ todo \in [Task -> Loop] /\ started \in BOOLEAN
  BY DEF Init, Label, Loop
<1> QED
  BY <1>1, <1>2, InitialConsistent
     DEF SchedulerInv, PriorityInRange, Consistent, NoneBlocked

\* Where an invariant step leaves the kernel, whichever call or interrupt it is.
Kept(u) == Consistent(u) /\ NoneBlocked(u) /\ u.next = u.cur

\* tasks_switchTask.
LEMMA Switching ==
    ASSUME SchedulerInv, Switch
    PROVE  /\ Kept(k') /\ k'.prio = k.prio
           /\ k'.cur # k.cur /\ PriorityInRange => k'.cur \in Best(k')
<1>1. PICK counted : counted = CountTick(k) OBVIOUS
<1>2. k' = Dispatch(counted) BY <1>1 DEF Switch
<1>3. Queued(k) /\ AtHome(k) /\ NoneBlocked(k) /\ k.next = k.cur
  BY DEF SchedulerInv, Consistent
<1>4. /\ Queued(counted) /\ AtHome(counted) /\ counted.prio = k.prio
      /\ counted.cur = k.cur /\ counted.next = k.next
      /\ \A t \in Task : counted.state[t] \in {k.state[t], "READY"}
  BY <1>1, <1>3, CountingTick
<1>5. counted.next = counted.cur BY <1>3, <1>4
<1>6. /\ Queued(k') /\ AtHome(k') /\ k'.state = counted.state /\ k'.prio = counted.prio
      /\ k'.next = k'.cur
      /\ \/ k'.cur = counted.next
         \/ RankedTogether(counted) => k'.cur \in Best(counted)
  BY <1>2, <1>4, Dispatching
<1>9. PriorityInRange => RankedTogether(counted)
  BY <1>4 DEF PriorityInRange, RankedTogether
<1>7. Best(k') = Best(counted) BY <1>6 DEF Best
<1>8. NoneBlocked(k') BY <1>3, <1>4, <1>6 DEF NoneBlocked
<1> QED
  BY <1>3, <1>4, <1>5, <1>6, <1>7, <1>8, <1>9 DEF Kept, Consistent, PriorityInRange

\* The control state, which every step leaves typed.
LEMMA ControlTyped ==
    ASSUME SchedulerInv, [Next]_vars
    PROVE  started' \in BOOLEAN /\ pc' \in [Task -> Label] /\ todo' \in [Task -> Loop]
<1> USE DEF SchedulerInv, Label, Loop
<1>1. ASSUME NEW t \in Task, NEW p \in CreatePriorities, Create(t, p)
      PROVE  started' \in BOOLEAN /\ pc' \in [Task -> Label] /\ todo' \in [Task -> Loop]
  BY <1>1 DEF Create, Goto
<1>2. CASE StartScheduler BY <1>2 DEF StartScheduler
<1>3. CASE Tick BY <1>3 DEF Tick
<1>4. ASSUME NEW t \in Task, Calls(t) \/ Yield(t)
      PROVE  started' \in BOOLEAN /\ pc' \in [Task -> Label] /\ todo' \in [Task -> Loop]
  BY <1>4 DEF Calls, Yield, CallSetTaskState, CallSetTaskPriority, CallSleep, Goto
<1>5. CASE UNCHANGED vars BY <1>5 DEF vars
<1> QED BY <1>1, <1>2, <1>3, <1>4, <1>5 DEF Next

\* What every step does to the kernel state.
LEMMA StepKeeps ==
    ASSUME SchedulerInv, [Next]_vars
    PROVE  /\ Kept(k')
           /\ ApiPriorities \subseteq Priority /\ PriorityInRange => PriorityInRange'
           /\ k'.cur # k.cur /\ PriorityInRange => k'.cur \in Best(k')
<1> DEFINE Goal ==
             /\ Kept(k')
             /\ ApiPriorities \subseteq Priority /\ PriorityInRange
                  => PriorityInRange'
             /\ k'.cur # k.cur /\ PriorityInRange => k'.cur \in Best(k')
<1>1. Kept(k) /\ AtHome(k) /\ Queued(k) /\ k \in KernelState
  BY DEF SchedulerInv, Kept, Consistent, Queued
<1>2. CASE UNCHANGED vars
  <2>1. k' = k BY <1>2 DEF vars
  <2> QED BY <2>1, <1>1 DEF PriorityInRange
<1>3. CASE StartScheduler
  <2>1. k' = k BY <1>3 DEF StartScheduler
  <2> QED BY <2>1, <1>1 DEF PriorityInRange
<1>4. ASSUME NEW t \in Task, NEW p \in CreatePriorities, Create(t, p)
      PROVE  Goal
  <2>1. k' = CreateTask(k, t, p) BY <1>4 DEF Create
  <2>2. p \in Nat /\ Queued(k) /\ AtHome(k) BY <1>1, SchedulerAssumption
  <2>3. /\ Queued(k') /\ AtHome(k') /\ k'.cur = k.cur /\ k'.next = k.next
        /\ \E c \in Priority : Reranks(k', k, t, c)
        /\ k'.state = [k.state EXCEPT ![t] = "READY"]
    BY <2>1, <2>2, Creating
  <2>4. PICK c \in Priority : k'.prio = [k.prio EXCEPT ![t] = c]
    BY <2>3 DEF Reranks
  <2>5. PriorityInRange => PriorityInRange'
    BY <1>1, <2>4 DEF PriorityInRange, KernelState
  <2>6. NoneBlocked(k')
    BY <1>1, <2>3 DEF Kept, NoneBlocked, KernelState
  <2> QED BY <1>1, <2>3, <2>5, <2>6 DEF Kept, Consistent
<1>5. CASE Tick \/ \E t \in Task : Yield(t)
  <2>1. Switch BY <1>5 DEF Tick, Yield
  <2> QED BY <2>1, Switching DEF PriorityInRange
<1>6. ASSUME NEW t \in Task, NEW u \in Task, NEW s \in ApiStates,
             CallSetTaskState(t, u, s)
      PROVE  Goal
  <2>1. k' = SetTaskState(k, u, s) BY <1>6 DEF CallSetTaskState
  <2>2. s \in State /\ s # "BLOCKED" BY SchedulerAssumption DEF State
  <2>3. OthersAtHome(k, u) BY <1>1 DEF AtHome, OthersAtHome
  <2>4. /\ Queued(k') /\ AtHome(k') /\ k'.state = [k.state EXCEPT ![u] = s]
        /\ k'.prio = k.prio /\ k'.cur = k.cur /\ k'.next = k.next
    BY <1>1, <2>1, <2>2, <2>3, SettingState
  <2>5. NoneBlocked(k')
    <3>1. \A v \in Task : k'.state[v] \in {k.state[v], s}
      BY <1>1, <2>4 DEF KernelState
    <3> QED BY <1>1, <2>2, <3>1 DEF Kept, NoneBlocked
  <2> QED BY <1>1, <2>4, <2>5 DEF Kept, Consistent, PriorityInRange
<1>7. ASSUME NEW t \in Task, NEW u \in Task, NEW p \in ApiPriorities,
             CallSetTaskPriority(t, u, p)
      PROVE  Goal
  <2>1. k' = SetTaskPriority(k, u, p) BY <1>7 DEF CallSetTaskPriority
  <2>2. p \in Nat BY SchedulerAssumption
  <2>3. CASE p > NumPriorities
    <3>1. k' = k BY <2>1, <2>3 DEF SetTaskPriority
    <3> QED BY <3>1, <1>1 DEF PriorityInRange
  <2>4. CASE ~(p > NumPriorities)
    <3>1. p \in 0..NumPriorities BY <2>2, <2>4, TasksAssumption
    <3>2. k.state[u] # "BLOCKED" BY <1>1 DEF Kept, NoneBlocked
    <3>3. /\ Queued(k') /\ AtHome(k') /\ k'.state = k.state
          /\ Reranks(k', k, u, p)
          /\ k'.cur = k.cur /\ k'.next = k.next
      BY <1>1, <2>1, <3>1, <3>2, SettingPriority
    <3>4. ApiPriorities \subseteq Priority /\ PriorityInRange => PriorityInRange'
      BY <1>1, <3>3 DEF PriorityInRange, KernelState, Reranks
    <3> QED BY <1>1, <3>3, <3>4 DEF Kept, Consistent, NoneBlocked
  <2> QED BY <2>3, <2>4
<1>8. ASSUME NEW t \in Task, NEW n \in SleepTimes, CallSleep(t, n)
      PROVE  Goal
  <2>1. k' = SleepSection(k, n) /\ n \in 0..MaxSleep
    BY <1>8, SchedulerAssumption DEF CallSleep
  <2>2. /\ Queued(k') /\ AtHome(k') /\ k'.prio = k.prio
        /\ k'.cur = k.cur /\ k'.next = k.next
        /\ \A v \in Task : k'.state[v] \in {k.state[v], "SLEEPING"}
    BY <1>1, <2>1, SleepingSection
  <2>3. NoneBlocked(k') BY <1>1, <2>2 DEF Kept, NoneBlocked
  <2> QED BY <1>1, <2>2, <2>3 DEF Kept, Consistent, PriorityInRange
<1> QED
  BY <1>2, <1>3, <1>4, <1>5, <1>6, <1>7, <1>8 DEF Next, Calls

LEMMA InvariantHolds == Spec => []SchedulerInv
<1>1. Init => SchedulerInv BY InitEstablishes
<1>2. SchedulerInv /\ [Next]_vars => SchedulerInv'
  BY ControlTyped, StepKeeps DEF SchedulerInv, Kept
<1> QED BY <1>1, <1>2, PTL DEF Spec

-----------------------------------------------------------------------------
\* The kernel's data keep their types: in particular no step appends to a list
\* that does not exist, for any priorities passed in.
THEOREM TypeCorrect == Spec => []TypeOK
<1>1. SchedulerInv => TypeOK BY DEF SchedulerInv, TypeOK, Consistent, Queued
<1> QED BY <1>1, InvariantHolds, PTL

\* Whatever is created, called, ticked and dispatched, in any order, every task is
\* on exactly the list its state and priority name, and its back pointer says so.
THEOREM QueuesStayConsistent == Spec => []QueuesConsistent
<1>1. SchedulerInv => QueuesConsistent
  BY DEF SchedulerInv, QueuesConsistent, Consistent, Queued
<1> QED BY <1>1, InvariantHolds, PTL

\* Priorities stay in the range that tasks.h:160 gives, if tasks_setTaskPriority is
\* only passed priorities in it: tasks_createTask clips its own.
THEOREM PrioritiesStayInRange ==
    ASSUME ApiPriorities \subseteq Priority
    PROVE  Spec => []PriorityInRange
<1>1. Init => PriorityInRange BY InitEstablishes
<1>2. PriorityInRange /\ SchedulerInv /\ [Next]_vars => PriorityInRange'
  BY StepKeeps
<1> QED BY <1>1, <1>2, InvariantHolds, PTL DEF Spec

\* With such priorities a dispatch only ever goes to a ready task that no ready
\* task outranks (tasks_search).
THEOREM DispatchGoesToTheBest ==
    ASSUME ApiPriorities \subseteq Priority
    PROVE  Spec => DispatchesBest
<1>1. PriorityInRange /\ SchedulerInv /\ [Next]_vars
        => [k'.cur # k.cur => k'.cur \in Best(k')]_vars
  BY StepKeeps
<1> QED
  BY <1>1, InvariantHolds, PrioritiesStayInRange, PTL DEF Spec, DispatchesBest

-----------------------------------------------------------------------------
\* The timer interrupts that the current task has left, while it has a quantum.
Left(kernel) == (kernel.tql - 1) * (TickRate + 1) + kernel.qtl + 1

Quantum == TicksPerTask * (TickRate + 1)

\* Idle is always ready, so tasks_search always finds a task; the interrupts since
\* the current task was outranked and those it has left make up a quantum at most.
TimingInv ==
    /\ k.state[Idle] = "READY"
    /\ outranked \in Nat /\ outranked < Quantum
    /\ k.tql > 0 => outranked + Left(k) <= Quantum

LEMMA OneTickMore ==
    ASSUME NEW a \in Int, NEW p \in Int
    PROVE  (a + 1) * p = a * p + p
OBVIOUS

LEMMA QuantumPositive == Quantum \in Nat /\ Quantum > 0
<1>1. /\ TicksPerTask - 1 \in Nat /\ TickRate + 1 \in Nat /\ TickRate + 1 > 0
      /\ (TicksPerTask - 1) + 1 = TicksPerTask
  BY TasksAssumption
<1>2. (TicksPerTask - 1) * (TickRate + 1) \in Nat BY <1>1
<1>3. Quantum = (TicksPerTask - 1) * (TickRate + 1) + (TickRate + 1)
  BY <1>1, OneTickMore DEF Quantum
<1> QED BY <1>1, <1>2, <1>3

\* Counting an interrupt uses up one, across the tick that ends a kernel tick too.
LEMMA CountingUses ==
    ASSUME Queued(k), NEW u, u = CountTick(k), u.tql # 0
    PROVE  k.tql > 0 /\ Left(u) = Left(k) - 1
<1>1. k.qtl \in 0..TickRate /\ k.tql \in 0..TicksPerTask
  BY DEF Queued, KernelState
<1>2. IF k.qtl # 0 THEN u.qtl = k.qtl - 1 /\ u.tql = k.tql
      ELSE /\ u.qtl = TickRate
           /\ u.tql = IF k.tql > 0 THEN k.tql - 1 ELSE 0
  BY CountingTick
<1>3. TickRate \in Nat /\ TicksPerTask \in Nat BY TasksAssumption
<1>4. PICK p \in Int : p = TickRate + 1 BY <1>3
<1>5. CASE k.qtl # 0
  <2>1. PICK a \in Int : a = (k.tql - 1) * p BY <1>1, <1>3, <1>4
  <2>2. Left(k) = a + k.qtl + 1 BY <1>4, <2>1 DEF Left
  <2>3. Left(u) = a + (k.qtl - 1) + 1 BY <1>2, <1>4, <1>5, <2>1 DEF Left
  <2> QED BY <1>1, <1>2, <1>3, <1>5, <2>1, <2>2, <2>3
<1>6. CASE k.qtl = 0
  <2>1. k.tql > 0 /\ u.tql = k.tql - 1 /\ u.qtl = TickRate
    BY <1>1, <1>2, <1>3, <1>6
  <2>2. PICK b \in Int : b = k.tql - 2 BY <1>1, <1>3
  <2>3. k.tql - 1 = b + 1 /\ u.tql - 1 = b BY <1>1, <1>3, <2>1, <2>2
  <2>4. (b + 1) * p = b * p + p BY OneTickMore
  <2>5. PICK c \in Int : c = b * p OBVIOUS
  <2>6. Left(k) = (b + 1) * p + 0 + 1 BY <1>4, <1>6, <2>3 DEF Left
  <2>7. Left(u) = c + TickRate + 1 BY <1>4, <2>1, <2>3, <2>5 DEF Left
  <2> QED BY <1>3, <1>4, <2>1, <2>4, <2>5, <2>6, <2>7
<1> QED BY <1>5, <1>6

\* tasks_switchTask starts a quantum for a best task, or uses up an interrupt of
\* the running one.
LEMMA SwitchTimed ==
    ASSUME SchedulerInv, PriorityInRange, TimingInv, Switch
    PROVE  /\ k'.state[Idle] = "READY"
           /\ k'.tql > 0
           /\ \/ k'.cur \in Best(k') /\ Left(k') <= Quantum
              \/ k.tql > 0 /\ Left(k') = Left(k) - 1
<1>1. PICK counted : counted = CountTick(k) OBVIOUS
<1>2. k' = Dispatch(counted) BY <1>1 DEF Switch
<1>3. Queued(k) /\ AtHome(k) /\ Idle \in Task
  BY TasksAssumption DEF SchedulerInv, Consistent
<1>4. /\ Queued(counted) /\ AtHome(counted) /\ counted.prio = k.prio
      /\ \A t \in Task : counted.state[t] \in {k.state[t], "READY"}
  BY <1>1, <1>3, CountingTick
<1>5. RankedTogether(counted) BY <1>4 DEF PriorityInRange, RankedTogether
<1>6. Ranked(counted, Idle)
  <2>1. counted.state[Idle] = "READY" BY <1>3, <1>4 DEF TimingInv
  <2>2. counted.on[Idle] = Ready(counted.prio[Idle])
    BY <1>3, <1>4, <2>1 DEF AtHome, Home
  <2>3. counted.prio[Idle] \in Priority BY <1>3, <1>5 DEF RankedTogether
  <2> QED BY <2>2, <2>3 DEF Ranked
<1>7. /\ Queued(k') /\ k'.state = counted.state /\ k'.prio = counted.prio
      /\ k'.qtl = counted.qtl
      /\ \/ /\ k'.tql = counted.tql
            /\ counted.tql = 0 => \A t \in Task : ~Ranked(counted, t)
         \/ /\ k'.tql = TicksPerTask
            /\ RankedTogether(counted) => k'.cur \in Best(counted)
  BY <1>2, <1>4, Dispatching
<1>8. k'.state[Idle] = "READY" BY <1>3, <1>4, <1>7 DEF TimingInv
<1>9. k'.qtl \in 0..TickRate /\ k'.tql \in 0..TicksPerTask
  BY <1>7 DEF Queued, KernelState
<1>10. CASE k'.tql = counted.tql /\ counted.tql # 0
  <2>1. k.tql > 0 /\ Left(counted) = Left(k) - 1
    BY <1>1, <1>3, <1>10, CountingUses
  <2>2. Left(k') = Left(counted) BY <1>7, <1>10 DEF Left
  <2> QED BY <1>8, <1>9, <1>10, <2>1, <2>2, TasksAssumption
<1>11. CASE k'.tql = TicksPerTask /\ k'.cur \in Best(counted)
  <2>1. k'.cur \in Best(k') BY <1>7, <1>11 DEF Best
  <2>2. Left(k') <= Quantum
    <3>1. PICK a \in Int : a = (TicksPerTask - 1) * (TickRate + 1)
      BY TasksAssumption
    <3>2. Quantum = a + (TickRate + 1)
      <4>1. /\ TicksPerTask - 1 \in Int /\ TickRate + 1 \in Int
            /\ (TicksPerTask - 1) + 1 = TicksPerTask
        BY TasksAssumption
      <4> QED BY <3>1, <4>1, OneTickMore DEF Quantum
    <3>3. Left(k') = a + k'.qtl + 1 BY <3>1, <1>11 DEF Left
    <3> QED BY <1>9, <3>1, <3>2, <3>3, TasksAssumption
  <2>3. k'.tql > 0 BY <1>11, TasksAssumption
  <2> QED BY <1>8, <2>1, <2>2, <2>3
<1> QED BY <1>5, <1>6, <1>7, <1>10, <1>11, <1>3

\* A step of Timing is a step of Scheduler with the history variable beside it.
LEMMA TimingSteps ==
    ASSUME [TimingNext]_<<vars, outranked>>
    PROVE  [Next]_vars
BY DEF TimingNext, TimingTick, TimingCall, Next, Calls, vars

LEMMA TimingImplies == TimingSpec => Spec
<1>1. TimingInit => Init BY DEF TimingInit
<1>2. [TimingNext]_<<vars, outranked>> => [Next]_vars BY TimingSteps
<1> QED BY <1>1, <1>2, PTL DEF TimingSpec, Spec

\* A call that keeps or ends the quantum keeps the bound.
LEMMA CallTimed ==
    ASSUME TimingInv, SchedulerInv,
           outranked' \in {0, outranked},
           k'.state[Idle] = "READY",
           k'.tql = 0 \/ (k'.tql = k.tql /\ k'.qtl = k.qtl)
    PROVE  TimingInv'
<1>1. k.qtl \in 0..TickRate /\ k.tql \in 0..TicksPerTask
  BY DEF SchedulerInv, Consistent, Queued, KernelState
<1>2. outranked' \in Nat /\ outranked' < Quantum /\ outranked' <= outranked
  BY QuantumPositive DEF TimingInv
<1>3. ASSUME k'.tql > 0 PROVE outranked' + Left(k') <= Quantum
  <2>1. k'.tql = k.tql /\ k'.qtl = k.qtl BY <1>3
  <2>2. outranked + Left(k) <= Quantum BY <1>3, <2>1 DEF TimingInv
  <2>3. Left(k') = Left(k) BY <2>1 DEF Left
  <2>4. Left(k) \in Int BY <1>1, TasksAssumption DEF Left
  <2> QED BY <1>2, <2>2, <2>3, <2>4, QuantumPositive DEF TimingInv
<1> QED BY <1>2, <1>3 DEF TimingInv, Quantum, Left

\* An interrupt, or a call of arch_yield, is counted against what is left.
LEMMA SwitchKeepsBound ==
    ASSUME TimingInv, SchedulerInv, SchedulerInv', PriorityInRange, Switch,
           \/ outranked' = 0
           \/ k'.cur \notin Best(k') /\ outranked' \in {outranked, outranked + 1}
    PROVE  TimingInv'
<1>1. /\ k'.state[Idle] = "READY"
      /\ k'.tql > 0
      /\ \/ k'.cur \in Best(k') /\ Left(k') <= Quantum
         \/ k.tql > 0 /\ Left(k') = Left(k) - 1
  BY SwitchTimed
<1>2. Left(k) \in Int /\ Left(k') \in Nat \ {0}
  <2>1. k.qtl \in 0..TickRate /\ k.tql \in 0..TicksPerTask
    BY DEF SchedulerInv, Consistent, Queued, KernelState
  <2>2. k'.qtl \in 0..TickRate /\ k'.tql \in 0..TicksPerTask
    BY DEF SchedulerInv, Consistent, Queued, KernelState
  <2>3. k'.tql - 1 \in Nat /\ TickRate + 1 \in Nat
    BY <1>1, <2>2, TasksAssumption
  <2>4. (k'.tql - 1) * (TickRate + 1) \in Nat BY <2>3
  <2> QED BY <2>1, <2>2, <2>4, TasksAssumption DEF Left
<1>3. outranked' \in Nat /\ outranked' + Left(k') <= Quantum
  <2>1. outranked \in Nat /\ (k.tql > 0 => outranked + Left(k) <= Quantum)
    BY DEF TimingInv
  <2> QED BY <1>1, <1>2, <2>1, QuantumPositive
<1>4. outranked' < Quantum BY <1>2, <1>3, QuantumPositive
<1> QED BY <1>1, <1>3, <1>4 DEF TimingInv, Quantum, Left

LEMMA TimingKept ==
    ASSUME TimingInv, SchedulerInv, SchedulerInv', PriorityInRange,
           [TimingNext]_<<vars, outranked>>
    PROVE  TimingInv'
<1>1. k \in KernelState /\ Queued(k) /\ Idle \in Task /\ k.state[Idle] = "READY"
  BY TasksAssumption DEF SchedulerInv, Consistent, Queued, TimingInv
<1>2. CASE TimingTick
  <2>1. Switch BY <1>2 DEF TimingTick, Tick
  <2>2. \/ outranked' = 0
        \/ k'.cur \notin Best(k') /\ outranked' \in {outranked, outranked + 1}
    BY <1>2 DEF TimingTick
  <2> QED BY <2>1, <2>2, SwitchKeepsBound
<1>3. ASSUME TimingCall PROVE TimingInv'
  <2>1. outranked' = IF k'.cur \in Best(k') THEN 0 ELSE outranked
    BY <1>3 DEF TimingCall
  <2>2. outranked' \in {0, outranked} BY <2>1
  <2>3. ASSUME NEW t \in Task, Yield(t) PROVE TimingInv'
    <3>1. Switch BY <2>3 DEF Yield
    <3>2. \/ outranked' = 0
          \/ k'.cur \notin Best(k') /\ outranked' \in {outranked, outranked + 1}
      BY <2>1
    <3> QED BY <3>1, <3>2, SwitchKeepsBound
  <2>4. CASE StartScheduler
    <3>1. k' = k BY <2>4 DEF StartScheduler
    <3> QED BY <3>1, <2>2, <1>1, CallTimed
  <2>5. ASSUME NEW t \in Task, NEW p \in CreatePriorities, Create(t, p)
        PROVE  TimingInv'
    <3>1. k' = CreateTask(k, t, p) /\ p \in Nat
      BY <2>5, SchedulerAssumption DEF Create
    <3>2. /\ k'.state = [k.state EXCEPT ![t] = "READY"]
          /\ k'.qtl = k.qtl /\ k'.tql = k.tql
      <4>1. Queued(k) /\ p \in Nat /\ k' = CreateTask(k, t, p) BY <1>1, <3>1
      <4> QED BY <4>1, Creating
    <3>3. k'.state[Idle] = "READY" BY <1>1, <3>2 DEF KernelState
    <3> QED BY <3>2, <3>3, <2>2, CallTimed
  <2>6. ASSUME NEW t \in Task, NEW u \in Task, NEW s \in ApiStates,
               CallSetTaskState(t, u, s)
        PROVE  TimingInv'
    <3>1. k' = SetTaskState(k, u, s) /\ u # Idle
      BY <2>6 DEF CallSetTaskState, Handle
    <3>2. s \in State BY SchedulerAssumption DEF State
    <3>3. /\ k'.state = [k.state EXCEPT ![u] = s]
          /\ k'.qtl = k.qtl /\ k'.tql = k.tql
      BY <1>1, <3>1, <3>2, SettingState
    <3>4. k'.state[Idle] = "READY" BY <1>1, <3>1, <3>3 DEF KernelState
    <3> QED BY <3>3, <3>4, <2>2, CallTimed
  <2>7. ASSUME NEW t \in Task, NEW u \in Task, NEW p \in ApiPriorities,
               CallSetTaskPriority(t, u, p)
        PROVE  TimingInv'
    <3>1. k' = SetTaskPriority(k, u, p) /\ p \in Nat
      BY <2>7, SchedulerAssumption DEF CallSetTaskPriority
    <3>2. k'.state = k.state /\ k'.qtl = k.qtl /\ k'.tql = k.tql
      <4>1. CASE p > NumPriorities BY <3>1, <4>1 DEF SetTaskPriority
      <4>2. CASE ~(p > NumPriorities)
        <5>1. p \in 0..NumPriorities BY <3>1, <4>2, TasksAssumption
        <5> QED BY <1>1, <3>1, <5>1, SettingPriority
      <4> QED BY <4>1, <4>2
    <3> QED BY <3>2, <2>2, <1>1, CallTimed
  <2>8. ASSUME NEW t \in Task, NEW n \in SleepTimes, CallSleep(t, n)
        PROVE  TimingInv'
    <3>1. k' = SleepSection(k, n) /\ n \in 0..MaxSleep /\ k.cur # Idle
      BY <2>8, SchedulerAssumption DEF CallSleep, At
    <3>2. k'.tql = 0 /\ IF n = 0 THEN StaysPut(k', k) ELSE FallsAsleep(k', k)
      BY <1>1, <3>1, SleepingSection
    <3>3. k'.state[Idle] = "READY"
      BY <1>1, <3>1, <3>2 DEF StaysPut, FallsAsleep, KernelState
    <3> QED BY <3>2, <3>3, <2>2, CallTimed
  <2> QED BY <1>3, <2>3, <2>4, <2>5, <2>6, <2>7, <2>8 DEF TimingCall, Calls
<1>4. CASE UNCHANGED <<vars, outranked>>
  <2>1. k' = k /\ outranked' = outranked BY <1>4 DEF vars
  <2> QED BY <2>1, <1>1, CallTimed
<1> QED BY <1>2, <1>3, <1>4 DEF TimingNext

\* A task that a better one outranks loses the processor before the interrupts of
\* a quantum are over, whatever is created, called and put to sleep meanwhile:
\* neither tasks_sleep nor arch_yield lengthens a running quantum.
THEOREM PreemptionIsBounded ==
    ASSUME ApiPriorities \subseteq Priority
    PROVE  TimingSpec => []PreemptionBound
<1>1. TimingInit => TimingInv
  <2>1. Init => k = InitialKernel BY DEF Init
  <2> QED BY <2>1, InitialConsistent, QuantumPositive DEF TimingInit, TimingInv
<1>2. /\ TimingInv /\ SchedulerInv /\ SchedulerInv' /\ PriorityInRange
      /\ [TimingNext]_<<vars, outranked>>
      => TimingInv'
  BY TimingKept
<1>3. TimingInv => PreemptionBound BY DEF TimingInv, PreemptionBound, Quantum
<1> QED
  BY <1>1, <1>2, <1>3, TimingImplies, InvariantHolds, PrioritiesStayInRange, PTL
     DEF TimingSpec

-----------------------------------------------------------------------------
\* Events: what the steps of tasks_eventWait and of those who send keep.
EventsTyped ==
    /\ Queued(k)
    /\ started \in BOOLEAN
    /\ pc \in [Task -> Label]
    /\ todo \in [Task -> Loop]
    /\ event \in [Task -> {"NONE", "FIRED"}]
    /\ port \in Ports

\* Only the current task is between the test of tasks_eventWait and the suspension,
\* and while it is there no event is fired for it.
TestStillHolds ==
    \A t \in Task : pc[t] = "crit" => t = k.cur /\ event[t] = "NONE"

EventsInv == EventsTyped /\ TestStillHolds /\ NoLostEvent

\* The conditions for it.
MaskedSenders == IsrSendOn \subseteq {"mega2560"}
NobodySuspends == "SUSPENDED" \notin ApiStates

-----------------------------------------------------------------------------
\* No task is suspended in kernel u that was not in kernel.
NoneSuspended(u, kernel) ==
    \A t \in Task : u.state[t] = "SUSPENDED" => kernel.state[t] = "SUSPENDED"

\* What the scheduler's own steps, and the systick in a critical section, do to
\* the kernel state: none but tasks_setTaskState suspends a task, and the current
\* task changes only outside critical sections.
LEMMA SchedulerSteps ==
    ASSUME EventsTyped,
           \/ Boot \/ Tick \/ NestedTick
           \/ \E t \in Task : Calls(t) \/ LoopSleep(t) \/ Yield(t)
    PROVE  /\ Queued(k')
           /\ NobodySuspends => NoneSuspended(k', k)
           /\ pc[k.cur] = "crit" => k'.cur = k.cur
<1> DEFINE Goal == /\ Queued(k')
                   /\ NobodySuspends => NoneSuspended(k', k)
                   /\ pc[k.cur] = "crit" => k'.cur = k.cur
<1>1. Queued(k) /\ k \in KernelState BY DEF EventsTyped, Queued
<1>2. CASE StartScheduler
  BY <1>1, <1>2 DEF StartScheduler, NoneSuspended
<1>3. ASSUME NEW t \in Task, NEW p \in CreatePriorities, Create(t, p)
      PROVE  Goal
  <2>1. Queued(k) /\ k' = CreateTask(k, t, p) /\ p \in Nat
    BY <1>1, <1>3, SchedulerAssumption DEF Create
  <2>2. /\ Queued(k') /\ k'.cur = k.cur
        /\ k'.state = [k.state EXCEPT ![t] = "READY"]
    BY <2>1, Creating
  <2> QED BY <1>1, <2>2 DEF NoneSuspended, KernelState
<1>4. ASSUME Switch, pc[k.cur] # "crit" PROVE Goal
  <2>1. PICK counted : counted = CountTick(k) OBVIOUS
  <2>2. k' = Dispatch(counted) BY <1>4, <2>1 DEF Switch
  <2>3. /\ Queued(counted)
        /\ \A t \in Task : counted.state[t] \in {k.state[t], "READY"}
    BY <1>1, <2>1, CountingTick
  <2>4. Queued(k') /\ k'.state = counted.state BY <2>2, <2>3, Dispatching
  <2> QED BY <1>4, <2>3, <2>4 DEF NoneSuspended
<1>5. CASE NestedTick
  <2>1. k' = CountTick(k) BY <1>5 DEF NestedTick
  <2>2. /\ Queued(k') /\ k'.cur = k.cur
        /\ \A t \in Task : k'.state[t] \in {k.state[t], "READY"}
    BY <1>1, <2>1, CountingTick
  <2> QED BY <2>2 DEF NoneSuspended
<1>6. ASSUME NEW t \in Task, NEW u \in Task, NEW s \in ApiStates,
             CallSetTaskState(t, u, s)
      PROVE  Goal
  <2>1. k' = SetTaskState(k, u, s) /\ s \in State
    BY <1>6, SchedulerAssumption DEF CallSetTaskState, State
  <2>2. Queued(k') /\ k'.cur = k.cur /\ k'.state = [k.state EXCEPT ![u] = s]
    BY <1>1, <2>1, SettingState
  <2> QED BY <1>1, <1>6, <2>2 DEF NoneSuspended, NobodySuspends, KernelState
<1>7. ASSUME NEW t \in Task, NEW u \in Task, NEW p \in ApiPriorities,
             CallSetTaskPriority(t, u, p)
      PROVE  Goal
  <2>1. k' = SetTaskPriority(k, u, p) /\ p \in Nat
    BY <1>7, SchedulerAssumption DEF CallSetTaskPriority
  <2>2. CASE p > NumPriorities
    BY <1>1, <2>1, <2>2 DEF SetTaskPriority, NoneSuspended
  <2>3. CASE ~(p > NumPriorities)
    <3>1. p \in 0..NumPriorities BY <2>1, <2>3, TasksAssumption
    <3>2. Queued(k') /\ k'.cur = k.cur /\ k'.state = k.state
      BY <1>1, <2>1, <3>1, SettingPriority
    <3> QED BY <3>2 DEF NoneSuspended
  <2> QED BY <2>2, <2>3
<1>8. ASSUME NEW n \in 0..MaxSleep, k' = SleepSection(k, n) PROVE Goal
  <2>1. /\ Queued(k') /\ k'.cur = k.cur
        /\ \A t \in Task : k'.state[t] \in {k.state[t], "SLEEPING"}
    BY <1>1, <1>8, SleepingSection
  <2> QED BY <2>1 DEF NoneSuspended
<1> HIDE DEF Goal
<1>9. ASSUME NEW t \in Task, Calls(t) PROVE Goal
  <2>1. ASSUME NEW n \in SleepTimes, CallSleep(t, n) PROVE Goal
    BY <2>1, <1>8, SchedulerAssumption DEF CallSleep
  <2> QED BY <1>9, <2>1, <1>6, <1>7 DEF Calls
<1>10. ASSUME NEW t \in Task, LoopSleep(t) PROVE Goal
  <2>1. 0 \in 0..MaxSleep BY TasksAssumption
  <2> QED BY <1>8, <1>10, <2>1 DEF LoopSleep
<1>11. ASSUME NEW t \in Task, Yield(t) PROVE Goal
  BY <1>4, <1>11 DEF Yield, At
<1>12. CASE Tick BY <1>4, <1>12 DEF Tick, Goal
<1>13. CASE Boot BY <1>2, <1>3, <1>13 DEF Boot, Goal
<1> QED BY <1>5, <1>9, <1>10, <1>11, <1>12, <1>13 DEF Goal

\* None of them enters a waiting loop or a critical section.
LEMMA SchedulerControl ==
    ASSUME EventsTyped,
           \/ Boot \/ Tick \/ NestedTick
           \/ \E t \in Task : Calls(t) \/ LoopSleep(t) \/ Yield(t)
    PROVE  /\ started' \in BOOLEAN /\ pc' \in [Task -> Label] /\ todo' = todo
           /\ \A t \in Task : pc'[t] = "crit" => pc[t] = "crit"
<1> DEFINE Goal == /\ started' \in BOOLEAN /\ pc' \in [Task -> Label]
                   /\ todo' = todo
                   /\ \A t \in Task : pc'[t] = "crit" => pc[t] = "crit"
<1>1. started \in BOOLEAN /\ pc \in [Task -> Label] BY DEF EventsTyped
<1>2. ASSUME NEW t \in Task, NEW label \in {"run", "retry", "yield"},
             Goto(t, label), UNCHANGED <<started, todo>>
      PROVE  Goal
  BY <1>1, <1>2 DEF Goto, Label
<1>3. ASSUME started' \in BOOLEAN, UNCHANGED <<pc, todo>> PROVE Goal
  BY <1>1, <1>3
<1> HIDE DEF Goal
<1>4. ASSUME NEW t \in Task, Calls(t) \/ LoopSleep(t) \/ Yield(t) PROVE Goal
  BY <1>1, <1>2, <1>3, <1>4
     DEF Calls, CallSetTaskState, CallSetTaskPriority, CallSleep, LoopSleep, Yield
<1>5. CASE Boot BY <1>1, <1>2, <1>3, <1>5 DEF Boot, StartScheduler, Create, Goal
<1>6. CASE Tick \/ NestedTick BY <1>1, <1>3, <1>6 DEF Tick, NestedTick
<1> QED BY <1>4, <1>5, <1>6 DEF Goal

\* tasks_eventSend leaves its target not suspended.
LEMMA Sending ==
    ASSUME EventsTyped, NEW u \in Task, EventSend(u)
    PROVE  /\ Queued(k') /\ k'.cur = k.cur /\ NoneSuspended(k', k)
           /\ k'.state[u] # "SUSPENDED"
<1>1. Queued(k) /\ k \in KernelState BY DEF EventsTyped, Queued
<1>2. CASE k.state[u] # "SUSPENDED"
  BY <1>1, <1>2 DEF EventSend, NoneSuspended
<1>3. CASE k.state[u] = "SUSPENDED"
  <2>1. k' = SetTaskState(k, u, "READY") /\ "READY" \in State
    BY <1>3 DEF EventSend, State
  <2>2. Queued(k') /\ k'.cur = k.cur /\ k'.state = [k.state EXCEPT ![u] = "READY"]
    BY <1>1, <2>1, SettingState
  <2> QED BY <1>1, <2>2 DEF NoneSuspended, KernelState
<1> QED BY <1>2, <1>3

-----------------------------------------------------------------------------
LEMMA EventsInitial == EventsInit => EventsInv
<1> SUFFICES ASSUME EventsInit PROVE EventsInv
  OBVIOUS
<1>1. k = InitialKernel /\ Queued(k) BY InitialConsistent DEF EventsInit, Init
<1>2. EventsTyped BY <1>1 DEF EventsInit, Init, EventsTyped, Label, Loop
<1> QED BY <1>2 DEF EventsInit, Init, EventsInv, TestStillHolds, NoLostEvent

\* Types, with or without masked interrupts.
LEMMA TypesKept ==
    ASSUME EventsTyped, [EventsNext]_eventsVars
    PROVE  EventsTyped'
<1>1. /\ Queued(k) /\ started \in BOOLEAN /\ pc \in [Task -> Label]
      /\ todo \in [Task -> Loop] /\ port \in Ports
      /\ event \in [Task -> {"NONE", "FIRED"}]
  BY DEF EventsTyped
<1>2. ASSUME \/ Boot \/ Tick \/ NestedTick
             \/ \E t \in Task : Calls(t) \/ LoopSleep(t) \/ Yield(t),
             UNCHANGED <<event, port>>
      PROVE  EventsTyped'
  BY <1>1, <1>2, SchedulerSteps, SchedulerControl DEF EventsTyped
<1>3. ASSUME NEW u \in Task, EventSend(u) PROVE EventsTyped'
  BY <1>1, <1>3, Sending DEF EventsTyped, EventSend
<1>4. ASSUME NEW t \in Task, Wait(t) PROVE EventsTyped'
  BY <1>1, <1>4 DEF Wait, TakeEvent, MissEvent, Goto, EventsTyped, Label, Loop
<1>5. ASSUME NEW t \in Task, SuspendSelf(t) PROVE EventsTyped'
  <2>1. "SUSPENDED" \in State /\ k' = SetTaskState(k, t, "SUSPENDED")
    BY <1>5 DEF SuspendSelf, State
  <2>2. Queued(k') BY <1>1, <2>1, SettingState
  <2> QED BY <1>1, <1>5, <2>2 DEF SuspendSelf, Goto, EventsTyped, Label
<1>6. CASE UNCHANGED eventsVars BY <1>1, <1>6 DEF eventsVars, vars, EventsTyped
<1>7. CASE NestedTick BY <1>2, <1>7 DEF NestedTick
<1> QED
  BY <1>2, <1>3, <1>4, <1>5, <1>6, <1>7
     DEF EventsNext, Kernel, TaskSend, IsrSend

\* The test holds until the suspension: no task runs in between, and an interrupt
\* that is taken in between does not send.
LEMMA TestKept ==
    ASSUME EventsTyped, TestStillHolds, MaskedSenders, EventsNext
    PROVE  TestStillHolds'
<1>1. pc \in [Task -> Label] /\ event \in [Task -> {"NONE", "FIRED"}]
  BY DEF EventsTyped
<1>2. ASSUME \/ Boot \/ Tick \/ NestedTick
             \/ \E t \in Task : Calls(t) \/ LoopSleep(t) \/ Yield(t),
             event' = event
      PROVE  TestStillHolds'
  <2>1. /\ pc[k.cur] = "crit" => k'.cur = k.cur
        /\ \A t \in Task : pc'[t] = "crit" => pc[t] = "crit"
    BY <1>2, SchedulerSteps, SchedulerControl
  <2> QED BY <1>2, <2>1 DEF TestStillHolds
<1>3. ASSUME NEW u \in Task, EventSend(u), pc[k.cur] # "crit"
      PROVE  TestStillHolds'
  <2>1. \A t \in Task : pc[t] # "crit" BY <1>3 DEF TestStillHolds
  <2> QED BY <1>3, <2>1 DEF TestStillHolds, EventSend
<1>4. ASSUME NEW u \in Task, IsrSend(u) PROVE TestStillHolds'
  <2>1. Masked BY <1>4 DEF IsrSend, MaskedSenders, Masked
  <2> QED BY <1>3, <1>4, <2>1 DEF IsrSend
<1>5. ASSUME NEW t \in Task, Wait(t) PROVE TestStillHolds'
  <2>1. t = k.cur /\ k' = k BY <1>5 DEF Wait, TakeEvent, MissEvent, At
  <2>2. CASE TakeEvent(t)
    BY <1>1, <2>1, <2>2 DEF TakeEvent, Goto, TestStillHolds
  <2>3. CASE MissEvent(t)
    BY <1>1, <2>1, <2>3 DEF MissEvent, Goto, TestStillHolds
  <2> QED BY <1>5, <2>2, <2>3 DEF Wait
<1>6. ASSUME NEW t \in Task, SuspendSelf(t) PROVE TestStillHolds'
  <2>1. t = k.cur BY <1>6 DEF SuspendSelf, At
  <2>2. \A u \in Task : pc'[u] # "crit"
    BY <1>1, <1>6, <2>1 DEF SuspendSelf, Goto, TestStillHolds
  <2> QED BY <2>2 DEF TestStillHolds
<1>7. CASE NestedTick BY <1>2, <1>7 DEF NestedTick
<1> QED
  BY <1>2, <1>3, <1>4, <1>5, <1>6, <1>7
     DEF EventsNext, Kernel, TaskSend, At

LEMMA EventKept ==
    ASSUME EventsTyped, TestStillHolds, NoLostEvent, NobodySuspends, EventsNext
    PROVE  NoLostEvent'
<1>1. /\ pc \in [Task -> Label] /\ todo \in [Task -> Loop]
      /\ event \in [Task -> {"NONE", "FIRED"}] /\ Queued(k) /\ k \in KernelState
  BY DEF EventsTyped, Queued
<1>2. ASSUME \/ Boot \/ Tick \/ NestedTick
             \/ \E t \in Task : Calls(t) \/ LoopSleep(t) \/ Yield(t),
             event' = event
      PROVE  NoLostEvent'
  <2>1. todo' = todo /\ NoneSuspended(k', k)
    BY <1>2, SchedulerSteps, SchedulerControl
  <2> QED BY <1>2, <2>1 DEF NoLostEvent, NoneSuspended
<1>3. ASSUME NEW u \in Task, EventSend(u) PROVE NoLostEvent'
  <2>1. NoneSuspended(k', k) /\ k'.state[u] # "SUSPENDED" BY <1>3, Sending
  <2> QED BY <1>1, <1>3, <2>1 DEF EventSend, NoLostEvent, NoneSuspended
<1>4. ASSUME NEW t \in Task, Wait(t) PROVE NoLostEvent'
  BY <1>1, <1>4 DEF Wait, TakeEvent, MissEvent, NoLostEvent
<1>5. ASSUME NEW t \in Task, SuspendSelf(t) PROVE NoLostEvent'
  <2>1. pc[t] = "crit" /\ event[t] = "NONE"
    BY <1>5 DEF SuspendSelf, At, TestStillHolds
  <2>2. "SUSPENDED" \in State /\ k' = SetTaskState(k, t, "SUSPENDED")
    BY <1>5 DEF SuspendSelf, State
  <2>3. k'.state = [k.state EXCEPT ![t] = "SUSPENDED"]
    BY <1>1, <2>2, SettingState
  <2> QED BY <1>1, <1>5, <2>1, <2>3 DEF SuspendSelf, NoLostEvent, KernelState
<1>7. CASE NestedTick BY <1>2, <1>7 DEF NestedTick
<1> QED
  BY <1>2, <1>3, <1>4, <1>5, <1>7
     DEF EventsNext, Kernel, TaskSend, IsrSend

-----------------------------------------------------------------------------
\* The data keep their types on either port, whoever sends events and whatever
\* states the tasks give one another.
THEOREM EventsTypeCorrect == EventsSpec => []EventsTypeOK
<1>1. EventsInit => EventsTyped BY EventsInitial DEF EventsInv
<1>2. EventsTyped /\ [EventsNext]_eventsVars => EventsTyped' BY TypesKept
<1>3. EventsTyped => EventsTypeOK
  BY DEF EventsTyped, EventsTypeOK, TypeOK, Queued
<1> QED BY <1>1, <1>2, <1>3, PTL DEF EventsSpec

\* If interrupt handlers only send events where a critical section masks them, and
\* no task suspends another, a task that tasks_eventWait has suspended has no event
\* to take.  Both conditions are needed: with handlers that send on the ATmega128 TLC
\* finds an event that is lost, and a task suspended from outside on its way to an
\* event that has fired is not woken for it either.
THEOREM EventsNotLost ==
    ASSUME IsrSendOn \subseteq {"mega2560"}, "SUSPENDED" \notin ApiStates
    PROVE  EventsSpec => []NoLostEvent
<1>1. MaskedSenders /\ NobodySuspends BY DEF MaskedSenders, NobodySuspends
<1>2. EventsInit => EventsInv BY EventsInitial
<1>3. EventsInv /\ [EventsNext]_eventsVars => EventsInv'
  <2>1. ASSUME EventsInv, EventsNext PROVE EventsInv'
    BY <1>1, <2>1, TypesKept, TestKept, EventKept DEF EventsInv
  <2>2. ASSUME EventsInv, UNCHANGED eventsVars PROVE EventsInv'
    BY <2>2
       DEF EventsInv, EventsTyped, TestStillHolds, NoLostEvent, eventsVars, vars
  <2> QED BY <2>1, <2>2
<1>4. EventsInv => NoLostEvent BY DEF EventsInv
<1> QED BY <1>2, <1>3, <1>4, PTL DEF EventsSpec
=============================================================================
