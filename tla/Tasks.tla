------------------------------- MODULE Tasks --------------------------------
(***************************************************************************)
(* The kernel functions that move tasks between queues, as functions from  *)
(* a kernel state to a kernel state: src/kernel/tasks/tasks.c and          *)
(* src/kernel/tasks/sched.c.  Scheduler, Events and Locks are written with *)
(* them, as the C functions call one another.                              *)
(*                                                                         *)
(* A list is the sequence of the tasks whose activeTaskListItem is on it   *)
(* (Lists shows that lists.c provides this).  A kernel state is a record:  *)
(*   list[l]   the contents of list l, front to back                       *)
(*   on[t]     the list named by activeTaskListItem.list of t              *)
(*   state[t], prio[t], sleep[t]   state, priority and sleepTime of t      *)
(*   cur, next   currentTask and nextTask                                  *)
(*   qtl, tql    quantumTicksLeft and taskQuantumLeft                      *)
(***************************************************************************)
EXTENDS Integers, Sequences

CONSTANTS
    Task,            \* tasks, each a kTask_t
    Idle,            \* the task tasks_init creates
    Lock,            \* locks, each with a blockedTasks list
    NumPriorities,   \* CFG_NUMBER_OF_PRIORITIES
    TicksPerTask,    \* CFG_TICKS_PER_TASK
    TickRate,        \* CFG_TICKRATE_MS
    MaxSleep         \* bound on sleepTime: the code has 16 bits

ASSUME TasksAssumption ==
    /\ Idle \in Task
    /\ NumPriorities \in Nat \ {0}
    /\ TicksPerTask \in Nat \ {0}
    /\ TickRate \in Nat
    /\ MaxSleep \in Nat

Priority == 0..NumPriorities - 1

State == {"UNINIT", "SUSPENDED", "BLOCKED", "READY", "SLEEPING"}

Sleeping   == <<"sleeping", 0>>
Suspended  == <<"suspended", 0>>
Blocked(l) == <<"blocked", l>>
NoList     == <<"no list", 0>>     \* a NULL list pointer

\* readyTaskList[p].  One past its end is the next member of
\* kSchedCPUStateStruct_t, sleepingTaskList.
Ready(p) == IF p = NumPriorities THEN Sleeping ELSE <<"ready", p>>

ListName ==
    {<<"ready", p>> : p \in Priority} \cup {Sleeping, Suspended}
                                      \cup {Blocked(l) : l \in Lock}

KernelState ==
    [list  : [ListName -> Seq(Task)],
     on    : [Task -> ListName \cup {NoList}],
     state : [Task -> State],
     prio  : [Task -> 0..NumPriorities],
     sleep : [Task -> 0..MaxSleep],
     cur   : Task,
     next  : Task,
     qtl   : 0..TickRate,
     tql   : 0..TicksPerTask]

\* After tasks_init: the idle task is alone on readyTaskList[0] and current;
\* no other task exists yet.
InitialKernel ==
    [list  |-> [l \in ListName |-> IF l = Ready(0) THEN <<Idle>> ELSE <<>>],
     on    |-> [t \in Task |-> IF t = Idle THEN Ready(0) ELSE NoList],
     state |-> [t \in Task |-> IF t = Idle THEN "READY" ELSE "UNINIT"],
     prio  |-> [t \in Task |-> 0],
     sleep |-> [t \in Task |-> 0],
     cur |-> Idle, next |-> Idle, qtl |-> 0, tql |-> 0]

-----------------------------------------------------------------------------
\* s without its item at position i.
RemovedAt(s, i) ==
    [j \in 1..Len(s) - 1 |-> IF j < i THEN s[j] ELSE s[j + 1]]

Position(s, t) == CHOOSE i \in 1..Len(s) : s[i] = t

\* common_listAddBack(l, &t->activeTaskListItem)
ListAddBack(k, l, t) ==
    [k EXCEPT !.list = [k.list EXCEPT ![l] = Append(@, t)],
              !.on = [k.on EXCEPT ![t] = l]]

\* tasks_unscheduleTask: the item is deleted from the list it says it is on;
\* with a NULL back pointer common_listDeleteAny does nothing.
UnscheduleTask(k, t) ==
    LET l == k.on[t] IN
    IF l = NoList THEN k
    ELSE [k EXCEPT
            !.list = [k.list EXCEPT ![l] = RemovedAt(@, Position(@, t))],
            !.on = [k.on EXCEPT ![t] = NoList]]

\* A mutant: the task is not taken off its list first.
ScheduleTaskTwice(k, t, s) ==
    CASE s = "SUSPENDED" -> ListAddBack(k, Suspended, t)
      [] s = "SLEEPING"  -> ListAddBack(k, Sleeping, t)
      [] s = "READY"     -> ListAddBack(k, Ready(k.prio[t]), t)
      [] OTHER           -> UnscheduleTask(k, t)

\* tasks_scheduleTask: the list is chosen by the new state.
ScheduleTask(k, t, s) ==
    LET u == UnscheduleTask(k, t) IN
    CASE s = "SUSPENDED" -> ListAddBack(u, Suspended, t)
      [] s = "SLEEPING"  -> ListAddBack(u, Sleeping, t)
      [] s = "READY"     -> ListAddBack(u, Ready(k.prio[t]), t)
      [] OTHER           -> u

SetTaskState(k, t, s) ==
    [ScheduleTask(k, t, s) EXCEPT !.state = [@ EXCEPT ![t] = s]]

\* The guard is <=, so the priority one past the last list is let through.
SetTaskPriority(k, t, p) ==
    IF p > NumPriorities THEN k
    ELSE LET u == [UnscheduleTask(k, t) EXCEPT !.prio = [@ EXCEPT ![t] = p]]
         IN  ScheduleTask(u, t, k.state[t])

\* A mutant: the task is queued on the lock before its state is set.
BlockTaskQueuesFirst(k, t, l) ==
    IF k.on[t] = Blocked(l) THEN k
    ELSE SetTaskState(ListAddBack(UnscheduleTask(k, t), Blocked(l), t),
                      t, "BLOCKED")

BlockTask(k, t, l) ==
    IF k.on[t] = Blocked(l) THEN k
    ELSE ListAddBack(SetTaskState(k, t, "BLOCKED"), Blocked(l), t)

UnblockTask(k, t) == SetTaskState(k, t, "READY")

-----------------------------------------------------------------------------
\* A mutant: the walk starts at the second sleeper.
TickSleepingSkipsFirst(k) ==
    LET q   == k.list[Sleeping]
        due == {i \in 2..Len(q) : k.sleep[q[i]] = 0}
    IN  IF due = {} THEN k
        ELSE SetTaskState(k, q[CHOOSE d \in due : \A e \in due : d <= e], "READY")

\* tasks_tickSleeping: walk the sleepers, counting each down, until one has no
\* time left.  Waking that one clears its next link, which ends the walk.
TickSleeping(k) ==
    LET q    == k.list[Sleeping]
        due  == {i \in 1..Len(q) : k.sleep[q[i]] = 0}
        Seen(i) == \A d \in due : i < d
        aged == [k EXCEPT !.sleep =
                    [t \in Task |->
                       IF \E i \in 1..Len(q) : Seen(i) /\ q[i] = t
                       THEN @[t] - 1 ELSE @[t]]]
    IN  IF due = {} THEN aged
        ELSE SetTaskState(aged, q[CHOOSE d \in due : \A e \in due : d <= e],
                          "READY")

\* Two mutants of tasks_search: the walk over the priorities starts one too low;
\* the picked task stays at the head of its list.
SearchSkipsTop(k) ==
    LET ready == {p \in Priority \ {NumPriorities - 1} : k.list[Ready(p)] # <<>>}
        top   == CHOOSE p \in ready : \A r \in ready : p >= r
        t     == Head(k.list[Ready(top)])
    IN  IF ready = {} THEN k
        ELSE [ListAddBack(UnscheduleTask(k, t), Ready(top), t)
                EXCEPT !.next = t, !.tql = TicksPerTask]

SearchKeepsPlace(k) ==
    LET ready == {p \in Priority : k.list[Ready(p)] # <<>>}
        top   == CHOOSE p \in ready : \A r \in ready : p >= r
    IN  IF ready = {} THEN k
        ELSE [k EXCEPT !.next = Head(k.list[Ready(top)]), !.tql = TicksPerTask]

\* tasks_search: the head of the highest non-empty ready list is next, and goes
\* to the back of its list.  (A head points back to its list, so dropping it from
\* the front is deleting it.)
Search(k) ==
    LET ready == {p \in Priority : k.list[Ready(p)] # <<>>}
        top   == CHOOSE p \in ready : \A r \in ready : p >= r
        t     == Head(k.list[Ready(top)])
    IN  IF ready = {} THEN k
        ELSE [ListAddBack(UnscheduleTask(k, t), Ready(top), t)
                EXCEPT !.next = t, !.tql = TicksPerTask]

\* Two mutants of tasks_switchTask: the quantum runs down past 0; not at all.
CountTickPastZero(k) ==
    IF k.qtl # 0 THEN [k EXCEPT !.qtl = @ - 1]
    ELSE [TickSleeping(k) EXCEPT !.qtl = TickRate, !.tql = @ - 1]

CountTickKeepsQuantum(k) ==
    IF k.qtl # 0 THEN [k EXCEPT !.qtl = @ - 1]
    ELSE [TickSleeping(k) EXCEPT !.qtl = TickRate]

\* The first half of tasks_switchTask: a kernel tick when the quantum is over.
CountTick(k) ==
    IF k.qtl # 0 THEN [k EXCEPT !.qtl = @ - 1]
    ELSE [TickSleeping(k) EXCEPT !.qtl = TickRate,
                                 !.tql = IF @ > 0 THEN @ - 1 ELSE 0]

\* The second half, skipped while kCriticalNesting is not 0.
Dispatch(k) ==
    LET s == IF k.tql = 0 THEN Search(k) ELSE k IN [s EXCEPT !.cur = s.next]

\* The critical section of tasks_sleep, called by the current task.
SleepSection(k, n) ==
    LET z == [k EXCEPT !.tql = 0, !.qtl = 0] IN
    IF n = 0 THEN z
    ELSE SetTaskState([z EXCEPT !.sleep = [@ EXCEPT ![k.cur] = n]],
                      k.cur, "SLEEPING")

\* A mutant: the priority is not clipped.
CreateTaskUnclipped(k, t, p) ==
    SetTaskState([k EXCEPT !.prio = [@ EXCEPT ![t] = p]], t, "READY")

\* The critical section of tasks_createTaskStatic, for memory that is zero: the
\* priority is clipped and the task is made ready.
CreateTask(k, t, p) ==
    LET c == IF p < NumPriorities THEN p ELSE NumPriorities - 1
    IN  SetTaskState([k EXCEPT !.prio = [@ EXCEPT ![t] = c]], t, "READY")

-----------------------------------------------------------------------------
\* The list that a task's state and priority say it is on.
Home(k, t) ==
    CASE k.state[t] = "READY"     -> {Ready(k.prio[t])}
      [] k.state[t] = "SLEEPING"  -> {Sleeping}
      [] k.state[t] = "SUSPENDED" -> {Suspended}
      [] k.state[t] = "BLOCKED"   -> {Blocked(l) : l \in Lock}
      [] OTHER                    -> {NoList}

\* Lists and back pointers agree: a list holds no task twice, every task on it
\* points back to it, and a task that points to a list is on it.
NoRepeats(list) ==
    \A l \in ListName : \A i, j \in 1..Len(list[l]) :
       list[l][i] = list[l][j] => i = j

PointBack(list, on) ==
    \A l \in ListName : \A i \in 1..Len(list[l]) : on[list[l][i]] = l

OnTheirLists(list, on) ==
    \A t \in Task : on[t] # NoList =>
       \E i \in 1..Len(list[on[t]]) : list[on[t]][i] = t

Agree(list, on) ==
    NoRepeats(list) /\ PointBack(list, on) /\ OnTheirLists(list, on)

QueuesAgree(k) == Agree(k.list, k.on)

AtHome(k) == \A t \in Task : k.on[t] \in Home(k, t)

\* The ready tasks no ready task outranks: those tasks_search may pick.
Best(k) == {t \in Task : /\ k.state[t] = "READY"
                         /\ \A u \in Task : k.state[u] = "READY" =>
                                              k.prio[u] <= k.prio[t]}
=============================================================================
