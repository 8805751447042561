----------------------------- MODULE Scheduler ------------------------------
(***************************************************************************)
(* The scheduler as it runs: main creates tasks and starts the systick     *)
(* timer (src/kernel/init.c), then tasks call the kernel and the timer     *)
(* interrupts them.  A critical section is one step here, which is what    *)
(* the ATmega2560 port provides by masking interrupts; Events opens one up *)
(* for the ATmega128 port, which does not mask them.                       *)
(*                                                                         *)
(* A call that spans several critical sections is several steps, with the  *)
(* timer or another task free to run in between: pc[t] says where task t   *)
(* is, and todo[t] which waiting loop it is in.  Events and Locks extend   *)
(* this module with the calls that wait.                                   *)
(***************************************************************************)
EXTENDS Tasks

CONSTANTS
    CreatePriorities,   \* priorities passed to tasks_createTask
    ApiPriorities,      \* priorities passed to tasks_setTaskPriority
    ApiStates,          \* states passed to tasks_setTaskState
    SleepTimes          \* times passed to tasks_sleep

ASSUME SchedulerAssumption ==
    /\ CreatePriorities \subseteq Nat
    /\ ApiPriorities \subseteq Nat
    /\ ApiStates \subseteq {"SUSPENDED", "READY", "SLEEPING"}  \* tasks.h:201
    /\ SleepTimes \subseteq 0..MaxSleep
    /\ "none" \notin Lock /\ "event" \notin Lock

VARIABLES
    k,         \* the kernel state
    started,   \* kernel_startScheduler has enabled the systick
    pc,        \* where each task is
    todo       \* the waiting loop each task is in

vars == <<k, started, pc, todo>>

\* "new"    not created yet         "run"    in its own code
\* "retry"  at the top of a waiting loop
\* "crit"   inside a critical section that interrupts can enter
\* "sleep"  about to call tasks_sleep(0) from a waiting loop
\* "yield"  in tasks_sleep, about to call arch_yield
Label == {"new", "run", "retry", "crit", "sleep", "yield"}

Loop == {"none", "event"} \cup Lock

Init ==
    /\ k = InitialKernel
    /\ started = FALSE
    /\ pc = [t \in Task |-> IF t = Idle THEN "run" ELSE "new"]
    /\ todo = [t \in Task |-> "none"]

Goto(t, label) == pc' = [pc EXCEPT ![t] = label]

At(t, label) == started /\ t = k.cur /\ pc[t] = label

\* The tasks whose handles a caller may hold.  Idle's is not given out.
Handle == {t \in Task \ {Idle} : pc[t] # "new"}

-----------------------------------------------------------------------------
\* tasks_switchTask: its two halves, one after the other.
Switch == \E counted \in {CountTick(k)} : k' = Dispatch(counted)

\* By main, or by the task that is running.
Create(t, p) ==
    /\ started => pc[k.cur] = "run"
    /\ pc[t] = "new"
    /\ k' = CreateTask(k, t, p)
    /\ Goto(t, "run")
    /\ UNCHANGED <<started, todo>>

StartScheduler ==
    /\ ~started
    /\ started' = TRUE
    /\ UNCHANGED <<k, pc, todo>>

CallSetTaskState(t, u, s) ==
    /\ At(t, "run")
    /\ u \in Handle
    /\ k' = SetTaskState(k, u, s)
    /\ UNCHANGED <<started, pc, todo>>

CallSetTaskPriority(t, u, p) ==
    /\ At(t, "run")
    /\ u \in Handle
    /\ k' = SetTaskPriority(k, u, p)
    /\ UNCHANGED <<started, pc, todo>>

\* tasks_sleep called by a task's own code.
CallSleep(t, n) ==
    /\ At(t, "run")
    /\ t # Idle
    /\ k' = SleepSection(k, n)
    /\ Goto(t, "yield")
    /\ UNCHANGED <<started, todo>>

\* tasks_sleep(0) called from the loop of a call that waits.
LoopSleep(t) ==
    /\ At(t, "sleep")
    /\ k' = SleepSection(k, 0)
    /\ Goto(t, "yield")
    /\ UNCHANGED <<started, todo>>

\* arch_yield runs tasks_switchTask on the spot.  When the task is dispatched
\* again the call returns, to its own code or to the loop it was in.
Yield(t) ==
    /\ At(t, "yield")
    /\ Switch
    /\ Goto(t, IF todo[t] = "none" THEN "run" ELSE "retry")
    /\ UNCHANGED <<started, todo>>

\* The systick interrupt, outside critical sections.
Tick ==
    /\ started
    /\ pc[k.cur] # "crit"
    /\ Switch
    /\ UNCHANGED <<started, pc, todo>>

Boot ==
    \/ StartScheduler
    \/ ~started /\ \E t \in Task, p \in CreatePriorities : Create(t, p)

Calls(t) ==
    \/ \E u \in Task, s \in ApiStates : CallSetTaskState(t, u, s)
    \/ \E u \in Task, p \in ApiPriorities : CallSetTaskPriority(t, u, p)
    \/ \E n \in SleepTimes : CallSleep(t, n)

Next ==
    \/ StartScheduler \/ \E t \in Task, p \in CreatePriorities : Create(t, p)
    \/ Tick
    \/ \E t \in Task : Calls(t) \/ Yield(t)

\* main starts the scheduler, the timer keeps firing, and straight-line kernel
\* code runs on while its task is current.  A task's own code promises nothing.
Fairness ==
    WF_vars(StartScheduler) /\ WF_vars(Tick) /\ \A t \in Task : WF_vars(Yield(t))

Spec == Init /\ [][Next]_vars /\ Fairness

-----------------------------------------------------------------------------
TypeOK ==
    /\ k \in KernelState
    /\ started \in BOOLEAN
    /\ pc \in [Task -> Label]
    /\ todo \in [Task -> Loop]

\* Between critical sections every task is on exactly the list its state and
\* priority name, once, and its back pointer says so: the walks of the ready,
\* sleeping and suspended lists never lose a task or meet it twice.
QueuesConsistent == QueuesAgree(k) /\ AtHome(k)

\* A dispatch never picks a task that is not ready, nor one that a ready task
\* outranks (tasks_search, sched.c:112-127).
DispatchesBest == [][k'.cur # k.cur => k'.cur \in Best(k')]_vars

\* A sleeper wakes however the other tasks sleep, yield and are rescheduled: the
\* walk of tasks_tickSleeping stops at each task it wakes, but only delays the
\* sleepers behind it.
SleepersWake ==
    \A t \in Task : k.state[t] = "SLEEPING" ~> k.state[t] # "SLEEPING"

\* Round robin: a task that stays among the best ready tasks runs again and
\* again, whatever the tasks it shares its priority with do.
RoundRobin ==
    \A t \in Task : k.cur # t /\ t \in Best(k) ~> k.cur = t \/ t \notin Best(k)

\* The range tasks.h:160 gives for the value of tasks_getTaskPriority.
PriorityInRange == \A t \in Task : k.prio[t] \in Priority
=============================================================================
