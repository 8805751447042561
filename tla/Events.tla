------------------------------- MODULE Events -------------------------------
(***************************************************************************)
(* Task events, src/kernel/tasks/events.c, on top of Scheduler: a task     *)
(* waits for an event; tasks and interrupt handlers send one.              *)
(*                                                                         *)
(* The ports differ in arch_enterCriticalSection.  On the ATmega2560 it    *)
(* masks interrupts.  On the ATmega128 it only raises kCriticalNesting,    *)
(* which keeps tasks_switchTask from dispatching: interrupts still run in  *)
(* the middle of a critical section.  tasks_eventWait is therefore two     *)
(* steps, its test and its suspension, with pc "crit" in between.          *)
(***************************************************************************)
EXTENDS Scheduler

CONSTANTS
    Ports,      \* the ports the kernel may have been built for
    IsrSendOn   \* those of them on which interrupt handlers send events

ASSUME EventsAssumption ==
    /\ Ports \subseteq {"mega128", "mega2560"}
    /\ IsrSendOn \subseteq Ports

VARIABLES
    event,   \* event.state of each task; its user flags are left out
    port     \* the port this kernel was built for

EventsInit ==
    /\ Init
    /\ event = [t \in Task |-> "NONE"]
    /\ port \in Ports

\* May an interrupt be taken between arch_enterCriticalSection and its exit?
Masked == port = "mega2560"

-----------------------------------------------------------------------------
\* A pass of the loop of tasks_eventWait: the first, from the task's own code,
\* or a later one.  An event that has fired is taken and ends the call.
TakeEvent(t) ==
    /\ At(t, "run") \/ At(t, "retry")
    /\ t # Idle
    /\ event[t] = "FIRED"
    /\ event' = [event EXCEPT ![t] = "NONE"]
    /\ Goto(t, "run")
    /\ todo' = [todo EXCEPT ![t] = "none"]
    /\ UNCHANGED <<k, started, port>>

\* A mutant: the event is not tested.
MissEventUntested(t) ==
    /\ At(t, "run") \/ At(t, "retry")
    /\ t # Idle
    /\ Goto(t, "crit")
    /\ todo' = [todo EXCEPT ![t] = "event"]
    /\ UNCHANGED <<k, started, event, port>>

\* No event: the task is inside the critical section, about to suspend itself.
MissEvent(t) ==
    /\ At(t, "run") \/ At(t, "retry")
    /\ t # Idle
    /\ event[t] # "FIRED"
    /\ Goto(t, "crit")
    /\ todo' = [todo EXCEPT ![t] = "event"]
    /\ UNCHANGED <<k, started, event, port>>

SuspendSelf(t) ==
    /\ At(t, "crit")
    /\ k' = SetTaskState(k, t, "SUSPENDED")
    /\ Goto(t, "sleep")
    /\ UNCHANGED <<started, todo, event, port>>

\* A mutant: the target is not woken.
EventSendNoWake(u) ==
    /\ event' = [event EXCEPT ![u] = "FIRED"]
    /\ UNCHANGED <<k, started, pc, todo, port>>

\* tasks_eventSend: wakes the target if it is suspended, for whatever reason,
\* and marks the event fired, over one that was not yet taken.
EventSend(u) ==
    /\ k' = IF k.state[u] = "SUSPENDED" THEN SetTaskState(k, u, "READY") ELSE k
    /\ event' = [event EXCEPT ![u] = "FIRED"]
    /\ UNCHANGED <<started, pc, todo, port>>

TaskSend(t, u) == At(t, "run") /\ u \in Handle /\ EventSend(u)

\* An interrupt handler sends.
IsrSend(u) ==
    /\ port \in IsrSendOn
    /\ started
    /\ Masked => pc[k.cur] # "crit"
    /\ u \in Handle
    /\ EventSend(u)

\* The systick inside a critical section counts but does not dispatch.
NestedTick ==
    /\ ~Masked
    /\ started
    /\ pc[k.cur] = "crit"
    /\ k' = CountTick(k)
    /\ UNCHANGED <<started, pc, todo, event, port>>

Wait(t) == TakeEvent(t) \/ MissEvent(t)

Kernel(t) ==
    \/ At(t, "retry") /\ Wait(t)
    \/ SuspendSelf(t)
    \/ (LoopSleep(t) \/ Yield(t)) /\ UNCHANGED <<event, port>>

EventsNext ==
    \/ (Boot \/ Tick \/ \E t \in Task : Calls(t)) /\ UNCHANGED <<event, port>>
    \/ NestedTick
    \/ \E u \in Task : IsrSend(u)
    \/ \E t \in Task :
          \/ Kernel(t)
          \/ At(t, "run") /\ Wait(t)
          \/ \E u \in Task : TaskSend(t, u)

eventsVars == <<vars, event, port>>

\* Scheduler's fairness, and a task that is dispatched again and again gets its
\* kernel code executed: a quantum is far longer than a pass of the loop.
EventsFairness ==
    /\ WF_eventsVars(StartScheduler /\ UNCHANGED <<event, port>>)
    /\ WF_eventsVars(Tick /\ UNCHANGED <<event, port>>)
    /\ \A t \in Task : SF_eventsVars(Kernel(t))

EventsSpec == EventsInit /\ [][EventsNext]_eventsVars /\ EventsFairness

-----------------------------------------------------------------------------
EventsTypeOK ==
    /\ TypeOK
    /\ event \in [Task -> {"NONE", "FIRED"}]
    /\ port \in Ports

\* No event is lost: a task suspended by tasks_eventWait has none to take, so
\* the sender that fires one also finds it suspended and wakes it.  The test
\* and the suspension are one critical section for this reason.
NoLostEvent ==
    \A t \in Task :
       todo[t] = "event" /\ k.state[t] = "SUSPENDED" => event[t] = "NONE"

\* A task waiting for an event that has fired takes it, whatever other tasks
\* and interrupts do meanwhile.
EventDelivered ==
    \A t \in Task : todo[t] = "event" /\ event[t] = "FIRED" ~> todo[t] = "none"
=============================================================================
