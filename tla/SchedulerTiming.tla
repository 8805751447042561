--------------------------- MODULE SchedulerTiming ---------------------------
(***************************************************************************)
(* Scheduler with a history variable that counts systick interrupts, for   *)
(* the bound on preemption.  It does not restrict the scheduler: every     *)
(* step of Scheduler is a step here.                                       *)
(***************************************************************************)
EXTENDS Scheduler

VARIABLE outranked   \* interrupts since the current task was last among the best

\* Counting stops here, past the bound stated below.
MaxOutranked == TicksPerTask * (TickRate + 1) + 1

TimingInit == Init /\ outranked = 0

TimingTick ==
    /\ Tick
    /\ outranked' = IF k'.cur \in Best(k') THEN 0
                    ELSE IF outranked < MaxOutranked THEN outranked + 1
                                                     ELSE outranked

TimingCall ==
    /\ \/ StartScheduler \/ \E t \in Task, p \in CreatePriorities : Create(t, p)
       \/ \E t \in Task : Calls(t) \/ Yield(t)
    /\ outranked' = IF k'.cur \in Best(k') THEN 0 ELSE outranked

TimingNext == TimingTick \/ TimingCall

TimingSpec == TimingInit /\ [][TimingNext]_<<vars, outranked>> /\ Fairness

-----------------------------------------------------------------------------
\* A task that stops being among the best ready tasks, because another woke or
\* was given a higher priority or because it was suspended, keeps the processor
\* for less than its quantum: TicksPerTask kernel ticks of TickRate + 1
\* interrupts.
PreemptionBound == outranked < TicksPerTask * (TickRate + 1)
=============================================================================
