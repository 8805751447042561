---------------------------- MODULE Philosophers ----------------------------
(***************************************************************************)
(* src/examples/dining-philosophers/main.c: tasks of one priority that     *)
(* share a ring of mutexes, a mutex around their prints, and a semaphore   *)
(* that keeps one of them away from the table, on top of Locks.            *)
(*                                                                         *)
(* A philosopher is a task whose calls come in a fixed order, where Locks  *)
(* lets tasks call what they like: step[t] is the call it makes next.  The *)
(* fork at its left has its name.                                          *)
(***************************************************************************)
EXTENDS Locks, SequencesExt

CONSTANTS
    print,   \* print_mutex
    entry    \* entry_sem

Philosopher == Task \ {Idle}

ASSUME PhilosophersAssumption ==
    /\ print # entry /\ {print, entry} \cap Task = {}
    /\ Lock = Philosopher \cup {print, entry}
    /\ Mutex = Lock \ {entry}
    /\ IsFiniteSet(Philosopher) /\ Philosopher # {}
    /\ MaxCount >= Cardinality(Philosopher)

VARIABLES step

philosophersVars == <<allVars, step>>

\* The order in which main creates them, which is their order at the table.
Table == SetToSeq(Philosopher)

Left(t) == t

Right(t) ==
    LET i == CHOOSE j \in DOMAIN Table : Table[j] = t
    IN  Table[(i % Len(Table)) + 1]

MaxNumberAllowedAll == Len(Table)   \* a mutant

MaxNumberAllowed == Len(Table) - 1

PhilosophersInit ==
    /\ Init
    /\ lock = [l \in Lock |-> SemaphoreInit(IF l = entry THEN MaxNumberAllowed
                                                         ELSE 1)]
    /\ mutexCount = [t \in Task |-> 0]
    /\ held = [t \in Task |-> {}]
    /\ own = k.prio
    /\ step = [t \in Task |-> "greet"]

\* main creates the philosophers in order and starts the scheduler.
Main ==
    /\ \/ \E i \in DOMAIN Table, p \in CreatePriorities :
             /\ ~started
             /\ \A j \in DOMAIN Table : pc[Table[j]] = "new" <=> j >= i
             /\ Create(Table[i], p)
       \/ StartScheduler /\ \A t \in Task : pc[t] # "new"
    /\ own' = k'.prio
    /\ UNCHANGED <<lock, mutexCount, held, step>>

-----------------------------------------------------------------------------
Then(t, there) == step' = [step EXCEPT ![t] = there]

\* ipc_mutexLock and ipc_semaphoreWait, one pass of the loop at a time.
Waits(t, here, l, there) ==
    /\ step[t] = here
    /\ (Acquire(t, l) /\ Then(t, there)) \/ (Block(t, l) /\ UNCHANGED step)

Signals(t, here, l, there) ==
    step[t] = here /\ Signal(t, l) /\ Then(t, there)

Sleeps(t, here, there) ==
    /\ step[t] = here
    /\ \E n \in SleepTimes : CallSleep(t, n)
    /\ UNCHANGED lockVars
    /\ Then(t, there)

Prints(t, here, unlock, there) ==
    Waits(t, here, print, unlock) \/ Signals(t, unlock, print, there)

TakeFork(t) ==
    \/ Waits(t, "left", Left(t), "right")
    \/ Waits(t, "right", Right(t), "tell taken")
    \/ Prints(t, "tell taken", "told taken", "eat")

PutFork(t) ==
    \/ Prints(t, "tell put", "told put", "put left")
    \/ Signals(t, "put left", Left(t), "put right")
    \/ Signals(t, "put right", Right(t), "leave")

\* The test of starveTime, which is 0 before the first meal: how long the others
\* kept a philosopher waiting is left open.
Starves(t) ==
    /\ At(t, "run")
    /\ step[t] = "top"
    /\ \E next \in {"greet", "tell death"} : Then(t, next)
    /\ UNCHANGED allVars

\* A philosopher that breaks out of its loop returns to arch_taskReturnHook,
\* which deletes it unless it holds a mutex, and then loops until it is preempted.
ReturnHook(t) ==
    /\ At(t, "run")
    /\ step[t] = "return"
    /\ k' = IF mutexCount[t] = 0 THEN SetTaskState(k, t, "UNINIT") ELSE k
    /\ Then(t, "dead")
    /\ UNCHANGED <<started, pc, todo, lockVars>>

\* A mutant: the philosopher sits down again without having left.
PhilosopherKeepsSeat(t) ==
    \/ Starves(t)
    \/ Prints(t, "tell death", "told death", "return") \/ ReturnHook(t)
    \/ Prints(t, "greet", "greeted", "enter")
    \/ Waits(t, "enter", entry, "left")
    \/ TakeFork(t)
    \/ Sleeps(t, "eat", "tell put")
    \/ PutFork(t)
    \/ Sleeps(t, "leave", "top")

PhilosophersTask(t) ==
    \/ Starves(t)
    \/ Prints(t, "tell death", "told death", "return") \/ ReturnHook(t)
    \/ Prints(t, "greet", "greeted", "enter")
    \/ Waits(t, "enter", entry, "left")
    \/ TakeFork(t)
    \/ Sleeps(t, "eat", "tell put")
    \/ PutFork(t)
    \/ Signals(t, "leave", entry, "think")
    \/ Sleeps(t, "think", "top")

\* The rest of a waiting call or of tasks_sleep.
Suspends(t) == (LoopSleep(t) \/ Yield(t)) /\ UNCHANGED <<lockVars, step>>

PhilosophersNext ==
    \/ Main
    \/ Tick /\ UNCHANGED <<lockVars, step>>
    \/ \E t \in Philosopher : PhilosophersTask(t) \/ Suspends(t)

PhilosophersSpec == PhilosophersInit /\ [][PhilosophersNext]_philosophersVars

-----------------------------------------------------------------------------
\* No deadlock, main.c:100: "If one less philosopher is allowed to act then there
\* will no deadlock."  Once every philosopher that lives is blocked there is
\* nobody left to wake one; that never happens, also when some have starved.
NoDeadlock ==
    \E t \in Philosopher :
       k.state[t] # "BLOCKED" /\ (step[t] = "dead" =>
                                    \A u \in Philosopher : step[u] = "dead")

\* Between entry_sem's wait and signal.
AtTable(t) ==
    step[t] \in {"left", "right", "tell taken", "told taken", "eat",
                 "tell put", "told put", "put left", "put right", "leave"}

\* No seat is lost and none is taken twice: woken waiters may lose the race for
\* the seat that woke them, and who starves leaves neither seat nor fork behind.
SeatsBalance ==
    /\ lock[entry].count + Cardinality({t \in Philosopher : AtTable(t)})
         = MaxNumberAllowed
    /\ \A t \in Philosopher : ~AtTable(t) => held[t] \subseteq {print}
=============================================================================
