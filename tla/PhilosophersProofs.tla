------------------------- MODULE PhilosophersProofs -------------------------
(***************************************************************************)
(* The seats and forks of Philosophers, for a table of any size, any       *)
(* priorities and quanta; and, for philosophers of one priority as main    *)
(* creates them, that the table never comes to a standstill.  What Locks   *)
(* promises of tasks that call what they like is cited for philosophers,   *)
(* whose steps are all steps of Locks but the return hook.                 *)
(***************************************************************************)
EXTENDS Philosophers, LocksProofs

TableStep == {"left", "right", "tell taken", "told taken", "eat",
              "tell put", "told put", "put left", "put right", "leave"}

Step == TableStep \cup {"greet", "greeted", "enter", "think", "top",
                        "tell death", "told death", "return", "dead"}

\* The mutexes a philosopher holds when s is its next call.
HoldsAt(t, s) ==
    (IF s \in {"right", "tell taken", "told taken", "eat", "tell put", "told put",
               "put left"} THEN {Left(t)} ELSE {})
      \cup (IF s \in {"tell taken", "told taken", "eat", "tell put", "told put",
                      "put left"} THEN {Right(t)} ELSE {})
      \cup (IF s = "put right" THEN {Right(t)} \ {Left(t)} ELSE {})
      \cup (IF s \in {"greeted", "told death", "told taken", "told put"}
            THEN {print} ELSE {})

Seated == {t \in Philosopher : AtTable(t)}

SeatsInv ==
    /\ DOMAIN lock = Lock
    /\ lock[entry] \in [count : Int, base : {0}, owner : {NoTask}]
    /\ held \in [Task -> SUBSET Lock]
    /\ step \in [Task -> Step]
    /\ \A t \in Philosopher : held[t] = HoldsAt(t, step[t])
    /\ lock[entry].count + Cardinality(Seated) = MaxNumberAllowed

-----------------------------------------------------------------------------
LEMMA Names ==
    /\ entry \in Lock \ Mutex /\ print \in Mutex
    /\ print \notin Philosopher /\ entry \notin Philosopher
    /\ Philosopher \subseteq Mutex /\ Philosopher \subseteq Task
  BY PhilosophersAssumption DEF Philosopher

\* The table seats every philosopher once.
LEMMA TableSeats ==
    /\ Cardinality(Philosopher) \in Nat
    /\ Table \in [1..Cardinality(Philosopher) -> Philosopher]
    /\ \A t \in Philosopher : \E i \in 1..Cardinality(Philosopher) : Table[i] = t
    /\ IsInjective(Table)
<1> DEFINE n == Cardinality(Philosopher)
<1>1. IsFiniteSet(Philosopher) BY PhilosophersAssumption
<1>2. n \in Nat /\ ExistsBijection(1..n, Philosopher)
  BY <1>1, FS_CardinalityType
<1>3. PICK f : f \in Bijection(1..n, Philosopher)
  BY <1>2 DEF ExistsBijection
<1>4. f \in [1..n -> Philosopher] /\ IsInjective(f)
  BY <1>3 DEF Bijection, Injection, Surjection, IsInjective
<1>5. Table \in [1..n -> Philosopher] /\ IsInjective(Table)
  BY <1>4 DEF Table, SetToSeq
<1>6. Table \in Injection(1..n, Philosopher)
  BY <1>5 DEF Injection, IsInjective
<1>7. Cardinality(1..n) = n BY <1>2, FS_Interval
<1>8. Table \in Surjection(1..n, Philosopher) BY <1>1, <1>6, <1>7, FS_Injection
<1>9. \A t \in Philosopher : \E j \in 1..n : Table[j] = t BY <1>8 DEF Surjection
<1> QED BY <1>2, <1>5, <1>9

LEMMA TableLength ==
    /\ DOMAIN Table = 1..Len(Table) /\ Len(Table) \in Nat \ {0}
    /\ MaxNumberAllowed \in Nat
<1>1. Table \in [1..Cardinality(Philosopher) -> Philosopher] BY TableSeats
<1>2. DOMAIN Table = 1..Len(Table) /\ Len(Table) \in Nat
  BY <1>1, TableSeats
<1>3. PICK t : t \in Philosopher BY PhilosophersAssumption
<1>4. \E j \in DOMAIN Table : Table[j] = t BY <1>1, <1>3, TableSeats
<1>5. Len(Table) # 0 BY <1>2, <1>4
<1> QED BY <1>2, <1>5 DEF MaxNumberAllowed

\* Forks are mutexes.
LEMMA Forks ==
    ASSUME NEW t \in Philosopher
    PROVE  /\ Left(t) \in Mutex \ {print}
           /\ Right(t) \in Mutex \ {print}
<1> DEFINE n == Len(Table)
           i == CHOOSE j \in DOMAIN Table : Table[j] = t
<1>1. Table \in [1..n -> Philosopher] BY TableSeats, TableLength
<1>2. i \in 1..n BY TableSeats, TableLength
<1>3. (i % n) + 1 \in 1..n BY <1>2, TableLength
<1>4. Right(t) \in Philosopher BY <1>1, <1>3 DEF Right
<1> QED BY <1>4, Names DEF Left

-----------------------------------------------------------------------------
\* The sum of free and taken seats, as one philosopher goes from step to step.
Occupies(s) == IF s \in TableStep THEN 1 ELSE 0

LEMMA SeatedIsFinite == IsFiniteSet(Seated) /\ Cardinality(Seated) \in Nat
<1>1. Seated \in SUBSET Philosopher BY DEF Seated
<1>2. IsFiniteSet(Philosopher) BY PhilosophersAssumption
<1>3. IsFiniteSet(Seated) BY <1>1, <1>2, FS_Subset
<1> QED BY <1>3, FS_CardinalityType

LEMMA Moving ==
    ASSUME NEW t \in Philosopher, NEW s \in Step, step \in [Task -> Step],
           step' = [step EXCEPT ![t] = s]
    PROVE  Cardinality(Seated') = Cardinality(Seated) - Occupies(step[t]) + Occupies(s)
<1>1. t \in Task BY Names
<1>2. \A u \in Philosopher : /\ AtTable(u) <=> step[u] \in TableStep
                             /\ AtTable(u)' <=> step'[u] \in TableStep
  BY DEF AtTable, TableStep
<1>3. t \in Seated <=> step[t] \in TableStep BY <1>2 DEF Seated
<1>4. CASE s \in TableStep
  <2>1. Seated' = Seated \cup {t}
    <3>1. \A u \in Philosopher : u \in Seated' <=> u \in Seated \/ u = t
      BY <1>1, <1>2, <1>4, Names DEF Seated
    <3>2. Seated' \subseteq Philosopher /\ Seated \subseteq Philosopher
      BY DEF Seated, Philosopher
    <3> QED BY <3>1, <3>2
  <2>2. Cardinality(Seated') = IF t \in Seated THEN Cardinality(Seated)
                                               ELSE Cardinality(Seated) + 1
    BY <2>1, SeatedIsFinite, FS_AddElement
  <2> QED BY <1>3, <1>4, <2>2, SeatedIsFinite DEF Occupies
<1>5. CASE s \notin TableStep
  <2>1. Seated' = Seated \ {t}
    <3>1. \A u \in Philosopher : u \in Seated' <=> u \in Seated /\ u # t
      BY <1>1, <1>2, <1>5, Names DEF Seated
    <3>2. Seated' \subseteq Philosopher /\ Seated \subseteq Philosopher
      BY DEF Seated, Philosopher
    <3> QED BY <3>1, <3>2
  <2>2. Cardinality(Seated') = IF t \in Seated THEN Cardinality(Seated) - 1
                                               ELSE Cardinality(Seated)
    BY <2>1, SeatedIsFinite, FS_RemoveElement
  <2> QED BY <1>3, <1>5, <2>2, SeatedIsFinite DEF Occupies
<1> QED BY <1>4, <1>5

\* What a philosopher's call has to do to keep the seats and forks in order.
Proceeds(t, s) ==
    /\ step' = [step EXCEPT ![t] = s]
    /\ held' = [held EXCEPT ![t] = HoldsAt(t, s)]
    /\ DOMAIN lock' = Lock
    /\ lock'[entry] \in [count : Int, base : {0}, owner : {NoTask}]
    /\ lock'[entry].count = lock[entry].count + Occupies(step[t]) - Occupies(s)

LEMMA HoldsMutexes ==
    ASSUME NEW t \in Philosopher, NEW s
    PROVE  HoldsAt(t, s) \subseteq Lock
  BY Forks, Names, LocksAssumption DEF HoldsAt

LEMMA ProceedingKeeps ==
    ASSUME SeatsInv, NEW t \in Philosopher, NEW s \in Step, Proceeds(t, s)
    PROVE  SeatsInv'
<1>1. t \in Task BY Names
<1>2. held' \in [Task -> SUBSET Lock] BY <1>1, HoldsMutexes DEF SeatsInv, Proceeds
<1>3. step' \in [Task -> Step] BY <1>1 DEF SeatsInv, Proceeds
<1>4. \A u \in Philosopher : held'[u] = HoldsAt(u, step'[u])
  BY <1>1, Names DEF SeatsInv, Proceeds
<1>5. Cardinality(Seated') = Cardinality(Seated) - Occupies(step[t]) + Occupies(s)
  BY Moving DEF SeatsInv, Proceeds
<1>6. Occupies(step[t]) \in Int /\ Occupies(s) \in Int BY DEF Occupies
<1>7. lock[entry].count \in Int BY DEF SeatsInv
<1>8. lock'[entry].count + Cardinality(Seated') = MaxNumberAllowed
  BY <1>5, <1>6, <1>7, SeatedIsFinite DEF SeatsInv, Proceeds
<1>9. \A u \in Philosopher : HoldsAt(u, step'[u]) = HoldsAt(u, step[u])'
  BY DEF HoldsAt, Left, Right, Table
<1>10. MaxNumberAllowed' = MaxNumberAllowed BY DEF MaxNumberAllowed, Table
<1>11. Philosopher' = Philosopher BY DEF Philosopher
<1> QED BY <1>2, <1>3, <1>4, <1>8, <1>9, <1>10, <1>11 DEF SeatsInv, Proceeds

LEMMA EntryStandingKeeps ==
    ASSUME SeatsInv, DOMAIN lock' = Lock, lock'[entry] = lock[entry],
           UNCHANGED <<held, step>>
    PROVE  SeatsInv'
<1>1. Seated' = Seated BY DEF Seated, AtTable, Philosopher
<1>2. \A u \in Philosopher : HoldsAt(u, step[u])' = HoldsAt(u, step[u])
  BY DEF HoldsAt, Left, Right, Table
<1>3. MaxNumberAllowed' = MaxNumberAllowed BY DEF MaxNumberAllowed, Table
<1>4. Philosopher' = Philosopher BY DEF Philosopher
<1>5. lock[entry].count + Cardinality(Seated') = MaxNumberAllowed
  BY <1>1 DEF SeatsInv
<1>6. \A u \in Philosopher : held[u] = HoldsAt(u, step[u]) BY DEF SeatsInv
<1> QED BY <1>2, <1>3, <1>4, <1>5, <1>6 DEF SeatsInv

LEMMA StandingKeeps ==
    ASSUME SeatsInv, UNCHANGED <<lock, held, step>>
    PROVE  SeatsInv'
  BY EntryStandingKeeps DEF SeatsInv

-----------------------------------------------------------------------------
\* Waiting for a mutex: another pass changes nothing here, the last takes it.
LEMMA WaitsMoves ==
    ASSUME SeatsInv, NEW t \in Philosopher, NEW here, NEW l \in Mutex, NEW there \in Step,
           Waits(t, here, l, there),
           Occupies(there) = Occupies(here),
           HoldsAt(t, there) = HoldsAt(t, here) \cup {l}
    PROVE  SeatsInv'
<1>1. l # entry BY Names
<1>2. step[t] = here /\ held[t] = HoldsAt(t, here) BY DEF Waits, SeatsInv
<1>3. CASE Acquire(t, l) /\ Then(t, there)
  <2>1. held' = [held EXCEPT ![t] = @ \cup {l}] BY <1>3 DEF Acquire
  <2>2. PICK r : lock' = [lock EXCEPT ![l] = r] BY <1>3 DEF Acquire
  <2>3. DOMAIN lock' = Lock /\ lock'[entry] = lock[entry]
    BY <1>1, <2>2, Names DEF SeatsInv
  <2>4. lock[entry].count \in Int BY DEF SeatsInv
  <2>5. Occupies(there) \in Int BY DEF Occupies
  <2>6. Proceeds(t, there)
    BY <1>2, <1>3, <2>1, <2>3, <2>4, <2>5 DEF Proceeds, Then, SeatsInv
  <2> QED BY <2>6, ProceedingKeeps
<1>4. CASE Block(t, l) /\ UNCHANGED step
  <2>1. DOMAIN lock' = Lock /\ lock'[entry] = lock[entry] /\ held' = held
    BY <1>1, <1>4 DEF Block, SeatsInv
  <2> QED BY <1>4, <2>1, EntryStandingKeeps
<1> QED BY <1>3, <1>4 DEF Waits

LEMMA SignalsMoves ==
    ASSUME SeatsInv, ~StrayUnlocks,
           NEW t \in Philosopher, NEW here, NEW l \in Mutex, NEW there \in Step,
           Signals(t, here, l, there),
           Occupies(there) = Occupies(here),
           HoldsAt(t, there) = HoldsAt(t, here) \ {l}
    PROVE  SeatsInv'
<1>1. l # entry BY Names
<1>2. step[t] = here /\ held[t] = HoldsAt(t, here) BY DEF Signals, SeatsInv
<1>3. UnlockOwned(t, l) BY DEF Signals, Signal, UnlockForeign, SignalSemaphore
<1>4. /\ DOMAIN lock' = Lock /\ lock'[entry] = lock[entry]
      /\ held' = [held EXCEPT ![t] = @ \ {l}]
  BY <1>1, <1>3 DEF UnlockOwned, SeatsInv
<1>5. lock[entry].count \in Int BY DEF SeatsInv
<1>6. Occupies(there) \in Int BY DEF Occupies
<1>7. Proceeds(t, there) BY <1>2, <1>4, <1>5, <1>6 DEF Proceeds, Signals, Then, SeatsInv
<1> QED BY <1>7, ProceedingKeeps

\* A call that touches no lock.
LEMMA OtherMoves ==
    ASSUME SeatsInv, NEW t \in Philosopher, NEW there \in Step,
           Then(t, there), UNCHANGED <<lock, held>>,
           Occupies(there) = Occupies(step[t]),
           HoldsAt(t, there) = HoldsAt(t, step[t])
    PROVE  SeatsInv'
<1>1. t \in Task BY Names
<1>2. held[t] = HoldsAt(t, there) /\ held' = held BY DEF SeatsInv
<1>3. held' = [held EXCEPT ![t] = HoldsAt(t, there)] BY <1>1, <1>2 DEF SeatsInv
<1>4. /\ DOMAIN lock' = Lock
      /\ lock'[entry] \in [count : Int, base : {0}, owner : {NoTask}]
      /\ lock'[entry].count = lock[entry].count
      /\ lock[entry].count \in Int
  BY DEF SeatsInv
<1>5. Occupies(there) \in Int BY DEF Occupies
<1>6. lock'[entry].count = lock[entry].count + Occupies(step[t]) - Occupies(there)
  BY <1>4, <1>5
<1>7. Proceeds(t, there) BY <1>3, <1>4, <1>6 DEF Proceeds, Then
<1> QED BY <1>7, ProceedingKeeps

\* Waiting for a seat, and giving it back.
LEMMA Entering ==
    ASSUME SeatsInv, NEW t \in Philosopher, Waits(t, "enter", entry, "left")
    PROVE  SeatsInv'
<1>1. t \in Task /\ entry \in Lock \ Mutex BY Names
<1>2. HoldsAt(t, "left") = HoldsAt(t, "enter") BY DEF HoldsAt
<1>3. CASE Acquire(t, entry) /\ Then(t, "left")
  <2>1. /\ lock' = [lock EXCEPT ![entry].count = @ - 1] /\ held' = held
    BY <1>1, <1>3 DEF Acquire
  <2>2. /\ DOMAIN lock' = Lock
        /\ lock'[entry] = [lock[entry] EXCEPT !.count = @ - 1]
    BY <1>1, <2>1 DEF SeatsInv
  <2>3. /\ lock'[entry] \in [count : Int, base : {0}, owner : {NoTask}]
        /\ lock'[entry].count = lock[entry].count - 1
        /\ lock[entry].count \in Int
    BY <2>2 DEF SeatsInv
  <2>4. step[t] = "enter" /\ Occupies("enter") = 0 /\ Occupies("left") = 1
    BY DEF Waits, Occupies, TableStep
  <2>5. held' = [held EXCEPT ![t] = HoldsAt(t, "left")]
    BY <1>1, <1>2, <2>1, <2>4 DEF SeatsInv
  <2>6. Proceeds(t, "left") BY <1>3, <2>2, <2>3, <2>4, <2>5 DEF Proceeds, Then
  <2> QED BY <2>6, ProceedingKeeps DEF Step, TableStep
<1>4. CASE Block(t, entry) /\ UNCHANGED step
  BY <1>1, <1>4, StandingKeeps DEF Block
<1> QED BY <1>3, <1>4 DEF Waits

LEMMA Leaving ==
    ASSUME SeatsInv, NEW t \in Philosopher, Signals(t, "leave", entry, "think")
    PROVE  SeatsInv'
<1>1. t \in Task /\ entry \in Lock \ Mutex BY Names
<1>2. HoldsAt(t, "think") = HoldsAt(t, "leave") BY DEF HoldsAt
<1>3. SignalSemaphore(t, entry)
  BY <1>1 DEF Signals, Signal, UnlockOwned, UnlockForeign
<1>4. lock' = [lock EXCEPT ![entry].count = @ + 1] /\ held' = held
  BY <1>3 DEF SignalSemaphore
<1>5. /\ DOMAIN lock' = Lock
      /\ lock'[entry] = [lock[entry] EXCEPT !.count = @ + 1]
  BY <1>1, <1>4 DEF SeatsInv
<1>6. /\ lock'[entry] \in [count : Int, base : {0}, owner : {NoTask}]
      /\ lock'[entry].count = lock[entry].count + 1
      /\ lock[entry].count \in Int
  BY <1>5 DEF SeatsInv
<1>7. step[t] = "leave" /\ Occupies("leave") = 1 /\ Occupies("think") = 0
  BY DEF Signals, Occupies, TableStep
<1>8. held' = [held EXCEPT ![t] = HoldsAt(t, "think")]
  BY <1>1, <1>2, <1>4, <1>7 DEF SeatsInv
<1>9. Proceeds(t, "think") BY <1>5, <1>6, <1>7, <1>8 DEF Proceeds, Signals, Then
<1> QED BY <1>9, ProceedingKeeps DEF Step

-----------------------------------------------------------------------------
LEMMA PrintsMove ==
    ASSUME SeatsInv, ~StrayUnlocks, NEW t \in Philosopher,
           NEW here \in Step, NEW unlock \in Step, NEW there \in Step,
           Prints(t, here, unlock, there),
           Occupies(unlock) = Occupies(here), Occupies(there) = Occupies(unlock),
           HoldsAt(t, unlock) = HoldsAt(t, here) \cup {print},
           HoldsAt(t, there) = HoldsAt(t, unlock) \ {print}
    PROVE  SeatsInv'
<1>1. print \in Mutex BY Names
<1>2. CASE Waits(t, here, print, unlock) BY <1>1, <1>2, WaitsMoves
<1>3. CASE Signals(t, unlock, print, there) BY <1>1, <1>3, SignalsMoves
<1> QED BY <1>2, <1>3 DEF Prints

LEMMA TakeForkMoves ==
    ASSUME SeatsInv, ~StrayUnlocks, NEW t \in Philosopher, TakeFork(t)
    PROVE  SeatsInv'
<1>1. Left(t) \in Mutex \ {print} /\ Right(t) \in Mutex \ {print} BY Forks
<1>2. {"left", "right", "tell taken", "told taken", "eat"} \subseteq TableStep
  BY DEF TableStep
<1>3. \A s \in TableStep : s \in Step /\ Occupies(s) = 1 BY DEF Step, Occupies
<1>4. CASE Waits(t, "left", Left(t), "right")
  <2>1. HoldsAt(t, "right") = HoldsAt(t, "left") \cup {Left(t)} BY DEF HoldsAt
  <2> QED BY <1>1, <1>2, <1>3, <1>4, <2>1, WaitsMoves
<1>5. CASE Waits(t, "right", Right(t), "tell taken")
  <2>1. HoldsAt(t, "tell taken") = HoldsAt(t, "right") \cup {Right(t)} BY DEF HoldsAt
  <2> QED BY <1>1, <1>2, <1>3, <1>5, <2>1, WaitsMoves
<1>6. CASE Prints(t, "tell taken", "told taken", "eat")
  <2>1. HoldsAt(t, "told taken") = HoldsAt(t, "tell taken") \cup {print}
    BY DEF HoldsAt
  <2>2. HoldsAt(t, "eat") = HoldsAt(t, "told taken") \ {print}
    BY <1>1 DEF HoldsAt
  <2> QED BY <1>2, <1>3, <1>6, <2>1, <2>2, PrintsMove
<1> QED BY <1>4, <1>5, <1>6 DEF TakeFork

LEMMA PutForkMoves ==
    ASSUME SeatsInv, ~StrayUnlocks, NEW t \in Philosopher, PutFork(t)
    PROVE  SeatsInv'
<1>1. Left(t) \in Mutex \ {print} /\ Right(t) \in Mutex \ {print} BY Forks
<1>2. {"tell put", "told put", "put left", "put right", "leave"} \subseteq TableStep
  BY DEF TableStep
<1>3. \A s \in TableStep : s \in Step /\ Occupies(s) = 1 BY DEF Step, Occupies
<1>4. CASE Prints(t, "tell put", "told put", "put left")
  <2>1. HoldsAt(t, "told put") = HoldsAt(t, "tell put") \cup {print}
    BY DEF HoldsAt
  <2>2. HoldsAt(t, "put left") = HoldsAt(t, "told put") \ {print}
    BY <1>1 DEF HoldsAt
  <2> QED BY <1>2, <1>3, <1>4, <2>1, <2>2, PrintsMove
<1>5. CASE Signals(t, "put left", Left(t), "put right")
  <2>1. HoldsAt(t, "put right") = HoldsAt(t, "put left") \ {Left(t)} BY DEF HoldsAt
  <2> QED BY <1>1, <1>2, <1>3, <1>5, <2>1, SignalsMoves
<1>6. CASE Signals(t, "put right", Right(t), "leave")
  <2>1. HoldsAt(t, "leave") = HoldsAt(t, "put right") \ {Right(t)} BY DEF HoldsAt
  <2> QED BY <1>1, <1>2, <1>3, <1>6, <2>1, SignalsMoves
<1> QED BY <1>4, <1>5, <1>6 DEF PutFork

LEMMA PhilosopherKeeps ==
    ASSUME SeatsInv, ~StrayUnlocks, NEW t \in Philosopher, PhilosophersTask(t)
    PROVE  SeatsInv'
<1>1. \A s \in {"top", "greet", "enter", "tell death", "return", "dead", "eat",
                "tell put", "think", "greeted", "told death"} : s \in Step
  BY DEF Step, TableStep
<1>2. \A s \in {"top", "greet", "enter", "tell death", "return", "dead", "think",
                "greeted", "told death"} : Occupies(s) = 0
  BY DEF Occupies, TableStep
<1>3. \A s \in {"top", "greet", "enter", "tell death", "return", "dead", "think"} :
         HoldsAt(t, s) = {}
  BY DEF HoldsAt
<1>4. HoldsAt(t, "greeted") = {print} /\ HoldsAt(t, "told death") = {print}
  BY DEF HoldsAt
<1>5. CASE Starves(t)
  <2>1. UNCHANGED <<lock, held>> BY <1>5 DEF Starves, allVars, lockVars
  <2>2. PICK next \in {"greet", "tell death"} : Then(t, next) BY <1>5 DEF Starves
  <2>3. step[t] = "top" BY <1>5 DEF Starves
  <2> QED BY <1>1, <1>2, <1>3, <2>1, <2>2, <2>3, OtherMoves
<1>6. CASE Prints(t, "tell death", "told death", "return")
  <2>1. /\ HoldsAt(t, "told death") = HoldsAt(t, "tell death") \cup {print}
        /\ HoldsAt(t, "return") = HoldsAt(t, "told death") \ {print}
    BY <1>3, <1>4
  <2>2. /\ Occupies("told death") = Occupies("tell death")
        /\ Occupies("return") = Occupies("told death")
    BY <1>2
  <2> QED BY <1>1, <1>6, <2>1, <2>2, PrintsMove
<1>7. CASE ReturnHook(t)
  <2>1. UNCHANGED <<lock, held>> BY <1>7 DEF ReturnHook, lockVars
  <2>2. step[t] = "return" /\ Then(t, "dead") BY <1>7 DEF ReturnHook
  <2> QED BY <1>1, <1>2, <1>3, <2>1, <2>2, OtherMoves
<1>8. CASE Prints(t, "greet", "greeted", "enter")
  <2>1. /\ HoldsAt(t, "greeted") = HoldsAt(t, "greet") \cup {print}
        /\ HoldsAt(t, "enter") = HoldsAt(t, "greeted") \ {print}
    BY <1>3, <1>4
  <2>2. /\ Occupies("greeted") = Occupies("greet")
        /\ Occupies("enter") = Occupies("greeted")
    BY <1>2
  <2> QED BY <1>1, <1>8, <2>1, <2>2, PrintsMove
<1>9. CASE Sleeps(t, "eat", "tell put")
  <2>1. UNCHANGED <<lock, held>> BY <1>9 DEF Sleeps, lockVars
  <2>2. step[t] = "eat" /\ Then(t, "tell put") BY <1>9 DEF Sleeps
  <2>3. HoldsAt(t, "tell put") = HoldsAt(t, "eat") BY DEF HoldsAt
  <2>4. Occupies("tell put") = Occupies("eat") BY DEF Occupies, TableStep
  <2> QED BY <1>1, <2>1, <2>2, <2>3, <2>4, OtherMoves
<1>10. CASE Sleeps(t, "think", "top")
  <2>1. UNCHANGED <<lock, held>> BY <1>10 DEF Sleeps, lockVars
  <2>2. step[t] = "think" /\ Then(t, "top") BY <1>10 DEF Sleeps
  <2> QED BY <1>1, <1>2, <1>3, <2>1, <2>2, OtherMoves
<1> QED
  BY <1>5, <1>6, <1>7, <1>8, <1>9, <1>10, Entering, Leaving, TakeForkMoves,
     PutForkMoves
  DEF PhilosophersTask

LEMMA SeatsInitially == PhilosophersInit => SeatsInv
<1> SUFFICES ASSUME PhilosophersInit PROVE SeatsInv OBVIOUS
<1>1. /\ lock = [l \in Lock |-> SemaphoreInit(IF l = entry THEN MaxNumberAllowed
                                                           ELSE 1)]
      /\ held = [t \in Task |-> {}]
      /\ step = [t \in Task |-> "greet"]
  BY DEF PhilosophersInit
<1>2. /\ DOMAIN lock = Lock
      /\ lock[entry] = [count |-> MaxNumberAllowed, base |-> 0, owner |-> NoTask]
  BY <1>1, Names DEF SemaphoreInit
<1>3. Seated = {} BY <1>1, Names DEF Seated, AtTable
<1>4. Cardinality(Seated) = 0 BY <1>3, FS_EmptySet
<1>5. \A t \in Philosopher : held[t] = {} /\ step[t] = "greet" BY <1>1, Names
<1>6. \A t \in Philosopher : HoldsAt(t, "greet") = {} BY DEF HoldsAt
<1>7. held \in [Task -> SUBSET Lock] /\ step \in [Task -> Step] BY <1>1 DEF Step
<1>8. /\ lock[entry] \in [count : Int, base : {0}, owner : {NoTask}]
      /\ lock[entry].count + Cardinality(Seated) = MaxNumberAllowed
  BY <1>2, <1>4, TableLength
<1> QED BY <1>2, <1>5, <1>6, <1>7, <1>8 DEF SeatsInv

LEMMA SeatsStep ==
    ASSUME SeatsInv, ~StrayUnlocks, [PhilosophersNext]_philosophersVars
    PROVE  SeatsInv'
<1>1. CASE Main
  <2>1. UNCHANGED <<lock, held, step>> BY <1>1 DEF Main
  <2> QED BY <2>1, StandingKeeps
<1>2. CASE Tick /\ UNCHANGED <<lockVars, step>>
  BY <1>2, StandingKeeps DEF lockVars
<1>3. CASE \E t \in Philosopher : PhilosophersTask(t)
  BY <1>3, PhilosopherKeeps
<1>4. CASE \E t \in Philosopher : Suspends(t)
  <2>1. UNCHANGED <<lock, held, step>> BY <1>4 DEF Suspends, lockVars
  <2> QED BY <2>1, StandingKeeps
<1>5. CASE UNCHANGED philosophersVars
  BY <1>5, StandingKeeps DEF philosophersVars, allVars, lockVars
<1> QED BY <1>1, <1>2, <1>3, <1>4, <1>5 DEF PhilosophersNext

LEMMA SeatsAreBalanced == SeatsInv => SeatsBalance
<1> SUFFICES ASSUME SeatsInv PROVE SeatsBalance OBVIOUS
<1>1. Seated = {t \in Philosopher : AtTable(t)} BY DEF Seated
<1>2. ASSUME NEW t \in Philosopher, ~AtTable(t) PROVE held[t] \subseteq {print}
  <2>1. step[t] \notin TableStep BY <1>2 DEF AtTable, TableStep
  <2>2. HoldsAt(t, step[t]) \subseteq {print} BY <2>1 DEF HoldsAt, TableStep
  <2> QED BY <2>2 DEF SeatsInv
<1> QED BY <1>1, <1>2 DEF SeatsInv, SeatsBalance

\* For every table size, priority and quantum: entry_sem's count and the
\* philosophers between its wait and signal always add up to
\* maxNumberAllowed (philosopher, main.c), and whoever is away from the table,
\* the starved included, holds neither fork.
THEOREM SeatsKept == ASSUME ~StrayUnlocks
                     PROVE  PhilosophersSpec => []SeatsBalance
<1>1. PhilosophersInit => SeatsInv BY SeatsInitially
<1>2. SeatsInv /\ [PhilosophersNext]_philosophersVars => SeatsInv' BY SeatsStep
<1>3. SeatsInv => SeatsBalance BY SeatsAreBalanced
<1> QED BY <1>1, <1>2, <1>3, PTL DEF PhilosophersSpec

-----------------------------------------------------------------------------
(***************************************************************************)
(* No deadlock.  Were every philosopher that lives blocked, nobody would   *)
(* hold print, so nobody would wait for a left fork either: who sits would *)
(* hold the left fork and wait for the right one, and so would whoever     *)
(* holds that.  Round the table everybody would sit, on one seat too few.  *)
(***************************************************************************)
LEMMA WrapsAround ==
    ASSUME NEW n \in Nat, NEW i \in 1..n
    PROVE  (i % n) + 1 = IF i = n THEN 1 ELSE i + 1
<1>1. CASE i = n BY <1>1
<1>2. CASE i < n
  <2>1. i % n = i BY <1>2
  <2> QED BY <1>2, <2>1
<1> QED BY <1>1, <1>2

LEMMA RingStep ==
    ASSUME NEW i \in 1..Len(Table)
    PROVE  /\ Table[i] \in Philosopher
           /\ Right(Table[i]) = Table[IF i = Len(Table) THEN 1 ELSE i + 1]
<1> DEFINE n == Len(Table)
           place == CHOOSE j \in DOMAIN Table : Table[j] = Table[i]
<1>1. DOMAIN Table = 1..n /\ n \in Nat \ {0} BY TableLength
<1>2. Table \in [1..n -> Philosopher] /\ IsInjective(Table)
  BY TableSeats, TableLength
<1>3. place \in 1..n /\ Table[place] = Table[i] BY <1>1
<1>4. place = i BY <1>1, <1>2, <1>3 DEF IsInjective
<1>5. Right(Table[i]) = Table[(i % n) + 1] BY <1>4 DEF Right
<1>6. (i % n) + 1 = IF i = n THEN 1 ELSE i + 1 BY <1>1, WrapsAround
<1>7. Table[i] \in Philosopher BY <1>2
<1> QED BY <1>5, <1>6, <1>7

\* Whoever goes from right neighbour to right neighbour meets everybody.
LEMMA Ring ==
    ASSUME NEW S \in SUBSET Philosopher, S # {}, \A t \in S : Right(t) \in S
    PROVE  S = Philosopher
<1> DEFINE n == Len(Table)
           In == {i \in 1..n : Table[i] \in S}
           Out == {i \in 1..n : Table[i] \notin S}
<1>1. n \in Nat \ {0} BY TableLength
<1>2. \A i \in In : (IF i = n THEN 1 ELSE i + 1) \in In
  <2> SUFFICES ASSUME NEW i \in In PROVE (IF i = n THEN 1 ELSE i + 1) \in In
    OBVIOUS
  <2>1. i \in 1..n /\ Right(Table[i]) \in S OBVIOUS
  <2>2. (IF i = n THEN 1 ELSE i + 1) \in 1..n BY <1>1, <2>1
  <2> QED BY <2>1, <2>2, RingStep
<1>3. \A t \in Philosopher : \E i \in 1..n : Table[i] = t
  BY TableSeats, TableLength
<1>4. In # {}
  <2>1. PICK t \in S : TRUE OBVIOUS
  <2> QED BY <1>3, <2>1
<1>5. 1 \in In
  <2>1. In \in SUBSET (0..n) OBVIOUS
  <2> HIDE DEF In
  <2>2. PICK d \in In : \A e \in In : d >= e
    BY <1>1, <1>4, <2>1, GreatestInSet
  <2>3. d \in 0..n BY <2>1
  <2> QED BY <1>1, <1>2, <2>2, <2>3
<1>6. Out = {}
  <2> SUFFICES ASSUME Out # {} PROVE FALSE OBVIOUS
  <2>1. Out \in SUBSET Nat OBVIOUS
  <2>2. PICK d \in Out : \A e \in Out : d <= e
    <3> HIDE DEF Out
    <3> QED BY <2>1, LeastInSet
  <2>3. d \in 1..n /\ d \notin In /\ d # 1 BY <1>5, <2>2
  <2>4. d - 1 \in 1..n /\ d - 1 \notin Out /\ d - 1 # n /\ (d - 1) + 1 = d
    <3>1. d - 1 \in 1..n /\ d - 1 # n /\ (d - 1) + 1 = d BY <1>1, <2>3
    <3>2. ~(d <= d - 1) BY <2>3
    <3> QED BY <2>2, <3>1, <3>2
  <2>5. d - 1 \in In BY <2>4
  <2> HIDE DEF In
  <2> QED BY <1>2, <2>3, <2>4, <2>5
<1> QED BY <1>3, <1>6

-----------------------------------------------------------------------------
\* Of philosophers created with one priority, none ever lends or is lent another,
\* so that no change of priority takes a waiter off its lock's list.
Common == Clipped(CHOOSE p \in CreatePriorities : TRUE)

OnePriority ==
    /\ \A t \in Philosopher : pc[t] # "new" => k.prio[t] = Common
    /\ \A l \in Mutex : lock[l].owner # NoTask => lock[l].base = Common

\* A task that tries for a lock, or unlocks, is a philosopher main has created.
LEMMA CallersArePhilosophers ==
    ASSUME WaitInv, NEW t \in Task, NEW l \in Lock, Tries(t, l)
    PROVE  t \in Philosopher /\ pc[t] # "new"
BY DEF WaitInv, IdleReady, Tries, At, Philosopher

LEMMA OwnersArePhilosophers ==
    ASSUME LocksInv, WaitInv, NEW l \in Mutex, lock[l].count = 0
    PROVE  /\ lock[l].owner \in Philosopher /\ pc[lock[l].owner] # "new"
           /\ l \in held[lock[l].owner]
<1>1. lock[l].owner \in Task /\ l \in held[lock[l].owner]
  BY DEF LocksInv, Books, Owned
<1>2. lock[l].owner # Idle BY LocksAssumption DEF WaitInv, IdleReady
<1> QED BY <1>1, <1>2 DEF LocksInv, Philosopher

LEMMA NothingToLend ==
    ASSUME LocksInv, WaitInv, OnePriority, NEW t \in Task, NEW l \in Lock,
           Block(t, l)
    PROVE  Lend(t, l) = k
<1>1. CASE l \notin Mutex BY <1>1 DEF Lend
<1>2. CASE l \in Mutex
  <2>1. lock[l].count = 0 /\ Tries(t, l) BY BlockWaits DEF Block
  <2>2. ~Orphaned(l) BY <1>2, <2>1, NeverOrphaned
  <2>3. k.prio[lock[l].owner] = Common
    BY <1>2, <2>1, OwnersArePhilosophers DEF OnePriority
  <2>4. k.prio[t] = Common BY <2>1, CallersArePhilosophers DEF OnePriority
  <2>5. Common \in Int
    <3>1. k.prio \in [Task -> 0..NumPriorities]
      BY DEF LocksInv, KernelInv, Queued, KernelState
    <3> QED BY <2>4, <3>1, TasksAssumption
  <2>6. ~(k.prio[lock[l].owner] < k.prio[t]) BY <2>3, <2>4, <2>5
  <2> QED BY <1>2, <2>2, <2>6 DEF Lend
<1> QED BY <1>1, <1>2

\* Only main makes tasks appear.
LEMMA NobodyAppears ==
    ASSUME LocksInv, NEW t \in Task, pc[t] = "new", pc'[t] # "new",
           OtherStep \/ \E u \in Task, l \in Lock :
                           Acquire(u, l) \/ Block(u, l) \/ Signal(u, l)
    PROVE  ~started /\ \E p \in CreatePriorities : Create(t, p)
<1>1. pc \in [Task -> Label] BY DEF LocksInv, KernelInv
<1>2. ASSUME NEW u \in Task, NEW label, Goto(u, label), pc[u] # "new" PROVE FALSE
  <2>1. pc'[t] = pc[t] BY <1>1, <1>2 DEF Goto
  <2> QED BY <2>1
<1>3. ASSUME NEW u \in Task, NEW p \in CreatePriorities, Create(u, p)
      PROVE  u = t
  BY <1>1, <1>3 DEF Create, Goto
<1>4. CASE Tick BY <1>4 DEF Tick
<1>5. CASE StartScheduler BY <1>5 DEF StartScheduler
<1>6. ASSUME NEW u \in Task, Calls(u) \/ LoopSleep(u) \/ Yield(u) PROVE FALSE
  <2>1. CASE LoopSleep(u) BY <1>2, <2>1 DEF LoopSleep, At
  <2>2. CASE Yield(u) BY <1>2, <2>2 DEF Yield, At
  <2>3. CASE Calls(u)
    <3>1. ASSUME NEW n \in SleepTimes, CallSleep(u, n) PROVE FALSE
      BY <1>2, <3>1 DEF CallSleep, At
    <3> QED BY <2>3, <3>1 DEF Calls, CallSetTaskState, CallSetTaskPriority
  <2> QED BY <1>6, <2>1, <2>2, <2>3
<1>7. ASSUME NEW u \in Task, NEW l \in Lock,
             Acquire(u, l) \/ Block(u, l) \/ Signal(u, l)
      PROVE  FALSE
  <2>1. CASE Acquire(u, l) BY <1>2, <2>1 DEF Acquire, Tries, At
  <2>2. CASE Block(u, l) BY <1>2, <2>2 DEF Block, Tries, At
  <2>3. CASE Signal(u, l)
    BY <2>3 DEF Signal, UnlockOwned, UnlockForeign, SignalSemaphore
  <2> QED BY <1>7, <2>1, <2>2, <2>3
<1> QED BY <1>3, <1>4, <1>5, <1>6, <1>7 DEF OtherStep, Boot

LEMMA CreatedAlike ==
    ASSUME LocksInv, OnePriority, CreatePriorities = {CHOOSE p \in CreatePriorities : TRUE},
           NEW t \in Task, NEW p \in CreatePriorities, Create(t, p), lock' = lock
    PROVE  OnePriority'
<1>1. Queued(k) /\ p \in Nat /\ k' = CreateTask(k, t, p)
  BY SchedulerAssumption DEF LocksInv, KernelInv, Create
<1>2. \E c \in Priority : c = Clipped(p) /\ Reranks(k', k, t, c)
  BY <1>1, Creating
<1>3. Clipped(p) = Common
  <2>1. p = CHOOSE q \in CreatePriorities : TRUE OBVIOUS
  <2> QED BY <2>1 DEF Common
<1>4. k'.prio[t] = Common /\ \A v \in Task \ {t} : k'.prio[v] = k.prio[v]
  BY <1>1, <1>2, <1>3 DEF Reranks, Queued, KernelState
<1>5. \A v \in Task \ {t} : pc'[v] = pc[v]
  BY DEF Create, Goto, LocksInv, KernelInv
<1>6. \A v \in Philosopher' : v \in Task BY DEF Philosopher
<1>7. Common' = Common BY DEF Common, Clipped
<1> QED BY <1>4, <1>5, <1>6, <1>7 DEF OnePriority, Philosopher

\* If nobody appears and no priority changes, only a lock taken or given back can
\* make a difference.
LEMMA PrioritiesStand ==
    ASSUME OnePriority, k'.prio = k.prio,
           \A v \in Philosopher : pc'[v] # "new" => pc[v] # "new",
           \A m \in Mutex : lock'[m].owner # NoTask =>
              \/ lock'[m].base = Common
              \/ lock'[m].owner = lock[m].owner /\ lock'[m].base = lock[m].base
    PROVE  OnePriority'
<1>1. Common' = Common BY DEF Common, Clipped
<1>2. Philosopher' = Philosopher BY DEF Philosopher
<1> QED BY <1>1, <1>2 DEF OnePriority

LEMMA PrioritySteps ==
    ASSUME CreatePriorities = {CHOOSE p \in CreatePriorities : TRUE},
           ApiPriorities = {}, LocksInv, WaitInv, OnePriority, [LocksNext]_allVars
    PROVE  OnePriority'
<1>1. /\ Queued(k) /\ lock \in LockType /\ k.on[Idle] = Ready(0)
  BY DEF LocksInv, KernelInv, Books, WaitInv, IdleReady
<1>2. CASE UNCHANGED allVars
  BY <1>2, PrioritiesStand DEF allVars, vars, lockVars
<1>3. CASE Boot /\ UNCHANGED <<lock, mutexCount, held>>
  <2>1. CASE StartScheduler BY <1>3, <2>1, PrioritiesStand DEF StartScheduler
  <2> QED BY <1>3, <2>1, CreatedAlike DEF Boot
<1>4. CASE OtherStep /\ ~Boot /\ UNCHANGED lockVars
  <2>1. k'.prio = k.prio BY <1>4, OtherKeepsPriority
  <2>2. \A v \in Philosopher : pc'[v] # "new" => pc[v] # "new"
    BY <1>4, NobodyAppears DEF Boot, Philosopher
  <2> QED BY <1>4, <2>1, <2>2, PrioritiesStand DEF lockVars
<1>5. ASSUME NEW t \in Task, NEW l \in Lock, Acquire(t, l) PROVE OnePriority'
  <2>1. k' = k /\ Tries(t, l) /\ pc' = [pc EXCEPT ![t] = "run"] BY <1>5 DEF Acquire, Goto
  <2>2. t \in Philosopher /\ pc[t] # "new" BY <2>1, CallersArePhilosophers
  <2>3. \A v \in Philosopher : pc'[v] # "new" => pc[v] # "new"
    BY <2>1, <2>2 DEF Philosopher, LocksInv, KernelInv
  <2>4. k.prio[t] = Common BY <2>2 DEF OnePriority
  <2>5. CASE l \in Mutex
    <3>1. lock' = [lock EXCEPT ![l] = [count |-> lock[l].count - 1,
                                       base |-> k.prio[t], owner |-> t]]
      BY <1>1, <1>5, <2>5 DEF Acquire, LockType
    <3>2. lock'[l].base = k.prio[t] /\ \A m \in Mutex \ {l} : lock'[m] = lock[m]
      BY <1>1, <3>1, LocksAssumption DEF LockType
    <3> QED BY <2>1, <2>3, <2>4, <3>2, PrioritiesStand
  <2>6. CASE l \notin Mutex
    <3>1. PICK r : lock' = [lock EXCEPT ![l] = r] BY <1>5, <2>6 DEF Acquire
    <3>2. \A m \in Mutex : lock'[m] = lock[m]
      BY <1>1, <2>6, <3>1, LocksAssumption DEF LockType
    <3> QED BY <2>1, <2>3, <3>2, PrioritiesStand
  <2> QED BY <2>5, <2>6
<1>6. ASSUME NEW t \in Task, NEW l \in Lock, Block(t, l) PROVE OnePriority'
  <2>1. /\ lock' = lock /\ Tries(t, l) /\ pc' = [pc EXCEPT ![t] = "sleep"]
        /\ k'.prio = k.prio
    <3>1. Lend(t, l) = k BY <1>6, NothingToLend
    <3>2. lock' = lock /\ k'.prio = Lend(t, l).prio BY <1>6, BlockWaits
    <3>3. Tries(t, l) /\ pc' = [pc EXCEPT ![t] = "sleep"] BY <1>6 DEF Block, Goto
    <3> QED BY <3>1, <3>2, <3>3
  <2>2. t \in Philosopher /\ pc[t] # "new" BY <2>1, CallersArePhilosophers
  <2>3. \A v \in Philosopher : pc'[v] # "new" => pc[v] # "new"
    BY <2>1, <2>2 DEF Philosopher, LocksInv, KernelInv
  <2> QED BY <2>1, <2>3, PrioritiesStand
<1>7. ASSUME NEW t \in Task, NEW l \in Lock, Signal(t, l) PROVE OnePriority'
  <2>1. pc' = pc BY <1>7 DEF Signal, UnlockOwned, UnlockForeign, SignalSemaphore
  <2>2. Returned(t, l) = k \/ ~UnlockOwned(t, l)
    <3>1. ASSUME UnlockOwned(t, l) PROVE k.prio[t] = lock[l].base
      <4>1. /\ l \in Mutex /\ lock[l].owner = t /\ lock[l].owner # NoTask
            /\ pc[t] = "run"
        BY <3>1, LocksAssumption DEF UnlockOwned, At
      <4>2. t \in Philosopher
        BY <4>1, LocksAssumption DEF WaitInv, IdleReady, Philosopher
      <4> QED BY <4>1, <4>2 DEF OnePriority
    <3> QED BY <3>1 DEF Returned
  <2>3. k' = WakeFirst(k, l)
    BY <1>7, <2>2 DEF Signal, UnlockOwned, UnlockForeign, SignalSemaphore
  <2>4. k'.prio = k.prio BY <1>1, <2>3, WakingEases
  <2>5. \A m \in Mutex : lock'[m].owner # NoTask =>
           lock'[m].owner = lock[m].owner /\ lock'[m].base = lock[m].base
    <3>1. CASE UnlockOwned(t, l)
      <4>1. PICK r : lock' = [lock EXCEPT ![l] = r] /\ r = Released(t, l)
        BY <3>1 DEF UnlockOwned
      <4>2. r.owner # NoTask => r.owner = lock[l].owner /\ r.base = lock[l].base
        BY <1>1, <4>1 DEF Released, LockType
      <4>3. lock'[l] = r /\ \A m \in Mutex \ {l} : lock'[m] = lock[m]
        BY <1>1, <4>1, LocksAssumption DEF LockType
      <4> QED BY <4>2, <4>3
    <3>2. CASE UnlockForeign(t, l) BY <3>2 DEF UnlockForeign, lockVars
    <3>3. CASE SignalSemaphore(t, l)
      <4>1. PICK r : lock' = [lock EXCEPT ![l] = r] /\ l \notin Mutex
        BY <3>3 DEF SignalSemaphore
      <4>2. \A m \in Mutex : lock'[m] = lock[m]
        BY <1>1, <4>1, LocksAssumption DEF LockType
      <4> QED BY <4>2
    <3> QED BY <1>7, <3>1, <3>2, <3>3 DEF Signal
  <2> QED BY <2>1, <2>4, <2>5, PrioritiesStand
<1> QED BY <1>2, <1>3, <1>4, <1>5, <1>6, <1>7, StepBooks

-----------------------------------------------------------------------------
\* The locks philosopher t waits for when s is its next call.
Wants(t, s, l) ==
    \/ s \in {"greet", "tell death", "tell taken", "tell put"} /\ l = print
    \/ s = "enter" /\ l = entry
    \/ s = "left" /\ l = Left(t)
    \/ s = "right" /\ l = Right(t)

WaitsAt == \A t \in Philosopher : todo[t] # "none" => Wants(t, step[t], todo[t])

\* Nobody but the return hook deletes a philosopher.
Living == \A t \in Philosopher :
             pc[t] # "new" /\ step[t] # "dead" => k.state[t] # "UNINIT"

\* A philosopher goes on to its next call, waiting for nothing, ...
Advances(t) ==
    /\ step[t] # "dead" /\ todo'[t] = "none"
    /\ \A u \in Task \ {t} : step'[u] = step[u] /\ todo'[u] = todo[u]

\* ... or begins to wait in the one it is in.
Stays ==
    /\ step' = step
    /\ \A u \in Philosopher : \/ todo'[u] = todo[u]
                              \/ Wants(u, step[u], todo'[u])

LEMMA WaitsStays ==
    ASSUME NEW t \in Philosopher, NEW here, here # "dead", NEW l \in Lock,
           NEW there, Wants(t, here, l),
           LocksInv, step \in [Task -> Step], Waits(t, here, l, there)
    PROVE  LocksNext /\ (Stays \/ Advances(t))
<1>1. t \in Task /\ todo \in [Task -> Loop] BY Names DEF LocksInv, KernelInv
<1>2. step[t] = here /\ Wait(t, l) BY DEF Waits, Wait
<1>3. At(t, "run") \/ At(t, "retry") BY <1>2 DEF Wait, Acquire, Block, Tries
<1>4. LocksNext BY <1>1, <1>2, <1>3 DEF LocksNext, KernelCode
<1>5. CASE Acquire(t, l) /\ Then(t, there)
  <2>1. /\ todo' = [todo EXCEPT ![t] = "none"]
        /\ step' = [step EXCEPT ![t] = there]
    BY <1>5 DEF Acquire, Then
  <2> QED BY <1>1, <1>2, <1>4, <2>1 DEF Advances
<1>6. CASE Block(t, l) /\ UNCHANGED step
  <2>1. todo' = [todo EXCEPT ![t] = l] /\ step' = step BY <1>6 DEF Block
  <2>2. ASSUME NEW u \in Philosopher
        PROVE  todo'[u] = todo[u] \/ Wants(u, step[u], todo'[u])
    BY <1>1, <1>2, <2>1, Names
  <2> QED BY <1>4, <2>1, <2>2 DEF Stays
<1> QED BY <1>5, <1>6 DEF Waits

LEMMA SignalsAdvances ==
    ASSUME NEW t \in Philosopher, NEW here, here # "dead", NEW l \in Lock,
           NEW there, LocksInv, WaitInv, step \in [Task -> Step],
           Signals(t, here, l, there)
    PROVE  LocksNext /\ Advances(t)
<1>1. t \in Task /\ todo \in [Task -> Loop] BY Names DEF LocksInv, KernelInv
<1>2. step[t] = here /\ Signal(t, l) /\ step' = [step EXCEPT ![t] = there]
  BY DEF Signals, Then
<1>3. LocksNext BY <1>1, <1>2 DEF LocksNext
<1>4. todo' = todo /\ pc[t] = "run"
  BY <1>2 DEF Signal, UnlockOwned, UnlockForeign, SignalSemaphore, At
<1>5. todo[t] = "none" BY <1>1, <1>4 DEF WaitInv, InLoops
<1> QED BY <1>2, <1>3, <1>4, <1>5 DEF Advances

LEMMA SleepsAdvances ==
    ASSUME NEW t \in Philosopher, NEW here, here # "dead",
           NEW there, LocksInv, WaitInv, step \in [Task -> Step],
           Sleeps(t, here, there)
    PROVE  LocksNext /\ Advances(t)
<1>1. t \in Task /\ todo \in [Task -> Loop] BY Names DEF LocksInv, KernelInv
<1>2. PICK n \in SleepTimes : CallSleep(t, n) BY DEF Sleeps
<1>3. /\ step[t] = here /\ step' = [step EXCEPT ![t] = there]
      /\ UNCHANGED lockVars
  BY DEF Sleeps, Then
<1>4. LocksNext BY <1>1, <1>2, <1>3 DEF LocksNext, Calls
<1>5. todo' = todo /\ pc[t] = "run" BY <1>2 DEF CallSleep, At
<1>6. todo[t] = "none" BY <1>1, <1>5 DEF WaitInv, InLoops
<1> QED BY <1>3, <1>4, <1>5, <1>6 DEF Advances

LEMMA StarvesAdvances ==
    ASSUME NEW t \in Philosopher, WaitInv, step \in [Task -> Step], Starves(t)
    PROVE  Advances(t) /\ UNCHANGED allVars
<1>1. t \in Task /\ pc[t] = "run" BY Names DEF Starves, At
<1>2. PICK next : Then(t, next) BY DEF Starves
<1>3. step[t] = "top" /\ todo' = todo BY DEF Starves, allVars, vars
<1>4. UNCHANGED allVars BY DEF Starves
<1>5. todo[t] = "none" BY <1>1 DEF WaitInv, InLoops
<1>6. \A u \in Task \ {t} : step'[u] = step[u] BY <1>2 DEF Then
<1> QED BY <1>3, <1>4, <1>5, <1>6 DEF Advances

\* All that a philosopher does but its return hook is what tasks do with locks.
LEMMA FollowsCode ==
    ASSUME LocksInv, WaitInv, step \in [Task -> Step],
           [PhilosophersNext]_philosophersVars
    PROVE  \/ \E t \in Philosopher : ReturnHook(t)
           \/ /\ [LocksNext]_allVars
              /\ Stays \/ \E t \in Philosopher : Advances(t)
<1>1. CASE UNCHANGED philosophersVars
  BY <1>1 DEF philosophersVars, allVars, vars, lockVars, Stays
<1>2. CASE Main
  <2>1. ASSUME NEW i \in DOMAIN Table, NEW p \in CreatePriorities,
               ~started, Create(Table[i], p)
        PROVE  Boot /\ todo' = todo
    <3>1. Table[i] \in Task
      BY TableSeats, TableLength, Names
    <3> QED BY <2>1, <3>1 DEF Boot, Create
  <2>2. Boot /\ todo' = todo BY <1>2, <2>1 DEF Main, Boot, StartScheduler
  <2>3. own' = k'.prio /\ UNCHANGED <<lock, mutexCount, held>> /\ step' = step
    BY <1>2 DEF Main
  <2> QED BY <2>2, <2>3 DEF LocksNext, Stays
<1>3. CASE Tick /\ UNCHANGED <<lockVars, step>>
  BY <1>3 DEF LocksNext, Stays, Tick
<1>4. ASSUME NEW t \in Philosopher, Suspends(t) PROVE LocksNext /\ Stays
  <2>1. LocksNext BY <1>4, Names DEF Suspends, LocksNext, KernelCode
  <2>2. todo' = todo /\ step' = step BY <1>4 DEF Suspends, LoopSleep, Yield
  <2> QED BY <2>1, <2>2 DEF Stays
<1>5. ASSUME NEW t \in Philosopher, PhilosophersTask(t), ~ReturnHook(t)
      PROVE  [LocksNext]_allVars /\ (Stays \/ Advances(t))
  <2>1. /\ print \in Lock /\ entry \in Lock /\ Left(t) \in Lock /\ Right(t) \in Lock
    BY Names, Forks, LocksAssumption
  <2>2. ASSUME NEW here \in {"greet", "tell death", "tell taken", "tell put"},
               NEW unlock \in Step \ {"dead"}, NEW there,
               Prints(t, here, unlock, there)
        PROVE  LocksNext /\ (Stays \/ Advances(t))
    <3>1. Wants(t, here, print) /\ here # "dead" BY DEF Wants
    <3> QED BY <2>1, <2>2, <3>1, WaitsStays, SignalsAdvances DEF Prints
  <2>3. {"told death", "greeted", "told taken", "told put"}
           \subseteq Step \ {"dead"}
    BY DEF Step, TableStep
  <2>4. CASE Starves(t) BY <2>4, StarvesAdvances
  <2>5. CASE Prints(t, "tell death", "told death", "return")
    BY <2>2, <2>3, <2>5
  <2>6. CASE Prints(t, "greet", "greeted", "enter") BY <2>2, <2>3, <2>6
  <2>7. CASE Waits(t, "enter", entry, "left")
    <3>1. Wants(t, "enter", entry) BY DEF Wants
    <3> QED BY <2>1, <2>7, <3>1, WaitsStays
  <2>8. CASE TakeFork(t)
    <3>1. Wants(t, "left", Left(t)) /\ Wants(t, "right", Right(t)) BY DEF Wants
    <3>2. CASE Waits(t, "left", Left(t), "right")
      BY <2>1, <3>1, <3>2, WaitsStays
    <3>3. CASE Waits(t, "right", Right(t), "tell taken")
      BY <2>1, <3>1, <3>3, WaitsStays
    <3>4. CASE Prints(t, "tell taken", "told taken", "eat")
      BY <2>2, <2>3, <3>4
    <3> QED BY <2>8, <3>2, <3>3, <3>4 DEF TakeFork
  <2>9. CASE PutFork(t)
    <3>1. CASE Prints(t, "tell put", "told put", "put left")
      BY <2>2, <2>3, <3>1
    <3>2. CASE Signals(t, "put left", Left(t), "put right")
      BY <2>1, <3>2, SignalsAdvances
    <3>3. CASE Signals(t, "put right", Right(t), "leave")
      BY <2>1, <3>3, SignalsAdvances
    <3> QED BY <2>9, <3>1, <3>2, <3>3 DEF PutFork
  <2>10. CASE Signals(t, "leave", entry, "think")
    BY <2>1, <2>10, SignalsAdvances
  <2>11. CASE Sleeps(t, "eat", "tell put") BY <2>11, SleepsAdvances
  <2>12. CASE Sleeps(t, "think", "top") BY <2>12, SleepsAdvances
  <2> QED
    BY <1>5, <2>4, <2>5, <2>6, <2>7, <2>8, <2>9, <2>10, <2>11, <2>12
    DEF PhilosophersTask
<1> QED BY <1>1, <1>2, <1>3, <1>4, <1>5 DEF PhilosophersNext

-----------------------------------------------------------------------------
TableInv == /\ LocksInv /\ WaitInv /\ AllMatched /\ BlockedIsListed
            /\ SeatsInv /\ OnePriority /\ WaitsAt /\ Living

LEMMA WaitsAtKept ==
    ASSUME WaitsAt, Stays \/ \E t \in Philosopher : Advances(t)
    PROVE  WaitsAt'
<1>1. Philosopher' = Philosopher BY DEF Philosopher
<1>2. CASE Stays
  <2>1. ASSUME NEW u \in Philosopher, todo'[u] # "none"
        PROVE  Wants(u, step'[u], todo'[u])
    BY <1>2, <2>1 DEF Stays, WaitsAt
  <2> QED BY <1>1, <2>1 DEF WaitsAt, Wants, Left, Right, Table
<1>3. ASSUME NEW t \in Philosopher, Advances(t) PROVE WaitsAt'
  <2>1. ASSUME NEW u \in Philosopher, todo'[u] # "none"
        PROVE  Wants(u, step'[u], todo'[u])
    <3>1. u \in Task \ {t} BY <1>3, <2>1, Names DEF Advances
    <3>2. step'[u] = step[u] /\ todo'[u] = todo[u] BY <1>3, <3>1 DEF Advances
    <3> QED BY <2>1, <3>2 DEF WaitsAt
  <2> QED BY <1>1, <2>1 DEF WaitsAt, Wants, Left, Right, Table
<1> QED BY <1>2, <1>3

LEMMA LivingKept ==
    ASSUME LocksInv, Living, [LocksNext]_allVars,
           Stays \/ \E t \in Philosopher : Advances(t)
    PROVE  Living'
<1>1. \A u \in Philosopher : step'[u] # "dead" => step[u] # "dead"
  BY Names DEF Stays, Advances
<1>2. CASE UNCHANGED allVars
  BY <1>1, <1>2 DEF Living, allVars, vars, Philosopher
<1>3. CASE LocksNext
  <2>1. ASSUME NEW u \in Philosopher, pc'[u] # "new", step'[u] # "dead"
        PROVE  k'.state[u] # "UNINIT"
    <3>1. u \in Task BY Names
    <3>2. pc[u] # "new" \/ k'.state[u] # "UNINIT"
      BY <1>3, <2>1, <3>1, ControlSteps
    <3>3. k.state[u] # "UNINIT" => k'.state[u] # "UNINIT"
      BY <1>3, <3>1, KernelSteps DEF NoneLost
    <3> QED BY <1>1, <2>1, <3>2, <3>3 DEF Living
  <2> QED BY <2>1 DEF Living, Philosopher
<1> QED BY <1>2, <1>3

LEMMA TasksAreFinite == IsFiniteSet(Task)
<1>1. IsFiniteSet(Philosopher) BY PhilosophersAssumption
<1>2. IsFiniteSet(Philosopher \cup {Idle}) BY <1>1, FS_AddElement
<1>3. Task = Philosopher \cup {Idle} BY TasksAssumption DEF Philosopher
<1> QED BY <1>2, <1>3

\* Deleting a philosopher that waits for nothing and holds nothing hurts nobody.
LEMMA DeletingKeeps ==
    ASSUME TableInv, NEW t \in Philosopher, ReturnHook(t)
    PROVE  /\ LocksInv' /\ WaitInv' /\ AllMatched' /\ BlockedIsListed'
           /\ OnePriority' /\ WaitsAt' /\ Living'
<1> USE DEF TableInv
<1>1. /\ t \in Task /\ t # Idle /\ Queued(k)
      /\ todo[t] = "none" /\ held[t] = {}
  <2>1. t \in Task /\ t # Idle BY Names DEF Philosopher
  <2>2. todo[t] = "none" BY <2>1 DEF ReturnHook, At, WaitInv, InLoops
  <2>3. held[t] = HoldsAt(t, "return") BY DEF ReturnHook, SeatsInv
  <2>4. held[t] = {} BY <2>3 DEF HoldsAt
  <2> QED BY <2>1, <2>2, <2>4 DEF LocksInv, KernelInv
<1>2. /\ UNCHANGED <<started, pc, todo, lock, mutexCount, held, own>>
      /\ step[t] = "return" /\ step' = [step EXCEPT ![t] = "dead"]
  BY DEF ReturnHook, Then, lockVars
<1>3. /\ Queued(k') /\ SameClock(k', k) /\ Eases(k', k) /\ StayListed(k', k)
      /\ k'.prio = k.prio
      /\ \A u \in Task \ {t} : k'.state[u] = k.state[u]
  <2>1. CASE k' = SetTaskState(k, t, "UNINIT")
    <3>1. "UNINIT" \in State \ {"BLOCKED"} BY DEF State
    <3>2. k'.state = [k.state EXCEPT ![t] = "UNINIT"]
      BY <1>1, <2>1, <3>1, SettingState
    <3>3. \A u \in Task \ {t} : k'.state[u] = k.state[u]
      BY <1>1, <3>2 DEF Queued, KernelState
    <3> QED BY <1>1, <2>1, <3>1, <3>3, SettingEases
  <2>2. CASE k' = k
    <3>1. Eases(k', k) /\ StayListed(k', k) BY <2>2, StandingStill
    <3> QED BY <1>1, <2>2, <3>1 DEF SameClock
  <2> QED BY <2>1, <2>2 DEF ReturnHook
<1>4. LocksInv'
  <2>1. KernelInv' BY <1>2, <1>3 DEF LocksInv, KernelInv
  <2>2. Books'
    BY <1>2 DEF LocksInv, Books, LockType, Owned, Counted
  <2>3. ASSUME NEW u \in Task, held'[u] # {}
        PROVE  pc'[u] # "new" /\ k'.state[u] # "UNINIT"
    BY <1>1, <1>2, <1>3, <2>3 DEF LocksInv
  <2> QED BY <2>1, <2>2, <2>3 DEF LocksInv
<1>5. WaitInv' BY <1>2, <1>3, QuietStep
<1>6. AllMatched'
  <2>1. \A l \in Lock : "none" # l BY SchedulerAssumption
  <2>2. ASSUME NEW l \in Lock PROVE Matched(l)'
    <3>1. Matched(l) /\ lock[l].count \in Nat /\ lock'[l].count = lock[l].count
      BY <1>2 DEF AllMatched, LocksInv, Books, LockType
    <3>2. \A u \in Task : k'.on[u] = Blocked(l) => k.on[u] = Blocked(l)
      <4>1. ASSUME NEW u \in Task, k'.on[u] = Blocked(l)
            PROVE  k.on[u] = Blocked(l)
        BY <1>3, <4>1, ListsApart DEF Eases
      <4> QED BY <4>1
    <3>3. \A u \in Task : todo[u] = l /\ k.state[u] = "READY" =>
                             todo'[u] = l /\ k'.state[u] = "READY"
      BY <1>1, <1>2, <1>3, <2>1
    <3> QED BY <1>1, <1>3, <3>1, <3>2, <3>3, TasksAreFinite, StaysMatched
  <2> QED BY <2>2 DEF AllMatched
<1>7. BlockedIsListed'
  <2>1. ASSUME NEW u \in Task, k'.state[u] = "BLOCKED"
        PROVE  k'.on[u] = Blocked(todo'[u])
    BY <1>2, <1>3, <2>1 DEF StayListed, BlockedIsListed
  <2> QED BY <2>1 DEF BlockedIsListed, Blocked
<1>8. OnePriority' BY <1>2, <1>3, PrioritiesStand
<1>9. WaitsAt'
  <2>1. Advances(t)
    BY <1>1, <1>2 DEF Advances, SeatsInv
  <2> QED BY <2>1, WaitsAtKept
<1>10. Living'
  <2>1. ASSUME NEW u \in Philosopher, pc'[u] # "new", step'[u] # "dead"
        PROVE  k'.state[u] # "UNINIT"
    <3>1. u \in Task /\ u # t BY <1>1, <1>2, <2>1, Names DEF SeatsInv
    <3>2. step'[u] = step[u] BY <1>2, <3>1 DEF SeatsInv
    <3> QED BY <1>2, <1>3, <2>1, <3>1, <3>2 DEF Living
  <2> QED BY <2>1 DEF Living, Philosopher
<1> QED BY <1>4, <1>5, <1>6, <1>7, <1>8, <1>9, <1>10

\* What the proofs of Locks need to know of the tasks, they know of philosophers.
LEMMA TableSteps ==
    ASSUME ~StrayUnlocks, ApiPriorities = {}, ApiStates \subseteq {"READY"},
           CreatePriorities = {CHOOSE p \in CreatePriorities : TRUE},
           TableInv, [PhilosophersNext]_philosophersVars
    PROVE  TableInv'
<1>1. SeatsInv' BY SeatsStep DEF TableInv
<1>2. CASE \E t \in Philosopher : ReturnHook(t)
  BY <1>1, <1>2, DeletingKeeps DEF TableInv
<1>3. CASE /\ [LocksNext]_allVars
           /\ Stays \/ \E t \in Philosopher : Advances(t)
  <2> USE DEF TableInv
  <2>1. WaitsAt' BY <1>3, WaitsAtKept
  <2>2. Living' BY <1>3, LivingKept
  <2>3. WaitInv' BY <1>3, WaitSteps
  <2>4. Queued(k')
    <3>1. CASE LocksNext BY <3>1, KernelSteps
    <3>2. CASE UNCHANGED allVars
      BY <3>2 DEF allVars, vars, LocksInv, KernelInv
    <3> QED BY <1>3, <3>1, <3>2
  <2>5. AllMatched' BY <1>3, <2>4, TasksAreFinite, MatchedSteps
  <2>6. OnePriority' BY <1>3, PrioritySteps
  <2>7. BlockedIsListed'
    <3>1. ASSUME NEW t \in Task, NEW l \in Lock, Block(t, l)
          PROVE  StayListed(Lend(t, l), k)
      <4>1. Lend(t, l) = k BY <3>1, NothingToLend
      <4> QED BY <4>1, StandingStill
    <3> QED BY <1>3, <3>1, ListedSteps
  <2>8. ASSUME NEW t \in Task, held'[t] # {} PROVE k'.state[t] # "UNINIT"
    <3>1. CASE UNCHANGED allVars
      BY <2>8, <3>1 DEF LocksInv, allVars, vars, lockVars
    <3>2. CASE LocksNext
      <4>1. Books' /\ pc'[t] # "new" BY <2>8, <3>2, BooksSteps, HoldersExist
      <4>2. PICK l \in Mutex : l \in held'[t] BY <2>8, <4>1 DEF Books
      <4>3. lock'[l].owner = t BY <4>1, <4>2 DEF Books, Owned
      <4>4. t \in Philosopher
        BY <2>3, <4>2, <4>3, LocksAssumption DEF WaitInv, IdleReady, Philosopher
      <4>5. held'[t] = HoldsAt(t, step'[t])
        BY <1>1, <4>4 DEF SeatsInv, Philosopher, HoldsAt, Left, Right, Table
      <4>6. step'[t] # "dead" BY <2>8, <4>5 DEF HoldsAt
      <4> QED BY <2>2, <4>1, <4>4, <4>6 DEF Living, Philosopher
    <3> QED BY <1>3, <3>1, <3>2
  <2>9. LocksInv' BY <1>3, <2>8, LocksSteps
  <2> QED BY <1>1, <2>1, <2>2, <2>3, <2>5, <2>6, <2>7, <2>9
<1> QED BY <1>2, <1>3, FollowsCode DEF TableInv, SeatsInv

LEMMA TableInitially == PhilosophersInit => TableInv
<1> SUFFICES ASSUME PhilosophersInit PROVE TableInv OBVIOUS
<1>1. /\ Init
      /\ lock = [l \in Lock |-> SemaphoreInit(IF l = entry THEN MaxNumberAllowed
                                                           ELSE 1)]
      /\ mutexCount = [t \in Task |-> 0] /\ held = [t \in Task |-> {}]
      /\ own = k.prio
  BY DEF PhilosophersInit
<1>2. MaxNumberAllowed \in 0..MaxCount /\ 1 \in 0..MaxCount
  <2>1. Len(Table) = Cardinality(Philosopher)
    <3>1. 1..Len(Table) = 1..Cardinality(Philosopher)
      BY TableSeats, TableLength
    <3> QED BY <3>1, TableSeats, TableLength, SameInterval
  <2> QED
    BY <2>1, TableSeats, TableLength, PhilosophersAssumption, LocksAssumption
    DEF MaxNumberAllowed
<1>3. \A l \in Lock :
         /\ lock[l].count = IF l = entry THEN MaxNumberAllowed ELSE 1
         /\ lock[l].owner = NoTask
         /\ lock[l] \in [count : 0..MaxCount, base : 0..NumPriorities,
                         owner : Task \cup {NoTask}]
  BY <1>1, <1>2, TasksAssumption DEF SemaphoreInit
<1>4. lock \in LockType BY <1>1, <1>3 DEF LockType
<1>5. \A l \in Lock : lock[l].owner = NoTask BY <1>3
<1>6. \A l \in Mutex : lock[l].count = 1
  <2>1. \A l \in Mutex : l \in Lock /\ l # entry BY Names, LocksAssumption
  <2> QED BY <1>3, <2>1
<1>7. LocksInv BY <1>1, <1>4, <1>6, BooksOpen
<1>8. WaitInv BY <1>1, <1>5, NobodyWaits
<1>9. AllMatched BY <1>1, NothingToMatch
<1>10. SeatsInv BY SeatsInitially
<1>11. \A t \in Philosopher : pc[t] = "new" /\ todo[t] = "none"
  BY <1>1 DEF Init, Philosopher
<1>12. OnePriority
  BY <1>5, <1>11, LocksAssumption DEF OnePriority
<1>13. WaitsAt /\ Living BY <1>11 DEF WaitsAt, Living
<1>14. BlockedIsListed
  BY <1>1, InitialConsistent DEF Init, BlockedIsListed
<1> QED BY <1>7, <1>8, <1>9, <1>10, <1>12, <1>13, <1>14 DEF TableInv

-----------------------------------------------------------------------------
\* If everybody who lives is blocked, every lock someone wants is taken.
Stuck == \A t \in Philosopher : step[t] # "dead" => k.state[t] = "BLOCKED"

LEMMA DeadIsAwake ==
    ASSUME TableInv, NEW t \in Philosopher, k.state[t] = "BLOCKED"
    PROVE  /\ todo[t] \in Lock /\ Wants(t, step[t], todo[t])
           /\ step[t] # "dead"
<1>1. t \in Task BY Names
<1>2. todo[t] \in Lock BY <1>1 DEF TableInv, WaitInv, BlockedWait
<1>3. todo[t] # "none" BY <1>2, SchedulerAssumption
<1>4. Wants(t, step[t], todo[t]) BY <1>3 DEF TableInv, WaitsAt
<1> QED BY <1>2, <1>4 DEF Wants

LEMMA StuckWantsTaken ==
    ASSUME TableInv, Stuck, NEW t \in Philosopher, step[t] # "dead"
    PROVE  /\ todo[t] \in Lock /\ Wants(t, step[t], todo[t])
           /\ lock[todo[t]].count = 0
<1> DEFINE l == todo[t]
<1> USE DEF TableInv
<1>1. t \in Task /\ k.state[t] = "BLOCKED" BY Names DEF Stuck
<1>2. l \in Lock /\ Wants(t, step[t], l) BY <1>1, DeadIsAwake
<1>3. Waiters(l) # <<>>
  <2>1. k.on[t] = Blocked(l) BY <1>1 DEF BlockedIsListed
  <2> QED BY <1>1, <1>2, <2>1, WaitersPoint DEF LocksInv, KernelInv, Waiters
<1>4. Retrying(l) = {}
  <2> SUFFICES ASSUME NEW u \in Task, todo[u] = l, k.state[u] = "READY"
               PROVE  FALSE
    BY DEF Retrying
  <2>1. todo[u] # "none" BY <1>2, SchedulerAssumption
  <2>2. u \in Philosopher
    BY <2>1 DEF WaitInv, IdleReady, InLoops, Philosopher
  <2>3. step[u] # "dead" BY <2>1, <2>2 DEF WaitsAt, Wants
  <2> QED BY <2>2, <2>3 DEF Stuck
<1>5. lock[l].count <= 0
  BY <1>2, <1>3, <1>4, FS_EmptySet DEF AllMatched, Matched
<1>6. lock[l].count \in Nat BY <1>2 DEF LocksInv, Books, LockType
<1> QED BY <1>2, <1>5, <1>6

LEMMA NeverStuck ==
    ASSUME Cardinality(Philosopher) > 1, TableInv,
           NEW someone \in Philosopher, step[someone] # "dead"
    PROVE  ~Stuck
<1> SUFFICES ASSUME Stuck PROVE FALSE OBVIOUS
<1> DEFINE AtRight == {t \in Philosopher : step[t] = "right"}
\* Who holds what someone wants lives, as the dead hold nothing.
<1>1. ASSUME NEW l \in Mutex, lock[l].count = 0
      PROVE  \E h \in Philosopher : /\ step[h] # "dead" /\ l \in HoldsAt(h, step[h])
                                    /\ Wants(h, step[h], todo[h])
  <2>1. PICK h \in Philosopher : l \in held[h]
    BY <1>1, OwnersArePhilosophers DEF TableInv
  <2>2. l \in HoldsAt(h, step[h]) BY <2>1 DEF TableInv, SeatsInv
  <2>3. step[h] # "dead" BY <2>2 DEF HoldsAt
  <2> QED BY <2>2, <2>3, StuckWantsTaken
\* Nobody holds print and waits.
<1>2. \A t \in Philosopher : step[t] # "dead" => todo[t] # print
  <2> SUFFICES ASSUME NEW t \in Philosopher, step[t] # "dead", todo[t] = print
               PROVE  FALSE
    OBVIOUS
  <2>1. lock[print].count = 0 BY StuckWantsTaken
  <2>2. PICK h \in Philosopher : /\ print \in HoldsAt(h, step[h])
                                 /\ Wants(h, step[h], todo[h])
    BY <1>1, <2>1, Names
  <2>3. print # Left(h) /\ print # Right(h) BY Forks
  <2>4. step[h] \in {"greeted", "told death", "told taken", "told put"}
    BY <2>2, <2>3 DEF HoldsAt
  <2> QED BY <2>2, <2>4 DEF Wants
\* Nobody waits for a left fork: who holds it would have to be at the right one.
<1>3. \A t \in Philosopher : step[t] \in {"enter", "left", "right", "dead"}
  BY <1>2, StuckWantsTaken DEF Wants
<1>4. ASSUME NEW h \in Philosopher, NEW l, l \in HoldsAt(h, step[h])
      PROVE  step[h] = "right" /\ l = h
  BY <1>3, <1>4 DEF HoldsAt, Left
<1>5. \A t \in Philosopher : step[t] # "left"
  <2> SUFFICES ASSUME NEW t \in Philosopher, step[t] = "left" PROVE FALSE
    OBVIOUS
  <2>1. todo[t] = t /\ lock[t].count = 0 BY StuckWantsTaken DEF Wants, Left
  <2>2. PICK h \in Philosopher : t \in HoldsAt(h, step[h])
    BY <1>1, <2>1, Names
  <2> QED BY <1>4, <2>2
\* The neighbour at the right of one who waits for the right fork does the same.
<1>6. \A t \in AtRight : Right(t) \in AtRight
  <2> SUFFICES ASSUME NEW t \in AtRight PROVE Right(t) \in AtRight OBVIOUS
  <2>1. todo[t] = Right(t) /\ lock[Right(t)].count = 0
    BY StuckWantsTaken DEF Wants
  <2>2. PICK h \in Philosopher : Right(t) \in HoldsAt(h, step[h])
    BY <1>1, <2>1, Forks
  <2> QED BY <1>4, <2>2
<1>7. Seated = AtRight
  BY <1>3, <1>5 DEF Seated, AtTable
<1>8. Len(Table) = Cardinality(Philosopher) /\ MaxNumberAllowed = Len(Table) - 1
  <2>1. 1..Len(Table) = 1..Cardinality(Philosopher)
    BY TableSeats, TableLength
  <2>2. Len(Table) = Cardinality(Philosopher)
    BY <2>1, TableSeats, TableLength, SameInterval
  <2> QED BY <2>2 DEF MaxNumberAllowed
<1>9. /\ lock[entry].count \in Nat
      /\ lock[entry].count + Cardinality(Seated) = MaxNumberAllowed
  BY Names DEF TableInv, SeatsInv, LocksInv, Books, LockType
<1>10. Seated # {}
  <2>1. CASE step[someone] = "right" BY <1>7, <2>1
  <2>2. CASE step[someone] = "enter"
    <3>1. lock[entry].count = 0 BY <2>2, StuckWantsTaken DEF Wants
    <3>2. Cardinality(Seated) # 0 BY <1>8, <1>9, <3>1, SeatedIsFinite, TableLength
    <3> QED BY <3>2, FS_EmptySet
  <2> QED BY <1>3, <1>5, <2>1, <2>2
<1>11. Seated = Philosopher BY <1>6, <1>7, <1>10, Ring
<1> QED BY <1>8, <1>9, <1>11, TableSeats

LEMMA TableMoves ==
    ASSUME Cardinality(Philosopher) > 1, TableInv
    PROVE  NoDeadlock
<1> SUFFICES ASSUME ~NoDeadlock PROVE FALSE OBVIOUS
<1>1. \A t \in Philosopher :
         k.state[t] # "BLOCKED" =>
            step[t] = "dead" /\ \E u \in Philosopher : step[u] # "dead"
  BY DEF NoDeadlock
<1>2. Stuck BY <1>1 DEF Stuck
<1>3. PICK t \in Philosopher : TRUE BY PhilosophersAssumption
<1>4. \E u \in Philosopher : step[u] # "dead" BY <1>1, <1>3, DeadIsAwake
<1> QED BY <1>2, <1>4, NeverStuck

\* No table of two or more philosophers created with one priority comes to a
\* standstill: the seat that main keeps free is enough ("one less philosopher is
\* allowed to act", main.c), also for philosophers that have starved, and though
\* woken waiters race for the locks with those that never waited.  Philosophers
\* call neither tasks_setTaskState nor tasks_setTaskPriority, so nothing is asked
\* of ApiStates and ApiPriorities that the program does not do; with one
\* philosopher there would be no seat at all.
THEOREM NobodyDeadlocks ==
    ASSUME ~StrayUnlocks, ApiPriorities = {}, ApiStates \subseteq {"READY"},
           CreatePriorities = {CHOOSE p \in CreatePriorities : TRUE},
           Cardinality(Philosopher) > 1
    PROVE  PhilosophersSpec => []NoDeadlock
<1>1. PhilosophersInit => TableInv BY TableInitially
<1>2. TableInv /\ [PhilosophersNext]_philosophersVars => TableInv'
  BY TableSteps
<1>3. TableInv => NoDeadlock BY TableMoves
<1> QED BY <1>1, <1>2, <1>3, PTL DEF PhilosophersSpec
=============================================================================
