# TLA+ specifications of cubesat-rtos

cubesat-rtos is a small preemptive kernel for AVR microcontrollers: tasks with
priorities and quanta, task events, semaphores, mutexes with priority
inheritance, FIFO and LIFO buffers, and a heap.  These modules specify the part
of it where order matters, down to the instructions of a context switch and up
to one of its example programs, check it with TLC on small instances, and prove
the main invariants of its lists, queues, events, locks, buffers, heap and context
switch, and of that program, with TLAPS for every instance.

All paths below are relative to the repository's `src/`.

## 1. The system

| Component | Code | State it keeps | Operations |
|---|---|---|---|
| Linked lists | `kernel/common/lists.c` | head, tail; per item next, prev, back pointer to its list | add back/front, drop back/front, delete any, n-th element |
| Tasks | `kernel/tasks/tasks.c` | per task: state, priority, sleep time, list items, child list, `mutexCount`, pid; the global list | create, delete, set state, set priority, block, unblock, look up |
| Scheduler | `kernel/tasks/sched.c` | current and next task, ready list per priority, sleeping and suspended lists, two quantum counters | systick, switch, search, schedule, unschedule, sleep |
| Start-up | `kernel/init.c` | | `kernel_init`, `kernel_startScheduler` |
| Events | `kernel/tasks/events.c` | per task: `event.state`, flags | wait, send |
| Semaphores, mutexes | `kernel/ipc/semaphore.c`, `mutex.c` | count, owner, base priority, blocked tasks; per task `mutexCount` | wait/lock, signal/unlock |
| Buffers | `kernel/ipc/fifo.c`, `lifo.c` | byte buffer, three positions | write, read, peek, free space, available |
| Heap | `kernel/mem/heap.c`, `malloc.c` | chain of free blocks, free memory, allocation list per task | alloc, free |
| Ports | `kernel/arch/*` | `kCriticalNesting` (ATmega128), SREG, `kStackPointer`, each task's stack and `stackPtr` | critical sections, yield, tick, context switch, first frame of a task, protection region, return hook |
| Example | `examples/dining-philosophers/main.c` | forks, seats | `take_fork`, `put_fork`, `philosophers_task` |

How they interact.  The timer interrupt calls `tasks_tick`, which counts a
kernel tick when the systick counter `quantumTicksLeft` has run down, wakes
sleepers, and dispatches.  A task calls kernel functions, which move tasks
between lists by `tasks_setTaskState` and its relatives; every such move is
`common_listDeleteAny` from the list named by the item's back pointer and
`common_listAddBack` to another.  A call that waits (`tasks_eventWait`,
`ipc_semaphoreWait`) is a loop: test, take yourself off the ready list,
`tasks_sleep(0)`, which ends the quantum and calls `arch_yield`, and test again
when dispatched.  Locks also change the priority and the queue of a task other
than the caller, the owner.  Creating a task puts it on the global list and on
its creator's child list; deleting one frees its allocation list, deletes its
children, and gives its memory back.

What is hard to test in this code:

* between two critical sections of one call the timer may dispatch any other
  task, and a waiter that was woken competes with tasks that never waited;
* on the ATmega128 a critical section is written to mask no interrupts, only to
  keep the timer from dispatching; and what sections do to the interrupt flag
  hangs on one address in a macro;
* a task is chosen in one call of `tasks_switchTask` and stays chosen for a
  quantum, while its state and priority change;
* the walk over the sleepers modifies the list it walks;
* whether waiters are ever woken depends on who runs between a test, a
  suspension and a signal;
* lists trust the back pointers of their items, so one inconsistent link spoils
  several lists much later;
* the context switch can be interrupted, by another context switch, on the stack
  of the task that leaves or returns, and no test runs it on the processor;
* a task's memory is reused without being cleared, and freed heap blocks keep
  their headers, so old links and old marks lie under new objects, and the
  deletion of a task reads one of them.

`PROJECT.json` lists each of these hazards at its line with the properties that
would catch it.

## 2. The modules

| Module | Models | Extends / uses |
|---|---|---|
| `ListSpec` | what lists promise: sequences | |
| `Lists` | `lists.c`, pointer by pointer | refines `ListSpec` |
| `ListsProofs` | links of `Lists`, and that it implements `ListSpec` | `Lists` |
| `Tasks` | the kernel functions on queues, as operators | |
| `TasksProofs` | lemmas about each of them | `Tasks` |
| `Scheduler` | boot, systick, the calls of tasks, `arch_yield` | `Tasks` |
| `SchedulerTiming` | a count of interrupts for the bound on preemption | `Scheduler` |
| `SchedulerProofs` | invariants of `Scheduler`, bound on preemption, no lost event | `SchedulerTiming`, `Events`, `TasksProofs` |
| `Events` | `events.c`, on both ports | `Scheduler` |
| `Locks`, `MCLocks` | `semaphore.c` and `mutex.c`; a reduction by renaming for TLC | `Scheduler` |
| `LocksProofs` | invariants of `Locks` | `Locks`, `TasksProofs` |
| `BufferSpec` | what buffers promise: bounded queue, bounded stack | |
| `Buffers` | `fifo.c` and `lifo.c`, byte by byte | refines `BufferSpec` |
| `BuffersProofs` | how far writes reach, and the refinement | `Buffers` |
| `HeapSpec` | what the heap promises: first fit | |
| `Heap` | `heap.c`, `malloc.c` and the allocation lists, on the links of the chain | refines `HeapSpec` |
| `HeapProofs` | invariants of `Heap`, and that it implements `HeapSpec` | `Heap` |
| `TaskTree` | creation and deletion in `tasks.c`, on the links of the global and child lists | |
| `Philosophers` | the dining philosophers of `examples/` | `Locks` |
| `PhilosophersProofs` | balance of seats and forks, no deadlock | `Philosophers`, `LocksProofs` |
| `Context` | `context.S`, `stack.c`, `interrupts.c`, critical sections, of both AVR ports | |
| `ContextProofs` | invariants of `Context`, no switch in a critical section | `Context` |

### Lists

A list is `head` and `tail`, an item is `next`, `prev` and `list`, its back
pointer; `NULL` is a pointer of its own.  One action per function.  An item is
added only when its back pointer is NULL and deleted from the list the back
pointer names, which is how every caller in the kernel uses the functions; a
dropped item keeps its stale `next` and `prev`, as in the code.  `ListSpec` has
the same operations on sequences; the refinement mapping walks the links.  The
early returns for NULL arguments are left out.

### Tasks and Scheduler

`Tasks` holds the kernel functions as operators from a kernel state (a record)
to a kernel state, so that `tasks_setTaskPriority` calls `tasks_scheduleTask`
here as it does in C.  A list is a sequence, which is what `Lists` shows the
code to provide.  `Ready(NumPriorities)` is `Sleeping` because the element after
the last of `readyTaskList` is the next member of the structure.
`tasks_tickSleeping` wakes the first sleeper with no time left and stops:
appending it to its ready list clears the `next` link the loop goes on with.

`Scheduler` adds the processor: `StartScheduler` (main), `Create` (main, and after
the start any task that runs its own code), `Tick`, `CallSetTaskState`,
`CallSetTaskPriority`, `CallSleep`, and `Yield`.  `Events` and `Locks` take
from it only creation before the start (`Boot`), as the examples do it, which keeps
their runs small.
`pc[t]` is where task `t` stopped, `todo[t]` the waiting loop it is in.  A
critical section is one step.  `tasks_sleep` is two, its critical section and
its `arch_yield`, and the timer may fire in between.

### Events

`tasks_eventWait` is the test, the suspension, and `tasks_sleep(0)`; the label
`crit` lies between test and suspension.  The initial states choose a port.  On
the ATmega2560 critical sections mask interrupts: no systick and no handler at
`crit`.  On the ATmega128 both can run there, and the systick counts without
dispatching (`NestedTick`).  `IsrSendOn` names the ports on which handlers send:
the ATmega2560 in the run.

With `IsrSendOn = {"mega128"}` TLC finds `NoLostEvent` violated: a handler sends
between the test and the suspension, the event is there and the waiter sleeps on,
although `include/kernel/tasks/events.h:38` says of `tasks_eventSend` "Can be used
in interrupts."  That is true of the C code.  As the macros are assembled it
cannot happen, because interrupts are off by then (`Context`, section 5), so no
run is spent on it; it will be one as soon as the macros are right.

`Scheduler`, `Events` and `Locks` are at the level of the C code: a section gives
back the interrupt flag it found.

### Locks

`Wait` is one pass of the loop of `ipc_semaphoreWait`: `Acquire`, or `Block`
with its three cases (orphaned mutex, priority to lend, neither).  `Signal` has
one action for the owner of a mutex, one for a task that does not own it, one
for semaphores.  `held` and `own` are history variables: they record what the
tasks did, and the code's own books (`lockCount`, `lockOwner`, `mutexCount`,
`basePriority`) are checked against them.

Callers are restricted as follows: a task does not lock a mutex it holds (the
code would block it on itself); a task holds at most `MaxHeld` mutexes; no task
suspends or puts to sleep a task that waits for a lock; a semaphore's count
stays below `MaxCount` (the code's wraps at 256).

### Buffers

Items are `ItemSize` bytes at byte positions; a byte is a value and its offset
in the item, so an item read across a boundary shows.  The memory behind the
buffer is part of the state.  A FIFO may have any size of at least one item, as
`ipc_fifoInit` asks.  Where items do not divide it, its positions step over the
end and wrap to 0 only from behind it (`fifo.c:39`), so that the last slot
reaches past the buffer: `Slots` is the number of slots with it.  Nobody else uses
those bytes in the model; in a program somebody does.

### Heap

A header lives at an address and has the link, the size, the mark that stands
for its two magic numbers, and the list its block is on; headers no longer in
use stay where they are.  `InsertFreeBlock`, `Cut` and `HeapFree` are
`mem_insertFreeBlock`, the splitting in `mem_heapAlloc`, and `mem_heapFree`.
`link` is the `next` of each header's item on an allocation list, which stays as
it is when the block is freed.  `tasks_deleteTask` goes through the list of the
task `deleting`; `freeing` is its `head`, and `FreeNext` frees that block first and
reads the link from it afterwards, whatever `mem_insertFreeBlock` has done to the
header meanwhile.  Only the links forward are in `Heap`; `Lists` has both ways.
`given`, `owner` and `lastFreed` are history variables.  The alignment is 1, as on
AVR, and no request is so near the width of `size_t` that adding a header wraps.
A block is freed by whoever was given it, or a second time right after.

`HeapSpec` knows only live blocks, no chain: a request gets the lowest gap it
fits in.  That `Heap` implements it says that the chain never loses, splits
wrongly or fails to merge a gap, whatever was done before.

### TaskTree

A task is named by the memory its `kTask_t` is in.  `Create` takes any memory
that no task is in, block of the heap or not, with the links it still holds;
`Delete` is `tasks_deleteTask` with its recursion over the children and the list
functions on the links they are really called with.  A walk that takes more
calls than there are tasks does not end, and the kernel is `hung`.  The idle
task stands for main.  A task that deletes itself does nothing afterwards.
`offspring` is a history variable: the pids of the tasks each task created.

Callers are not restricted: any task that exists creates tasks, in any memory that
is free, and any task but idle is deleted at any time.  `tasks_deleteTask` takes a
child off the wrong list, its own (section 5), so a child list may come to name
tasks that are gone, or that somebody else has created in their memory since.
The properties say what that spoils and what it does not.
`DeletesItsDescendants`, what the list is there for, is violated.
`MemoryReturned`, `HeadNeverMoves` and `TreeTypeOK` hold whatever is on the lists.
`DeletionIsExact` and `LookupsKept` say that nothing else goes wrong: if the lists
of the tasks that are to go are right when the call is made (`MeetsStaleList`),
the right tasks go and the global list stays whole.

Deletion is not composed with the scheduler's lists, which belong to `Scheduler`,
or with the allocation lists, which are in `Heap`.

### Philosophers

The composition of a program with the kernel.  `Locks` lets tasks call what they
like; here a task is a philosopher and `step[t]` names its next call, so each
action of `philosophers_task` is one of `Locks` (`Acquire`, `Block`, `Signal`) or
of `Scheduler` (`CallSleep`), enabled only at its place, with the retry loops,
priority lending and the timer underneath.  A fork has the name of the
philosopher at whose left it lies.  `main` creates the philosophers and starts
the scheduler.  Whether one has starved (`starveTime > 95`) is left open from the
second round on; one that has returns to `arch_taskReturnHook` and is deleted.

### Context

What the other modules take as one step, the loss of the processor and its
return, instruction by instruction where an interrupt can come: a yield before
its `cli` (`CallYield`, `PushR0`, `ReadSreg`, `SaveOnYield`), the interrupt
(`Interrupt`), the kernel on its own stack (`Dispatch`), and the end of a restore
(`WriteSreg`, `PopR0`, `Ret`, `Reti`).  `pc` is a label, a stack a sequence of
words, and a word says what it is and whose, so a register restored from the
wrong place, or from another task, shows.  Registers that are always pushed and
popped in one run without an interrupt are one word of their size: r2 to r23 are
`r2`.  `stackPtr` and `kStackPointer` are heights.  The save and restore macros
and the first frame are lists of their own for each port, as in the code, and
are not derived from each other.

Critical sections are `EnterCritical`, a macro on the ATmega2560 and a function that
counts on the ATmega128, and `EnterCriticalSafe`, which masks on both and keeps
SREG in a variable of its caller.  The first kind is modelled as it is assembled,
which is not as it reads.  `lds` and `sts` take data addresses; `__SREG__` is, to
avr-gcc, the I/O address 0x3f, whose data address is 0x5f.  So on the ATmega2560
(`include/kernel/arch/mega2560/arch.h:32`) a section is a `cli` and a copy of EECR
(`Eecr`) on the stack, and its end writes that back to EECR: interrupts stay off.
On the ATmega128 (`include/kernel/arch/mega128/arch.h:32`) the atomic sections in
both functions read EEARH, of which the upper bits are 0, and write it to SREG with
an `out`, which is right, before the `sei` in front of it takes effect: interrupts
are off as well.  They are let in again by the `sei` or the SREG of a new
task's first frame, by the restore of a context that was saved with them on, and by
`reti`.  `open` is a history variable: the sections a task is in, with the SREG
its entry found.  `Create`, `Delete` and `ReturnHook` go through sections too, and
leave the flag as those do.  A task that returns on the ATmega2560 loops with
interrupts off for good: the system stops, so these runs do not check deadlock.

Bytes are counted only to say where SP points: `own` are the bytes a task uses
itself, fixed when it is created.  Writing below the stack's first byte spoils
the protection region or the `kTask_t` below it (`spoiled`), and
`tasks_switchContext` reports a task that leaves with SP out of bounds or a
spoiled region; with `CFG_KERNEL_PANIC_ACTION` 3 it then goes on.

Which task is dispatched is left open; tasks that wait are not told from tasks
that are ready.  Tasks yield outside critical sections only, as every caller of
`arch_yield` in the kernel does.

## 3. The runs

| Run | Checks | Instance |
|---|---|---|
| `lists` | links consistent, refinement of `ListSpec` | 2 lists, 4 items |
| `queues` | types, queues, priorities, dispatch, bound on preemption | idle + 2 tasks, 3 priorities, all calls |
| `events` | no lost event, delivery; sleepers wake, round robin | idle + 2 tasks, both ports |
| `mutex` | exclusion, books, wakeups, waiters listed, priorities returned, free mutexes taken | idle + 3 tasks of 2 priorities, 1 mutex, which tasks also unlock without holding it |
| `philosophers` | no deadlock, seats and forks balance | idle + 3 philosophers, 2 seats, print mutex |
| `buffers` | refinement of `BufferSpec`, how far writes reach | items of 11 bytes; FIFOs of 11, 22, 31, 33 and 50 bytes, LIFOs of 11, 31, 33 and 40 |
| `heap` | no overlap, no leak, merging, allocation lists, refinement of `HeapSpec` | 12 bytes, headers of 3, requests of 1 and 4, 2 tasks |
| `tree` | memory, the head of the global list; lookups and deletions, except where a stale child list is met | idle and 3 more memories, 2 of them heap blocks, 4 creations by any task |
| `context` | registers, flags and stacks kept, sections nest and keep the processor, stack reserve | idle + 1 task, both ports, stacks of 65 bytes, 2 sections deep, 2 interrupts deep |
| `nested_mutexes`, `stale_children`, `interrupts_off` | findings, see section 5 | |

The bounds.  Two lists and four items reach every shape an operation tells
apart: empty, one, first, middle and last of several, and an item that moves
with stale links.  Three tasks besides idle are a holder, a first waiter and
either a second waiter or a barging task; two priorities above idle's make
lending visible, a third list in `queues` gives clipping something to clip.
Quanta of one or two ticks and a `CFG_TICKRATE_MS` of 1 keep both branches of
both counters reachable; larger values only repeat the first branch.  Sleep
times up to 2 give a sleeper that is passed over and one that is not.  Two
mutexes and `MaxHeld = 2` are what the finding on nested mutexes needs.  Two
item values distinguish any item from its neighbour.  The items of 11 bytes and
the FIFO of 31 are those of `tests/platform/main.c:92`; the sizes are one, two and
three items, and two and four with a rest, so that positions wrap at the end and
behind it.  Twelve bytes hold three blocks of the smaller request, so that one is
freed with both neighbours free, with one of them, or with none; the two requests
leave rests on either side of `MinBlock`.  Four creations in three memories give a
parent a first, a middle and a last child, or use a memory a second time, for a
child of somebody else's.  Three
philosophers are the smallest table at which two seats leave two neighbours, one
shared fork and one free one; with three seats TLC finds the deadlock.

In `context` one task besides idle is enough for what can go wrong between two:
a switch touches the stack and the `stackPtr` of the one that leaves and of the
one that comes and nothing of a third, and idle differs from the other only in
its first frame.  A task has one of two values in all its registers (`computed`),
which tells what it left last from what it left before.  `MaxNested` bounds the interrupts
taken on one stack and not yet left.  On the ATmega128 that is never more than
one; on the ATmega2560 each restore lets another in, and two show what the third
would add: seven bytes.  `OwnUses` are the largest use the reserve allows and one
byte more, for each port; with a reserve one byte smaller TLC finds a stack that
is outgrown.

`mutex` runs `MCLocks`, in which tasks that exist have names in the order of their
priorities.  The tasks other than idle are interchangeable, so every behaviour of
`Locks` is one of `MCLocks` with its tasks renamed once and for all, and what holds
in all of these holds in all of those, liveness too, for which TLC's SYMMETRY would
not do.

Fairness.  The timer keeps interrupting (weak fairness of `Tick`) and main
reaches `kernel_startScheduler`; the code of a task promises nothing, so no call
is fair.  That the timer goes on is what the C code says: a section ends with the
interrupt flag its beginning found.  As the macros are assembled interrupts stay
off after a task's first section (section 5), and the liveness properties are
about the kernel with that repaired.  Kernel code has no way to stop: in `Scheduler`
weak fairness of `Yield` says so.  In `Events` and `Locks` a task is inside a
waiting loop while it is dispatched, preempted, and dispatched again; strong
fairness of its kernel code says that if it is dispatched again and again it gets
on, because a quantum is thousands of instructions and a pass of the loop a few
dozen.  The idle task waits for nothing and has none.  `Calls` by
tasks on other tasks are excluded where a liveness property is checked: a task
that keeps calling `tasks_setTaskState(t, READY)` sends `t` to the back of its
list each time and can starve it.

`Philosophers` and `Context` have safety properties only and assume no fairness.
`NoDeadlock` is an invariant: some philosopher is not blocked.

`RoundRobin` speaks of tasks that stay among the best ready tasks: lower
priorities may starve, by design.  For the same reason `FreeLockTaken` speaks of
tasks of one priority, of which the run has three; a woken waiter of a lower
priority need never run.  It says that some waiter or another task takes a free
lock; the code promises no order among waiters and a particular one can starve.

## 4. What is proved

By TLAPS, for any set of tasks, finite or not, any number of priorities, any
quanta, any finite set of locks, any number of lists and items, buffers, items and
heaps of any size, and stacks of any size with interrupts nested to any depth.
Hypotheses beyond the modules' named ASSUMEs, which TLC evaluates in every run, are
part of each statement and listed here with the reason.

### Lists (`ListsProofs`)

* `ListsLinked`, `ListsTypeCorrect`: `Spec => []Linked`, `Spec => []TypeOK`.
* `ListsAreChains`: the links of each list are those of one finite sequence of
  distinct items, and back pointers name exactly the items in it.
* `ListsImplementSequences`: `Spec => ImplementsSequences`, the refinement of
  `ListSpec`; `OperationsDoAsNamed`: `Spec => OperationsMatch`.

`LinkInv`, that is `Linked` with the types, is inductive but too weak for the
refinement: it allows a ring of items beside a list.  `Sequenced` says that there
are sequences that account for every link (`Chained`).  What all operations do to
one list is one of two things, an item more (`Inserting`) or less (`Removing`) at
some position of its sequence; each operation is shown to be one of them at its
position, and to leave the lists alone whose items it does not write to
(`Elsewhere`).  The refinement mapping is computed by a walk, defined by
recursion: `ContentsOfChain` shows that over a chain it reads the sequence back,
because a walk exists (`WalkExists`) and two walks have no first place where they
differ (`WalkVisits`), and because a chain has no more items than there are
(`ChainFits`).

### Scheduler (`SchedulerProofs`)

* `TypeCorrect`: `Spec => []TypeOK`.  The interesting part is that every list
  written to exists: a task's priority, even one past the range, names a list.
* `QueuesStayConsistent`: `Spec => []QueuesConsistent`.  Every task is on exactly
  the list that its state and priority name.
* `PrioritiesStayInRange`, `DispatchGoesToTheBest` and `PreemptionIsBounded`
  (`TimingSpec => []PreemptionBound`): all three assume that
  `tasks_setTaskPriority` is only passed priorities below
  `CFG_NUMBER_OF_PRIORITIES`, as its documentation asks; the code lets that
  number itself through (`tasks.c:352`).

The inductive invariant is `SchedulerInv`: lists and back pointers agree and
every task is at home (`Consistent`), no task is blocked (nothing in `Scheduler`
blocks one), between steps the task `tasks_search` picked last is the current
one, and the types.  `QueuesConsistent` alone is not inductive: it says nothing
of types or blocked tasks.  There is one step per action.  The bound on
preemption adds `TimingInv`: while a quantum runs, the interrupts since a better
task became ready and those left in the quantum (`Left`, a product of the two
counters) are no more than a quantum; and idle is ready, so there is always
somebody to dispatch.

`TasksProofs` has a lemma per kernel function: if lists and back pointers agree
before it (`Queued`) they agree after it, and what it does to states, priorities
and the current task; and if every task was at home it still is.  Two cases are
excepted from the last: a task that is blocked has no home but its lock's list,
and `tasks_setTaskPriority` on a blocked task takes it off that list, which is
the finding `nested_mutexes`.  The lemmas that carry the weight are
`RemovingAgrees` and `AppendingAgrees`, about one list item moving.

### Events (`SchedulerProofs`)

* `EventsTypeCorrect`: `EventsSpec => []EventsTypeOK`.
* `EventsNotLost`: `EventsSpec => []NoLostEvent`, if interrupt handlers send only
  where a critical section masks them (`IsrSendOn` within `{"mega2560"}`; section 2
  has the other case) and no task suspends another (`"SUSPENDED"`
  not in `ApiStates`): one that is suspended on its way to an event that has
  fired stays suspended, which is what its suspender asked for.

`EventsInv` adds `TestStillHolds` to `NoLostEvent`: what a task between its test
and its suspension has seen is still so, because it is the current task and
nothing that sends can run.

### Locks (`LocksProofs`)

* `MutexesExclude`: `LocksSpec => []MutualExclusion`, for any number of mutexes
  held at once, whatever states and priorities tasks give one another, and
  although tasks may unlock what they do not hold.
* `LocksTypeCorrect`: `LocksSpec => []LocksTypeOK` under the same conditions: no
  count wraps below 0, and a `mutexCount` never exceeds the number of locks.
* `DisciplinedBooksBalance`: `LocksSpec => []BooksBalance` if tasks only unlock
  mutexes they hold.  Without that a second unlock by an owner the code has not
  forgotten (`semaphore.c:103`) lowers the task's `mutexCount` while it holds
  another mutex; with one mutex, in the run `mutex`, there is no other.
* `NoWakeupLost`: `LocksSpec => []NoLostWakeup` for finitely many tasks that set
  one another only `READY` (`ApiStates` within `{"READY"}`): a woken waiter that
  is suspended before it tries again keeps the wakeup, and a hazard without a
  property says so.
* `BlockedAreListed` and `PrioritiesReturn`: `LocksSpec => []BlockedIsListed` and
  `LocksSpec => []PriorityReturned`, if a task holds one mutex at most
  (`MaxHeld <= 1`) and priorities change by lending only
  (`ApiPriorities = {}`).  With two mutexes both are false: the finding
  `nested_mutexes`, and two mutexes unlocked in the order they were locked.

The core of `LocksInv` is `Owned`: a mutex that is taken has an owner, which
holds it, and nobody else does.  To keep it, a task that finds a mutex taken must
not free it as an orphan, so the owner must not look deleted: whoever holds a
mutex exists.  Tasks may be off every list in `Locks`, so the kernel part is
`Queued` and not `Consistent`.  `WaitInv` says where tasks are while they wait: a
task on a lock's list is blocked and waits for that lock, a blocked task is on
that list or was taken off it by a change of its priority, and runs no further
than to the end of its quantum; idle is ready and owns nothing.  `AllMatched`
counts: a lock that somebody is blocked on has no more to take than there are
ready tasks on their way back to it.
`OneInv` says that who waits holds nothing, that what a mutex remembers is its
owner's own priority, and that a task which holds nothing has its own: so a
priority is never lent to a task that is on a list, and lending and returning
cancel out.  The proofs share one lemma per kind of step (`LocksSteps`,
`WaitSteps`, `StepKinds`).

### Buffers (`BuffersProofs`)

* `WritesReachTheirSlots`: `Spec => []WritesReachSlots`.
* `BuffersImplementStore`: `Spec => ImplementsStore`, the refinement of
  `BufferSpec`: a FIFO is a bounded queue, a LIFO a bounded stack.

Both hold for every size, with no hypothesis but the module's ASSUME.  The first
says when a FIFO is safe, and is exact: no write goes behind the last slot, and one
that has come round has been all the way there, so it writes behind its buffer
exactly if its items do not divide it (section 5).  The second says that even such
a FIFO is a queue, as long as nobody else uses the bytes behind it.

`BuffersInv` exchanges byte positions for
numbers of slots (`Holding`): which slots are in use, and that the bytes of a slot
in use belong to one item.  The arithmetic is in a few lemmas, since the provers
know little of products: slots do not overlap, and dividing a position by the item
size gives back the slot.

### Heap (`HeapProofs`)

* `HeapTypes`, `EveryByteInOneBlock`, `FragmentsMerged`, `ListsNameLiveBlocks`:
  `Spec => []TypeOK`, `[]HeapTiled`, `[]ChainMerged`, `[]AllocListsExact`.
* `HeapIsFirstFit`: `Spec => ImplementsFirstFit`, the refinement of `HeapSpec`.

All hold for a heap, header and least rest of any size, any set of requests and
any tasks, with no hypothesis but `HeapAssumption`.

`HeapTiled` and `ChainMerged` are not inductive: they do not say in which order
the chain visits its blocks, that a live block is marked and a block freed twice
is not, or whose list a header names.  `HeapInv` does.  Its core is `Layout`: live
and free blocks tile the heap (`Tiled`), the links of the free ones go up through
all of them to `kHeapEnd` (`Ordered`), and no two touch (`Apart`).  Its other
parts: `kFreeMemory` is what live blocks leave (`Held`), headers, history and
allocation lists agree (`LiveInv`, `LastInv`, `AllocListsExact`), the links of a
task's items are those of its allocation list (`LinksAgree`), and the block that a
deletion frees next is the first that is left (`FreeingInv`).  `FreeNextStep` shows
that the link of the block just freed leads there: it was the head of the list,
`mem_heapFree` leaves its own link alone, and the rest of the list is what is
behind it (`HeadOff`).

The argument has three parts.  First the loops: on an ordered chain each block has
a place (`ChainInOrder`), so a loop that looks for the first block with a property
ends at the lowest one (`LoopStops`), which gives `StopsBelow`, `StopsAtFit` and
`StopsBefore` for the three loops in `heap.c`.  Then the blocks:
`Insertion` says that `mem_insertFreeBlock`, in each of its four cases, turns a
tiled heap with one block off the chain into a layout, `Cutting` the same of the
splitting in `mem_heapAlloc`, and both that live blocks and their headers stay as
they are.  Then `HeapSpec`: its gaps, which it computes from live blocks alone, are
the blocks on the chain (`BlockIsGap`, `GapIsBlock`), since two free blocks that
touched would be one gap.

### The context switch (`ContextProofs`)

* `ContextTypes`, `ContextsAreKept`, `SectionsAreBalanced`, `ReserveSuffices`:
  `Spec => []ContextTypeOK`, `[]ContextKept`, `[]SectionsBalance`,
  `[]StackSuffices`.
* `CriticalIsNotPreempted`: `Spec => CriticalKeepsProcessor`.

All hold on both ports for any tasks, sizes and uses of stacks, with no hypothesis
but `ContextAssumption`, and of the critical sections as they are assembled.
`SectionsAreBalanced` therefore says that interrupts are off as long as a task is in
a section, and not that they are on again afterwards: they are not (section 5).
What it says of nesting is not changed by that: of sections in one another only the
outermost may have found them on, so no inner exit lets them in.
`MaxNested` and `MaxOpen` are bounds in the guards of
`Interrupt` and of entering a section.  Any bounds will do, `MaxOpen` up to 254, so
that the 8-bit `kCriticalNesting` counts every section; `MaxNested` is also in
`Reserve`, as the seven bytes each further interrupt takes.

`ContextKept` speaks of a task's own code only and is far from inductive.
`ContextInv` says what is on every stack at every instruction.  A task is stopped
at a label of its own code (`Stops`), and has taken n interrupts that it has not
left.  `Under` is what its own code has pushed there, a few words; on them lie, for
each interrupt, a return address, that of `arch_tick`, and r0 (`Level`), where the
r0 of a nested interrupt, which comes in the restore of the one before, is the SREG
that this restore has yet to write.  `Saved` adds the rest of a context on top, in
the order of `_arch_save_context_m`, and says so of every task that does not run
(`Parked`).  Of the one that runs `Running` says that it is in its own code with its
own registers (`AtOwn`, `AtStop`), that it is leaving its n-th interrupt and how far
it has got (`Leaves` and the four predicates that use it), or that the kernel runs and
its context is saved like any other.  `Sections` says what the SREGs kept by sections
remember, `KernelStack` that the kernel's stack is empty between dispatches, `Phases`
what cannot happen before the timer runs, or on the ATmega128.

There is a lemma for each action (`InterruptKeeps` and so on).  Saving is
`SaveRestSaves`: with what is pushed before it, whichever task and label, the result
is `Saved`.  `Restored` is its converse: what `Saved` describes, popped in the order of
the restore, gives the registers back and leaves the interrupt's words (`Order`: one
list is the other backwards).  `arch_prepareStackFrame` makes what a yield would have
saved (`FrameIs`).  Steps of a task's own code, its sections among them, are
instances of `OwnStep`.  `StackSuffices` follows from counting: `Saved` fixes the
bytes on a stack (`Full`), and `ContextFits` compares them with `Reserve`.  Bytes
are counted by cardinalities of sets of positions, word by word in `OneMore`, and
not by a recursion over the words.

### The dining philosophers (`PhilosophersProofs`)

* `SeatsKept`: `PhilosophersSpec => []SeatsBalance` for any number of
  philosophers, priorities and quanta, if they only unlock what they hold, which
  their code does.
* `NobodyDeadlocks`: `PhilosophersSpec => []NoDeadlock` for any table of two or
  more philosophers who are created with one priority, as `main` creates them,
  and call nothing but what their code calls (`ApiPriorities = {}`, `ApiStates`
  within `{"READY"}`).

What each philosopher holds is a function of its next call (`HoldsAt`), and
`entry_sem`'s count is the seats less the philosophers seated: that is `SeatsInv`.
`SeatsBalance` alone is not inductive: it says nothing of the forks of who is
seated, and leaving must give back both.

A philosopher may hold two forks and the print mutex, so the theorems of `Locks`
for one mutex are of no use here.  `OnePriority` takes their place: with one
priority lending changes nothing and takes nobody off a list.  `TableInv` is
`LocksInv`, `WaitInv`, `AllMatched`, `BlockedIsListed` and `SeatsInv` with
`OnePriority`, `WaitsAt` (a philosopher waits in the call it is in) and `Living`
(only the return hook deletes).  Suppose everybody is blocked.  No wakeup is lost,
so everybody waits for something taken (`StuckWantsTaken`).  Who holds the print
mutex waits for nothing, so it is free and nobody waits for it: everybody alive waits
for a seat or a fork, and the only forks held are the left ones of those who wait
for their right one.  So nobody waits for a left fork, and the neighbour at the
right of one who waits for the right fork does the same: round the whole table
(`Ring`) everybody is seated, and there is one seat too few for that.

### Only model-checked

* `TaskTree`: walks over its links and the recursion over children are RECURSIVE
  operators, which put a module out of the provers' reach.
* All liveness: `EventDelivered`, `SleepersWake`, `RoundRobin`, `FreeLockTaken`.
  TLAPS cannot prove it with its present backends.

## 5. Findings

Each has a run that shows it; `PROJECT.json` quotes the line it disagrees with.

* `nested_mutexes`: a priority lent to an owner that is blocked on another lock
  takes it off that lock's list, and no signal finds it again
  (`kernel/ipc/semaphore.c:64`).
* `stale_children`: `tasks_deleteTask` deletes the task's item from the task's own
  child list and not from its parent's (`kernel/tasks/tasks.c:182`).  The parent's
  head or tail goes on naming it, and deleting the parent then deletes an unrelated
  task that was created in that memory since; the walk can also go in a circle.
* `interrupts_off`: critical sections address `__SREG__` with `lds` and `sts`
  (`include/kernel/arch/mega2560/arch.h:32-36`,
  `include/kernel/arch/mega128/arch.h:32`), which reach EECR or EEARH and not SREG.
  A task runs with interrupts off from its first section on, so it is not preempted
  when its quantum ends, and interrupt handlers wait.

More things the models make plain and no run is spent on:

* An event that an interrupt handler sends on the ATmega128 can be lost between
  the waiter's test and its suspension (`kernel/tasks/events.c:30`): section 2,
  Events.  It needs the interrupt flag repaired first.
* A FIFO whose items do not divide its size writes past its end before it wraps
  (`kernel/ipc/fifo.c:39`).  `tests/platform/main.c:92` sets up such a FIFO, 31
  bytes for items of 11, and `tests/unit/test_fifo.cpp:309` another, 100 for items
  of 11, which it only fills once.  `WritesReachSlots` states how far they reach,
  exactly, and `buffers` checks it for 31 and 50.
* The `sei` in the ATmega2560's restore, a "Simulator bug workaround"
  (`arch/mega2650/context.S:74`), is harmless to the registers, but a systick
  may come in every restore, on the stack of the task that is coming back, and
  nothing bounds how often: each takes seven bytes more.
* What a task must leave free of its stack: 43 bytes on the ATmega128, counting
  what lies above its frame, and 50 on the ATmega2560, plus those seven.  The
  minimal stack is `CFG_MIN_TASK_STACK_SIZE`, 60, and `tasks_createTaskStatic`
  compares before it takes `CFG_STACK_SAFETY_MARGIN`, 8, off (`tasks.c:62-71`).
  The philosophers ask for 120.
* The comparison at `tasks.c:62` is of an unsigned difference: memory smaller
  than a `kTask_t` passes it.
* A task whose stack is full to its last byte is reported as corrupt: SP points
  below it (`tasks.c:409`).
* A task that returns while it holds a mutex is not deleted and loops, ready, for
  good; the ATmega128 reports it (`arch/mega128/stack.c:107`).  On the
  ATmega2560 any task that returns loops with interrupts off, in
  `arch_taskReturnHook`, and nothing runs any more.
* `arch_spinlockAcquire` on the ATmega128 leaves the atomic section it enters
  open (`arch/mega128/arch.c:56`); nothing calls it.
* `debug_printk` prints one `%` for `%%` without going past the second, which then
  begins a directive of its own.
* `tasks_setTaskPriority` accepts `CFG_NUMBER_OF_PRIORITIES` itself; the task
  then goes to the sleeping list while ready (`tasks.c:352`).
* A kernel tick that wakes a task does not count down the sleepers behind it
  (`sched.c:104`), so simultaneous sleepers oversleep.  They do wake
  (`SleepersWake`).
* A kernel tick takes `CFG_TICKRATE_MS + 1` interrupts, one more than
  `config.h:82` says, because the counter is tested before it is counted down.
* `tasks_sleep` forces a kernel tick, so when tasks yield or sleep often, another
  sleeper wakes earlier than its time in interrupts (`sched.c:183`).

## 6. Not modelled

Flags of events; types and names of tasks; `tasks_deleteTask` together with the
scheduler and the locks, except for a philosopher that returns; wrap-around of
pids and of semaphore counts; spinlocks, halt, reboot and the registers of
timers; `examples/mutexes`, whose tasks do what those of the run `mutex` may;
string functions and the formatting of debug output, sequential loops without
state, which unit tests reach; the UART and flash drivers, plain I/O; the stub
port, which is empty.  `kTicks` is left out because
nothing in the kernel reads it.

In `Scheduler` a new task's memory is taken to be zeroed: `tasks_createTaskStatic`
leaves its list item, event and `mutexCount` as they are, and
`tasks_scheduleTask` then deletes the item from whatever list it seems to be on.
On the ATmega128 a critical section is one step except in `tasks_eventWait`.
`Scheduler`, `Events` and `Locks` take sections to end with the interrupt flag they
began with; only `Context` has them as they are assembled.  Tasks are created after
the start of the scheduler in `Scheduler`, `TaskTree` and `Context`, and not in
`Events`, `Locks` and `Philosophers`.

## 7. Plan

In this order:

1. `tasks_deleteTask` composed with `Locks`: a woken waiter that is deleted or
   suspended before it tries again has used up the wakeup; a deleted owner is
   what the orphan branch is for.
2. `PriorityReturned` with nested mutexes, and with tasks that change their own
   priority while it is lent.
3. An interrupted list operation on the ATmega128, on the pointers of `Lists`, and
   the run that loses an event, once its interrupt flag is repaired.

New runs should take in existing ones where one instance can ask both questions.
