------------------------------ MODULE TaskTree ------------------------------
(***************************************************************************)
(* Creation and deletion of tasks, src/kernel/tasks/tasks.c, on the links  *)
(* of kGlobalTaskList and of the childTaskList that every task has.  A     *)
(* task is named by the memory its kTask_t is in: tasks created later may  *)
(* be given the same memory, which nobody clears.                          *)
(*                                                                         *)
(* Each call is one critical section and one step.  tasks_deleteTask calls *)
(* itself on the task's children; once a walk takes more calls than there  *)
(* are tasks it never returns, and the kernel is hung.                     *)
(*                                                                         *)
(* tasks_deleteTask deletes the item of a child from a list that it is not *)
(* on, the child's own childTaskList.  That does for a child between two   *)
(* others; for one at an end the parent's head or tail still names it, and *)
(* the next walk goes through memory that may be another task's by then.   *)
(* Callers do nothing to prevent it: any task creates and deletes any.     *)
(***************************************************************************)
EXTENDS Integers, Sequences, FiniteSets, SequencesExt

CONSTANTS
    Memory,        \* where a kTask_t may be
    Idle,          \* kIdleMem
    Dynamic,       \* the part of Memory that is blocks of the heap
    MaxCreated,    \* bound on kGlobalPid: the code has 16 bits
    NULL

ASSUME TaskTreeAssumption ==
    /\ Idle \in Memory \ Dynamic
    /\ Dynamic \subseteq Memory
    /\ MaxCreated \in Nat
    /\ NULL \notin Memory
    /\ IsFiniteSet(Memory)

VARIABLES
    m,             \* what tasks_deleteTask changes, a record:
                   \*   all         kGlobalTaskList and the tasks' items for it
                   \*   children    the childTaskLists and the items for those
                   \*   exists[s]   state is not KSTATE_UNINIT
                   \*   allocated   the heap blocks in use
                   \*   hung        a walk does not end
    pid,           \* pid of each task
    mutexCount,    \* mutexCount of each task
    kGlobalPid,
    offspring      \* history: the pids of the tasks each task has created

vars == <<m, pid, mutexCount, kGlobalPid, offspring>>

Global == "kGlobalTaskList"

EmptyLists(names) ==
    [head |-> [l \in names |-> NULL],  tail |-> [l \in names |-> NULL],
     next |-> [s \in Memory |-> NULL], prev |-> [s \in Memory |-> NULL],
     list |-> [s \in Memory |-> NULL]]

-----------------------------------------------------------------------------
\* common/lists.c, on the lists f; a list and an item are named by the task they
\* are part of.  (Lists is about these functions called on the right list.)
StoreUntested(g, s, v) ==     \* a mutant: the test is gone
    [x \in DOMAIN g \cup {s} |-> IF x = s THEN v ELSE g[x]]

Store(g, s, v) == IF s = NULL THEN g ELSE [g EXCEPT ![s] = v]

ListAddFront(f, l, s) ==      \* a mutant of ListAddBack
    [head |-> [f.head EXCEPT ![l] = s],
     tail |-> [f.tail EXCEPT ![l] = IF @ = NULL THEN s ELSE @],
     next |-> [f.next EXCEPT ![s] = f.head[l]],
     prev |-> Store([f.prev EXCEPT ![s] = NULL], f.head[l], s),
     list |-> [f.list EXCEPT ![s] = l]]

ListAddBack(f, l, s) ==
    [head |-> [f.head EXCEPT ![l] = IF @ = NULL THEN s ELSE @],
     tail |-> [f.tail EXCEPT ![l] = s],
     next |-> Store([f.next EXCEPT ![s] = NULL], f.tail[l], s),
     prev |-> [f.prev EXCEPT ![s] = f.tail[l]],
     list |-> [f.list EXCEPT ![s] = l]]

DropFront(f, l) ==
    LET s == f.head[l] IN
    [f EXCEPT !.head = [@ EXCEPT ![l] = f.next[s]],
              !.prev = Store(@, f.next[s], NULL),
              !.tail = [@ EXCEPT ![l] = IF @ = s THEN NULL ELSE @],
              !.list = [@ EXCEPT ![s] = NULL]]

DropBack(f, l) ==
    LET s == f.tail[l] IN
    [f EXCEPT !.tail = [@ EXCEPT ![l] = f.prev[s]],
              !.next = Store(@, f.prev[s], NULL),
              !.head = [@ EXCEPT ![l] = IF @ = s THEN NULL ELSE @],
              !.list = [@ EXCEPT ![s] = NULL]]

Unlink(f, s) ==
    [f EXCEPT !.prev = Store(@, f.next[s], f.prev[s]),
              !.next = Store(@, f.prev[s], f.next[s]),
              !.list = [@ EXCEPT ![s] = NULL]]

ListDeleteAny(f, l, s) ==
    CASE f.head[l] = s                   -> DropFront(f, l)
      [] f.head[l] # s /\ f.tail[l] = s  -> DropBack(f, l)
      [] f.head[l] # s /\ f.tail[l] # s  -> Unlink(f, s)

-----------------------------------------------------------------------------
\* tasks_createTaskStatic in the memory s, called by the current task c.
CreateIn(s, c) ==
    [m EXCEPT !.all = ListAddBack(@, Global, s),
              !.children = ListAddBack(@, c, s),
              !.exists = [@ EXCEPT ![s] = TRUE],
              !.allocated = @ \cup ({s} \cap Dynamic)]

\* tasks_init: the idle task is created with no current task.
Init ==
    /\ m = [all |-> ListAddBack(EmptyLists({Global}), Global, Idle),
            children |-> EmptyLists(Memory),
            exists |-> [s \in Memory |-> s = Idle],
            allocated |-> {},
            hung |-> FALSE]
    /\ pid = [s \in Memory |-> 0]
    /\ mutexCount = [s \in Memory |-> 0]
    /\ kGlobalPid = 1
    /\ offspring = [s \in Memory |-> <<>>]

Live == {s \in Memory : m.exists[s]}

\* tasks_createTaskStatic and tasks_createTaskDynamic by the task c, the idle
\* task's being main.  The allocator gives any block that is free.
Create(c, s) ==
    /\ ~m.hung
    /\ c \in Live
    /\ s \notin Live
    /\ s \in Dynamic => s \notin m.allocated
    /\ kGlobalPid < MaxCreated
    /\ m' = CreateIn(s, c)
    /\ pid' = [pid EXCEPT ![s] = kGlobalPid]
    /\ kGlobalPid' = kGlobalPid + 1
    /\ offspring' = [offspring EXCEPT ![c] = Append(@, kGlobalPid), ![s] = <<>>]
    /\ UNCHANGED mutexCount

-----------------------------------------------------------------------------
\* Mutants: the walk over the children starts at the last one; a deleted task
\* stays on the global list; its block stays allocated.
LastChild(k, s) == k.children.tail[s]

ReleaseStaysListed(k, s) ==
    [k EXCEPT !.children = ListDeleteAny(@, s, s),
              !.allocated = @ \ {s}]

ReleaseKeepsBlock(k, s) ==
    [k EXCEPT !.all = ListDeleteAny(@, Global, s),
              !.children = ListDeleteAny(@, s, s)]

FirstChild(k, s) == k.children.head[s]

\* The end of tasks_deleteTask.  The child item is deleted from the list of s's
\* own children.  Only dynamic tasks are in blocks of the heap, and mem_heapFree
\* ignores a block that is free.
Release(k, s) ==
    [k EXCEPT !.all = ListDeleteAny(@, Global, s),
              !.children = ListDeleteAny(@, s, s),
              !.allocated = @ \ {s}]

RECURSIVE DeleteTask(_, _, _), DeleteFrom(_, _, _)

\* tasks_deleteTask: nothing while the task holds a mutex.  calls bounds how deep
\* and how far the walks may still go.
DeleteTask(k, s, calls) ==
    IF mutexCount[s] # 0 THEN k
    ELSE LET gone == [k EXCEPT !.exists = [@ EXCEPT ![s] = FALSE]]
         IN  Release(DeleteFrom(gone, FirstChild(gone, s), calls), s)

\* Its loop over the children, from s on: the next is read before s is deleted.
DeleteFrom(k, s, calls) ==
    CASE s = NULL \/ k.hung          -> k
      [] s # NULL /\ calls = 0       -> [k EXCEPT !.hung = TRUE]
      [] OTHER -> DeleteFrom(DeleteTask(k, s, calls - 1),
                             k.children.next[s], calls - 1)

\* tasks_deleteTask by whoever holds the handle, the task itself included.
Delete(s) ==
    /\ ~m.hung
    /\ s \in Live \ {Idle}
    /\ m' = DeleteTask(m, s, Cardinality(Memory))
    /\ UNCHANGED <<pid, mutexCount, kGlobalPid, offspring>>

\* Taking and giving back a mutex.
SetHeldMutexCount(s, n) ==
    /\ ~m.hung
    /\ s \in Live
    /\ mutexCount[s] # n
    /\ mutexCount' = [mutexCount EXCEPT ![s] = n]
    /\ UNCHANGED <<m, pid, kGlobalPid, offspring>>

Next ==
    \/ \E c, s \in Memory : Create(c, s)
    \/ \E s \in Memory : Delete(s)
    \/ \E s \in Memory, n \in 0..1 : SetHeldMutexCount(s, n)

Spec == Init /\ [][Next]_vars

-----------------------------------------------------------------------------
\* The walk of list l of f: where it is after n links, NULL being its end.
Walk(f, l) ==
    LET nth[n \in 0..Cardinality(Memory)] ==
            IF n = 0 THEN f.head[l]
            ELSE IF nth[n - 1] = NULL THEN NULL ELSE f.next[nth[n - 1]]
    IN  nth

\* The task tasks_getTaskByPid ends up with: the last it meets with this pid.
GetTaskByPid(p) ==
    LET at    == Walk(m.all, Global)
        found == {n \in DOMAIN at : at[n] # NULL /\ pid[at[n]] = p}
    IN  IF found = {} THEN NULL ELSE at[CHOOSE n \in found : \A i \in found : i <= n]

-----------------------------------------------------------------------------
ListsOver(names) ==
    LET Pointer == Memory \cup {NULL} IN
    [head : [names -> Pointer], tail : [names -> Pointer],
     next : [Memory -> Pointer], prev : [Memory -> Pointer],
     list : [Memory -> names \cup {NULL}]]

TreeTypeOK ==
    /\ m.all \in ListsOver({Global}) /\ m.children \in ListsOver(Memory)
    /\ m.exists \in [Memory -> BOOLEAN] /\ m.hung \in BOOLEAN
    /\ m.allocated \subseteq Dynamic
    /\ pid \in [Memory -> 0..MaxCreated - 1]
    /\ mutexCount \in [Memory -> 0..1]
    /\ kGlobalPid \in 0..MaxCreated
    /\ offspring \in [Memory -> Seq(1..MaxCreated - 1)]

\* The tasks that s created and that exist.
Children(s) == {u \in Live : pid[u] \in ToSet(offspring[s])}

\* s and its descendants, but for those that hold a mutex and what is below them.
RECURSIVE Doomed(_)
Doomed(s) ==
    IF mutexCount[s] # 0 THEN {} ELSE {s} \cup UNION {Doomed(u) : u \in Children(s)}

\* The child list of s names its children, each once.
ChildListRight(s) ==
    LET at == Walk(m.children, s) IN
    /\ at[Cardinality(Memory)] = NULL
    /\ {at[n] : n \in DOMAIN at} \ {NULL} = Children(s)

MeetsStaleList(s) == \E u \in Doomed(s) : ~ChildListRight(u)

\* tasks_deleteTask returns, having deleted the task and its descendants, except
\* below one that holds a mutex, and no other task.
DeletesExactly(s) ==
    /\ ~m'.hung
    /\ {u \in Memory : m'.exists[u]} = Live \ Doomed(s)

\* tasks.h:70, "Child task list.": what is on it is what goes with the task.
DeletesItsDescendants == [][\A s \in Memory : Delete(s) => DeletesExactly(s)]_vars

\* Nothing but a stale child list leads tasks_deleteTask astray: if the lists of
\* the tasks that are to go name their children, as they stand when it is called,
\* the recursion deletes those and no others, although it unlinks, from the wrong
\* lists, the items that it walks over.
DeletionIsExact ==
    [][\A s \in Memory :
          Delete(s) /\ ~MeetsStaleList(s) => DeletesExactly(s)]_vars

\* tasks_getTaskByPid finds every task that exists and no other.
LookupsFind ==
    LET LivePids == {pid[s] : s \in Live} IN
    /\ \A s \in Live : GetTaskByPid(pid[s]) = s
    /\ \A p \in 0..MaxCreated - 1 : p \notin LivePids => GetTaskByPid(p) = NULL

\* They do, and the list is linked both ways from its head to its tail.
GlobalListRight ==
    /\ LookupsFind
    /\ Walk(m.all, Global)[Cardinality(Memory)] = NULL
    /\ \A s \in Live : IF m.all.next[s] = NULL THEN m.all.tail[Global] = s
                                               ELSE m.all.prev[m.all.next[s]] = s

\* Whatever stale links the memory of new and deleted tasks holds, lookups go on
\* finding the tasks there are: only a deletion that meets a stale child list, and
\* deletes a second time what is on no list any more, breaks the global list.
LookupsKept ==
    [][GlobalListRight => \/ GlobalListRight'
                          \/ \E s \in Memory : Delete(s) /\ MeetsStaleList(s)]_vars

\* The lookups read kGlobalTaskList.head before they enter the critical section.
\* It cannot be stale by then: the idle task stays at the head for good.
HeadNeverMoves == [][m'.all.head = m.all.head]_vars

\* The memory of dynamic tasks goes back to the heap when, and only when, they
\* are deleted: none is lost, and none is freed under a task that exists, even if
\* the walk of a stale list deletes the wrong one.
MemoryReturned == m.allocated = Live \cap Dynamic
=============================================================================
