------------------------------- MODULE Lists --------------------------------
(***************************************************************************)
(* The intrusive doubly linked lists of src/kernel/common/lists.c, pointer *)
(* by pointer.  A list header has a head and a tail; an item has next and  *)
(* prev links and a back pointer to the list it is on.  The kernel keeps   *)
(* every task queue, every lock's waiters and every block of task memory   *)
(* in such lists.                                                          *)
(*                                                                         *)
(* The actions are called under the discipline the kernel follows: an item *)
(* is added only while its back pointer is NULL, and is deleted from the   *)
(* list its back pointer names.  Dropping an item leaves its own next and  *)
(* prev links as they were: they are stale until it is added again.        *)
(***************************************************************************)
EXTENDS Integers, Sequences, FiniteSets

CONSTANTS List, Item, NULL

ASSUME ListsAssumption ==
    /\ NULL \notin List
    /\ NULL \notin Item
    /\ IsFiniteSet(Item)

VARIABLES
    head, tail,    \* the two fields of each kLinkedList_t
    next, prev,    \* the two links of each kLinkedListItem_t
    list           \* the back pointer of each kLinkedListItem_t

vars == <<head, tail, next, prev, list>>

Init ==
    /\ head = [l \in List |-> NULL]
    /\ tail = [l \in List |-> NULL]
    /\ next = [i \in Item |-> NULL]
    /\ prev = [i \in Item |-> NULL]
    /\ list = [i \in Item |-> NULL]

-----------------------------------------------------------------------------
\* A store through a pointer the code has tested against NULL.
StoreUntested(f, i, v) ==     \* a mutant: the test is gone
    [j \in DOMAIN f \cup {i} |-> IF j = i THEN v ELSE f[j]]

Store(f, i, v) == IF i = NULL THEN f ELSE [f EXCEPT ![i] = v]

AddBackAtFront(l, i) ==       \* a mutant: the ends are mixed up
    /\ list[i] = NULL
    /\ next' = [next EXCEPT ![i] = head[l]]
    /\ prev' = Store([prev EXCEPT ![i] = NULL], head[l], i)
    /\ head' = [head EXCEPT ![l] = i]
    /\ tail' = [tail EXCEPT ![l] = IF @ = NULL THEN i ELSE @]
    /\ list' = [list EXCEPT ![i] = l]

AddBack(l, i) ==
    /\ list[i] = NULL
    /\ next' = Store([next EXCEPT ![i] = NULL], tail[l], i)
    /\ prev' = [prev EXCEPT ![i] = tail[l]]
    /\ tail' = [tail EXCEPT ![l] = i]
    /\ head' = [head EXCEPT ![l] = IF @ = NULL THEN i ELSE @]
    /\ list' = [list EXCEPT ![i] = l]

AddFront(l, i) ==
    /\ list[i] = NULL
    /\ next' = [next EXCEPT ![i] = head[l]]
    /\ prev' = Store([prev EXCEPT ![i] = NULL], head[l], i)
    /\ head' = [head EXCEPT ![l] = i]
    /\ tail' = [tail EXCEPT ![l] = IF @ = NULL THEN i ELSE @]
    /\ list' = [list EXCEPT ![i] = l]

DropFrontKeepsPrev(l) ==      \* a mutant: the new head still links back
    LET i == head[l] IN
    /\ i # NULL
    /\ head' = [head EXCEPT ![l] = next[i]]
    /\ tail' = [tail EXCEPT ![l] = IF @ = i THEN NULL ELSE @]
    /\ list' = [list EXCEPT ![i] = NULL]
    /\ UNCHANGED <<next, prev>>

DropFront(l) ==
    LET i == head[l] IN
    /\ i # NULL
    /\ head' = [head EXCEPT ![l] = next[i]]
    /\ prev' = Store(prev, next[i], NULL)
    /\ tail' = [tail EXCEPT ![l] = IF @ = i THEN NULL ELSE @]
    /\ list' = [list EXCEPT ![i] = NULL]
    /\ UNCHANGED next

DropBack(l) ==
    LET i == tail[l] IN
    /\ i # NULL
    /\ tail' = [tail EXCEPT ![l] = prev[i]]
    /\ next' = Store(next, prev[i], NULL)
    /\ head' = [head EXCEPT ![l] = IF @ = i THEN NULL ELSE @]
    /\ list' = [list EXCEPT ![i] = NULL]
    /\ UNCHANGED prev

\* A mutant: only the link back is closed.
UnlinkBackOnly(i) ==
    /\ prev' = Store(prev, next[i], prev[i])
    /\ list' = [list EXCEPT ![i] = NULL]
    /\ UNCHANGED <<head, tail, next>>

\* The last case of common_listDeleteAny: the item is at neither end, so its
\* neighbours are joined.
Unlink(i) ==
    /\ prev' = Store(prev, next[i], prev[i])
    /\ next' = Store(next, prev[i], next[i])
    /\ list' = [list EXCEPT ![i] = NULL]
    /\ UNCHANGED <<head, tail>>

DeleteAny(l, i) ==
    /\ list[i] = l
    /\ \/ head[l] = i /\ DropFront(l)
       \/ head[l] # i /\ tail[l] = i /\ DropBack(l)
       \/ head[l] # i /\ tail[l] # i /\ Unlink(i)

Next ==
    \E l \in List :
       \/ DropFront(l)
       \/ DropBack(l)
       \/ \E i \in Item : AddBack(l, i) \/ AddFront(l, i) \/ DeleteAny(l, i)

Spec == Init /\ [][Next]_vars

-----------------------------------------------------------------------------
\* The item n links after the head, NULL past the end: the walk of
\* common_listGetNthElement.  A longer walk than there are items is a cycle.
NthElement(l, n) ==
    LET walk[m \in 0..n] ==
          IF m = 0 THEN head[l]
          ELSE IF walk[m - 1] = NULL THEN NULL ELSE next[walk[m - 1]]
    IN  walk[n]

Length(l) ==
    Cardinality({n \in 0..Cardinality(Item) : NthElement(l, n) # NULL})

Contents(l) == [n \in 1..Length(l) |-> NthElement(l, n - 1)]

Abstract == INSTANCE ListSpec WITH seq <- [l \in List |-> Contents(l)]

-----------------------------------------------------------------------------
TypeOK ==
    /\ head \in [List -> Item \cup {NULL}]
    /\ tail \in [List -> Item \cup {NULL}]
    /\ next \in [Item -> Item \cup {NULL}]
    /\ prev \in [Item -> Item \cup {NULL}]
    /\ list \in [Item -> List \cup {NULL}]

\* The ends of a list: both headers are set or neither is, and each names an
\* item that is on this list and has no neighbour beyond it.
EndsLinked ==
    \A l \in List :
       /\ head[l] = NULL <=> tail[l] = NULL
       /\ head[l] # NULL => list[head[l]] = l /\ prev[head[l]] = NULL
       /\ tail[l] # NULL => list[tail[l]] = l /\ next[tail[l]] = NULL

\* Every linked item is joined in both directions to a neighbour on its own
\* list, or is the end its list's header names.
NeighboursLinked ==
    \A i \in Item : list[i] # NULL =>
       /\ IF next[i] = NULL THEN tail[list[i]] = i
                            ELSE list[next[i]] = list[i] /\ prev[next[i]] = i
       /\ IF prev[i] = NULL THEN head[list[i]] = i
                            ELSE list[prev[i]] = list[i] /\ next[prev[i]] = i

\* However items are added, dropped and deleted, and whatever stale links
\* dropped items keep, common/lists.c leaves every list doubly linked and every
\* back pointer naming a list whose links reach it from both sides.
Linked == EndsLinked /\ NeighboursLinked

\* Pointer by pointer, lists.c only ever makes the moves of ListSpec: no operation
\* disturbs another list, or an item it was not asked to move.
ImplementsSequences == Abstract!Spec

\* Each operation makes the move its name says, at the right end: round robin
\* and the order in which lock waiters are woken rely on AddBack being FIFO.
OperationsMatch ==
    [][\A l \in List :
         /\ DropFront(l) => Abstract!TakeFront(l)
         /\ DropBack(l) => Abstract!TakeBack(l)
         /\ \A i \in Item :
               /\ AddBack(l, i) => Abstract!PutBack(l, i)
               /\ AddFront(l, i) => Abstract!PutFront(l, i)
               /\ DeleteAny(l, i) => Abstract!TakeAny(l, i)]_vars
=============================================================================
