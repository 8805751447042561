-------------------------------- MODULE Heap --------------------------------
(***************************************************************************)
(* The heap, src/kernel/mem/heap.c, on the links of its chain of free      *)
(* blocks.  A block is its header at some address and the bytes behind it; *)
(* free blocks are linked from kHeapStart to kHeapEnd by address.  Headers *)
(* that are no longer in use stay in memory as they are.                   *)
(*                                                                         *)
(* A call is one critical section and one step.  tasks_deleteTask frees a  *)
(* task's allocation list block by block, also in one critical section; it *)
(* goes from a block to the next by a link in the block it has just freed. *)
(***************************************************************************)
EXTENDS Integers, Sequences, FiniteSets, SequencesExt

CONSTANTS
    Span,         \* bytes between the start of the heap and kHeapEnd
    HeaderSize,   \* mem_HEAP_STRUCT_SIZE
    MinBlock,     \* CFG_MIN_BLOCK_SIZE
    Request,      \* the sizes asked for
    Owner,        \* tasks that allocate
    NoOwner,      \* a NULL allocation list
    Nowhere       \* a NULL pointer

\* On AVR the alignment is 1 and sizes are not rounded.  No request is so near
\* the width of size_t that adding a header wraps.
ASSUME HeapAssumption ==
    /\ Span \in Nat \ {0}
    /\ HeaderSize \in 1..Span
    /\ MinBlock \in Nat
    /\ Request \subseteq Nat \ {0}
    /\ NoOwner \notin Owner
    /\ Nowhere \notin 0..Span

Start == -1      \* &kHeapStart, which lies outside the heap
End   == Span    \* kHeapEnd

Header == [next : 0..End \cup {Nowhere}, size : 0..Span, valid : BOOLEAN,
           list : Owner \cup {NoOwner}]

VARIABLES
    hdr,         \* headers by address; valid stands for magic1 and magic2,
                 \* list for allocListItem.list, kept while data is not NULL
    link,        \* allocListItem.next of each header
    allocList,   \* allocList of each task
    free,        \* kFreeMemory
    least,       \* kMinimumFreeMemory
    deleting,    \* the task in whose deletion tasks_deleteTask frees blocks
    freeing,     \* its head: the block to free next
    given,       \* history: the block the last request returned, or Nowhere
    owner,       \* history: the live blocks and who they were allocated for
    lastFreed    \* history: the block freed last, until another is allocated

mem     == <<hdr, link, allocList, free, least>>
loop    == <<deleting, freeing>>
history == <<given, owner, lastFreed>>
vars    == <<mem, loop, history>>

Unused == [next |-> Nowhere, size |-> 0, valid |-> FALSE, list |-> NoOwner]

Init ==
    /\ hdr = [a \in Start..End |->
                CASE a = Start -> [Unused EXCEPT !.next = 0]
                  [] a = 0     -> [Unused EXCEPT !.next = End, !.size = Span,
                                                 !.valid = TRUE]
                  [] OTHER     -> Unused]
    /\ link = [a \in 0..End - 1 |-> Nowhere]
    /\ allocList = [o \in Owner |-> <<>>]
    /\ free = Span
    /\ least = Span
    /\ deleting = NoOwner
    /\ freeing = Nowhere
    /\ given = Nowhere
    /\ owner = <<>>
    /\ lastFreed = Nowhere

-----------------------------------------------------------------------------
\* The chain of h from kHeapStart on; it stays at kHeapEnd, which it reaches before
\* Place ends: a block has at least one byte.
Place == 0..Span + 1

Chain(h) ==
    LET nth[n \in Place] ==
            IF n = 0 THEN Start
            ELSE LET a == nth[n - 1] IN IF a = End THEN End ELSE h[a].next
    IN  nth

\* The first block on the chain of h with a property: where a loop over it ends.
FirstOnChain(h, P(_)) ==
    LET chain == Chain(h)
    IN  chain[CHOOSE n \in Place : P(chain[n]) /\ \A m \in 0..n - 1 : ~P(chain[m])]

\* Two mutants of mem_insertFreeBlock: b is not merged with the block below it; b
\* is not merged at all.
InsertAboveOnly(h, b) ==
    LET prev  == FirstOnChain(h, LAMBDA a : h[a].next >= b)
        above == h[prev].next
        joins == b + h[b].size = above /\ above # End
    IN  [h EXCEPT ![b].size = @ + IF joins THEN h[above].size ELSE 0,
                  ![b].next = IF joins THEN h[above].next ELSE above,
                  ![prev].next = b]

InsertAtFront(h, b) ==
    [h EXCEPT ![b].next = h[Start].next, ![Start].next = b]

\* mem_insertFreeBlock: link b into the chain by its address, as part of the
\* block that ends where b starts, if one does, and taking in the block that
\* starts where it ends.
InsertFreeBlock(h, b) ==
    LET prev  == FirstOnChain(h, LAMBDA a : h[a].next >= b)
        above == h[prev].next
        below == prev + h[prev].size = b
        first == IF below THEN prev ELSE b
        size  == h[b].size + IF below THEN h[prev].size ELSE 0
        joins == first + size = above /\ above # End
        new   == [h EXCEPT ![first].size = size + IF joins THEN h[above].size
                                                           ELSE 0,
                           ![first].next = IF joins THEN h[above].next
                                                    ELSE above]
    IN  IF below THEN new ELSE [new EXCEPT ![prev].next = b]

\* The block mem_heapAlloc stops at: one that need fits in, or kHeapEnd.
FirstFitting(need) ==
    FirstOnChain(hdr, LAMBDA a : a # Start /\ (hdr[a].size >= need \/ a = End))

\* Block b off the chain, and what need leaves of it back on, unless that is too
\* little.  A mutant does not set the size of the block that is cut.
CutKeepsSize(b, need) ==
    LET prev == FirstOnChain(hdr, LAMBDA a : hdr[a].next = b)
        off  == [hdr EXCEPT ![prev].next = hdr[b].next]
        rest == hdr[b].size - need
    IN  IF rest <= MinBlock THEN off
        ELSE InsertFreeBlock([off EXCEPT ![b + need].size = rest], b + need)

Cut(b, need) ==
    LET prev == FirstOnChain(hdr, LAMBDA a : hdr[a].next = b)
        off  == [hdr EXCEPT ![prev].next = hdr[b].next]
        rest == hdr[b].size - need
    IN  IF rest <= MinBlock THEN off
        ELSE InsertFreeBlock([off EXCEPT ![b].size = need,
                                         ![b + need].size = rest], b + need)

-----------------------------------------------------------------------------
AllocFails(n) ==
    /\ deleting = NoOwner
    /\ n + HeaderSize > free \/ FirstFitting(n + HeaderSize) = End
    /\ given' = Nowhere
    /\ UNCHANGED <<mem, loop, owner, lastFreed>>

\* common_listAddBack and common_listDeleteAny, as far as the links forward go: the
\* item that is put on a list, and the one in front of it.  The item taken off keeps
\* its own link.
LinkedBack(o, b) ==
    [x \in 0..End - 1 |->
       IF x = b THEN Nowhere
       ELSE IF allocList[o] # <<>> /\ x = Last(allocList[o]) THEN b
       ELSE link[x]]

Precedes(s, x, y) == \E i \in 1..Len(s) - 1 : s[i] = x /\ s[i + 1] = y

LinkedPast(o, a) ==
    [x \in 0..End - 1 |-> IF Precedes(allocList[o], x, a) THEN link[a] ELSE link[x]]

\* mem_heapAlloc, for the allocation list of o or, for NoOwner, for none.
Alloc(o, n) ==
    LET need == n + HeaderSize
        b    == FirstFitting(need)
        h    == Cut(b, need)
    IN
    /\ deleting = NoOwner
    /\ need <= free /\ b # End
    /\ hdr' = [h EXCEPT ![b].valid = TRUE, ![b].next = Nowhere, ![b].list = o]
    /\ allocList' = IF o = NoOwner THEN allocList
                    ELSE [allocList EXCEPT ![o] = Append(@, b)]
    /\ link' = IF o = NoOwner THEN link ELSE LinkedBack(o, b)
    /\ free' = free - h[b].size
    /\ least' = IF free' < least THEN free' ELSE least
    /\ given' = b
    /\ owner' = [a \in DOMAIN owner \cup {b} |-> IF a = b THEN o ELSE owner[a]]
    /\ lastFreed' = Nowhere
    /\ UNCHANGED loop

\* mem_malloc: the block goes on the list of the running task.  The memory of a
\* new task goes on none.
Malloc(t, n)  == t \in Owner /\ Alloc(t, n)
TaskMemory(n) == Alloc(NoOwner, n)

\* common_listDeleteAny.
Without(s, x) ==
    LET i == CHOOSE i \in 1..Len(s) : s[i] = x
    IN  [j \in 1..Len(s) - 1 |-> IF j < i THEN s[j] ELSE s[j + 1]]

\* The allocation list of o, or NoOwner, without a, and that list's links.
OffList(o, a) ==
    /\ allocList' = IF o = NoOwner THEN allocList
                    ELSE [allocList EXCEPT ![o] = Without(@, a)]
    /\ link' = IF o = NoOwner THEN link ELSE LinkedPast(o, a)

\* Two mutants of mem_heapFree: a block that is not allocated is freed again; the item
\* is cleared when it is taken off the allocation list.
HeapFreeUnchecked(a) ==
    /\ hdr' = InsertFreeBlock([hdr EXCEPT ![a].list = NoOwner], a)
    /\ OffList(hdr[a].list, a)
    /\ free' = free + hdr[a].size

HeapFreeClears(a) ==
    LET o == hdr[a].list IN
    /\ hdr' = IF hdr[a].valid
              THEN InsertFreeBlock([hdr EXCEPT ![a].valid = FALSE, ![a].list = NoOwner], a)
              ELSE hdr
    /\ allocList' = IF ~hdr[a].valid \/ o = NoOwner THEN allocList
                    ELSE [allocList EXCEPT ![o] = Without(@, a)]
    /\ link' = IF ~hdr[a].valid \/ o = NoOwner THEN link
               ELSE [LinkedPast(o, a) EXCEPT ![a] = Nowhere]
    /\ free' = free + IF hdr[a].valid THEN hdr[a].size ELSE 0

\* mem_heapFree of an address in the heap, as mem_heapPointerSanityCheck asks.
HeapFree(a) ==
    IF hdr[a].valid
    THEN IF hdr[a].next = Nowhere
         THEN /\ hdr' = InsertFreeBlock([hdr EXCEPT ![a].valid = FALSE,
                                                   ![a].list = NoOwner], a)
              /\ OffList(hdr[a].list, a)
              /\ free' = free + hdr[a].size
         ELSE /\ hdr' = [hdr EXCEPT ![a].valid = FALSE]
              /\ UNCHANGED <<link, allocList, free>>
    ELSE UNCHANGED <<hdr, link, allocList, free>>

Forget(a) ==
    /\ owner' = [b \in DOMAIN owner \ {a} |-> owner[b]]
    /\ lastFreed' = a
    /\ UNCHANGED <<least, given>>

\* mem_free of a live block by whoever holds it, or of one that was just freed
\* (test_alloc.cpp:132, Test_AllocDoubleFreeRealloc).
Free(a) ==
    /\ deleting = NoOwner
    /\ a \in DOMAIN owner \/ a = lastFreed
    /\ HeapFree(a)
    /\ Forget(a)
    /\ UNCHANGED loop

\* tasks_deleteTask frees the blocks on the task's allocation list, from its head on.
First(s) == IF s = <<>> THEN Nowhere ELSE Head(s)

DeleteAllocations(o) ==
    /\ deleting = NoOwner
    /\ deleting' = o
    /\ freeing' = First(allocList[o])
    /\ UNCHANGED <<mem, history>>

\* head = head->next comes after mem_heapFree(head->data): it reads what the free has
\* left of the header of a block that is on the chain by now, or merged.
FreeNext ==
    /\ freeing # Nowhere
    /\ HeapFree(freeing)
    /\ Forget(freeing)
    /\ freeing' = link'[freeing]
    /\ UNCHANGED deleting

FreedAll ==
    /\ deleting # NoOwner /\ freeing = Nowhere
    /\ deleting' = NoOwner
    /\ UNCHANGED <<mem, freeing, history>>

Next ==
    \/ \E n \in Request :
          AllocFails(n) \/ TaskMemory(n) \/ \E t \in Owner : Malloc(t, n)
    \/ \E a \in 0..End - 1 : Free(a)
    \/ \E o \in Owner : DeleteAllocations(o)
    \/ FreeNext \/ FreedAll

Spec == Init /\ [][Next]_vars

-----------------------------------------------------------------------------
TypeOK ==
    /\ hdr \in [Start..End -> Header]
    /\ allocList \in [Owner -> Seq(0..End - 1)]
    /\ link \in [0..End - 1 -> 0..End - 1 \cup {Nowhere}]
    /\ free \in 0..Span /\ least \in 0..Span
    /\ deleting \in Owner \cup {NoOwner}
    /\ freeing \in 0..End - 1 \cup {Nowhere} /\ given \in 0..End - 1 \cup {Nowhere}

OnChain == {Chain(hdr)[n] : n \in Place} \ {Start, End}

Bytes(a) == a..a + hdr[a].size - 1

\* No overlap and no leak: every byte of the heap is in exactly one block, live
\* or on the chain, and kFreeMemory counts those on the chain.
HeapTiled ==
    /\ \A x \in 0..Span - 1 :
          \E a \in DOMAIN owner \cup OnChain :
             /\ x \in Bytes(a)
             /\ \A b \in DOMAIN owner \cup OnChain : x \in Bytes(b) => a = b
    /\ free = Cardinality(UNION {Bytes(a) : a \in OnChain})

\* Fragments are merged: the chain goes up through the heap and leaves no two
\* free blocks next to each other, so freeing everything leaves one block.
ChainMerged ==
    \A a \in OnChain : a + hdr[a].size < hdr[a].next \/ hdr[a].next = End

\* A task's allocation list names exactly the live blocks allocated for it, and its
\* deletion frees them all and nothing twice: the link it reads from a block it has
\* already freed leads to the first block that is left, and ends with the last.
AllocListsExact ==
    /\ \A o \in Owner :
          /\ ToSet(allocList[o]) = {a \in DOMAIN owner : owner[a] = o}
          /\ IsInjective(allocList[o])
    /\ deleting # NoOwner => freeing = First(allocList[deleting])

LiveBlocks == {[addr |-> a, size |-> hdr[a].size] : a \in DOMAIN owner}

FirstFitHeap == INSTANCE HeapSpec WITH live <- LiveBlocks

\* The chain, its splitting and its merging implement first fit: whatever was
\* allocated and freed before, a request is given the lowest gap that is large
\* enough, and fails only if there is none.
ImplementsFirstFit == FirstFitHeap!FirstFit
=============================================================================
