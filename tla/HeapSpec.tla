------------------------------ MODULE HeapSpec -------------------------------
(***************************************************************************)
(* What src/kernel/mem/heap.c promises: first fit.  A request gets the     *)
(* front of the lowest gap between live blocks that it fits in, with its   *)
(* header, and fails only if there is no such gap.  Gaps are whatever live *)
(* blocks leave: there is no chain of free blocks here to keep in order.   *)
(***************************************************************************)
EXTENDS Integers, FiniteSets

CONSTANTS
    Span,         \* bytes between the start of the heap and kHeapEnd
    HeaderSize,   \* mem_HEAP_STRUCT_SIZE
    MinBlock,     \* CFG_MIN_BLOCK_SIZE
    Request,      \* the sizes asked for
    Nowhere       \* a NULL pointer

VARIABLES
    live,    \* the blocks allocated and not freed, as [addr, size]
    given,   \* the block returned by the last request
    least    \* the least free memory there ever was

Taken == UNION {b.addr..b.addr + b.size - 1 : b \in live}

\* From the start of the heap or the end of a block to the next block or the end.
Gap ==
    LET Froms == {0} \cup {b.addr + b.size : b \in live}
        Tos   == {Span} \cup {b.addr : b \in live}
    IN  {g \in [addr : Froms, size : 1..Span] :
            /\ g.addr + g.size \in Tos
            /\ Taken \cap (g.addr..g.addr + g.size - 1) = {}}

Fitting(n) == {g \in Gap : g.size >= n + HeaderSize}

FreeBytes == Span - Cardinality(Taken)

SpecInit == live = {} /\ given = Nowhere /\ least = Span

SpecAlloc(n) ==
    \E g \in Fitting(n) :
       /\ \A f \in Fitting(n) : g.addr <= f.addr
       /\ LET need == n + HeaderSize
              size == IF g.size - need > MinBlock THEN need ELSE g.size
          IN  /\ live' = live \cup {[addr |-> g.addr, size |-> size]}
              /\ least' = IF FreeBytes - size < least THEN FreeBytes - size
                                                      ELSE least
       /\ given' = g.addr

SpecFail(n) == Fitting(n) = {} /\ given' = Nowhere /\ UNCHANGED <<live, least>>

SpecFree == \E b \in live : live' = live \ {b} /\ UNCHANGED <<given, least>>

HeapSpecNext == (\E n \in Request : SpecAlloc(n) \/ SpecFail(n)) \/ SpecFree

FirstFit == SpecInit /\ [][HeapSpecNext]_<<live, given, least>>
=============================================================================
