------------------------------- MODULE Buffers -------------------------------
(***************************************************************************)
(* The byte buffers of src/kernel/ipc/fifo.c and lifo.c, which share one   *)
(* structure and one initialisation.  Items of ItemSize bytes are copied   *)
(* to and from byte positions; an item is a value and its bytes are told   *)
(* apart by their offset in it.  The memory modelled goes past the end of  *)
(* the buffer, as far as a copy from inside it can reach.                  *)
(*                                                                         *)
(* A call is one step: the code has no critical section and leaves locking *)
(* to its callers.                                                         *)
(***************************************************************************)
EXTENDS Integers, Sequences

CONSTANTS
    Value,       \* what the items of the callers say
    ItemSize,    \* itemSize, in bytes
    FifoSizes,   \* the sizes in bytes a FIFO may have
    LifoSizes,   \* and a LIFO
    Nothing      \* no item

\* ipc_fifoInit does nothing if the buffer is smaller than an item.
ASSUME BuffersAssumption ==
    /\ ItemSize \in Nat \ {0}
    /\ FifoSizes \cup LifoSizes \subseteq {n \in Nat : n >= ItemSize}
    /\ Nothing \notin Value

VARIABLES
    order,             \* "FIFO" or "LIFO": which functions it is used with
    bufferSize,
    mem,               \* the bytes of the buffer, and of the memory behind it
    inputPosition,     \* where the next item goes (FIFO)
    outputPosition,    \* where the next item comes from (FIFO)
    currentPosition,   \* bytes in use
    out                \* history: the item the last read or peek returned

fixed == <<order, bufferSize>>

vars == <<fixed, mem, inputPosition, outputPosition, currentPosition, out>>

Untouched == <<Nothing, 0>>

\* ipc_fifoInit, and ipc_lifoInit, which calls it.
Init ==
    /\ \/ order = "FIFO" /\ bufferSize \in FifoSizes
       \/ order = "LIFO" /\ bufferSize \in LifoSizes
    /\ mem = [a \in 0..bufferSize + ItemSize - 2 |-> Untouched]
    /\ inputPosition = 0
    /\ outputPosition = 0
    /\ currentPosition = 0
    /\ out = Nothing

\* common_memcpy of one item to, and from, position a.
CopyIn(a, v) ==
    [b \in DOMAIN mem |-> IF b \in a..a + ItemSize - 1 THEN <<v, b - a>>
                                                       ELSE mem[b]]

ItemAt(a) ==
    IF \E v \in Value : \A j \in 0..ItemSize - 1 : mem[a + j] = <<v, j>>
    THEN CHOOSE v \in Value : mem[a] = <<v, 0>>
    ELSE Nothing

\* A mutant: a position wraps when the item after it would be the last.
AdvanceEarly(a) == IF a + 2 * ItemSize >= bufferSize THEN 0 ELSE a + ItemSize

Advance(a) == IF a + ItemSize >= bufferSize THEN 0 ELSE a + ItemSize

\* ipc_fifoFreeSpace, and ipc_lifoFreeSpace (after a mutant of it), do not
\* return 0.
HasSpace     == ~(bufferSize - currentPosition < ItemSize)
HasAnySpace  == bufferSize - currentPosition > 0
LifoHasSpace == bufferSize - currentPosition >= ItemSize

\* ipc_fifoAvailable, and ipc_lifoAvailable, do not return 0.
Available     == currentPosition # 0
LifoAvailable == currentPosition # 0

-----------------------------------------------------------------------------
FifoWrite(v) ==
    /\ order = "FIFO"
    /\ HasSpace
    /\ mem' = CopyIn(inputPosition, v)
    /\ inputPosition' = Advance(inputPosition)
    /\ currentPosition' = currentPosition + ItemSize
    /\ UNCHANGED <<fixed, outputPosition, out>>

FifoPeek ==
    /\ order = "FIFO"
    /\ Available
    /\ out' = ItemAt(outputPosition)
    /\ UNCHANGED <<fixed, mem, inputPosition, outputPosition, currentPosition>>

FifoRead ==
    /\ order = "FIFO"
    /\ Available
    /\ out' = ItemAt(outputPosition)
    /\ outputPosition' = Advance(outputPosition)
    /\ currentPosition' = currentPosition - ItemSize
    /\ UNCHANGED <<fixed, mem, inputPosition>>

LifoWrite(v) ==
    /\ order = "LIFO"
    /\ LifoHasSpace
    /\ mem' = CopyIn(currentPosition, v)
    /\ currentPosition' = currentPosition + ItemSize
    /\ UNCHANGED <<fixed, inputPosition, outputPosition, out>>

\* The code asks ipc_fifoAvailable here.
LifoPeek ==
    /\ order = "LIFO"
    /\ Available
    /\ out' = ItemAt(currentPosition - ItemSize)
    /\ UNCHANGED <<fixed, mem, inputPosition, outputPosition, currentPosition>>

LifoRead ==
    /\ order = "LIFO"
    /\ LifoAvailable
    /\ out' = ItemAt(currentPosition - ItemSize)
    /\ currentPosition' = currentPosition - ItemSize
    /\ UNCHANGED <<fixed, mem, inputPosition, outputPosition>>

Next ==
    \/ \E v \in Value : FifoWrite(v) \/ LifoWrite(v)
    \/ FifoRead \/ FifoPeek
    \/ LifoRead \/ LifoPeek

Spec == Init /\ [][Next]_vars

-----------------------------------------------------------------------------
Count == currentPosition \div ItemSize

\* The places an item can begin at: a FIFO's positions wrap when they are at or
\* past the end of the buffer, so its last item may begin inside and end behind.
Slots ==
    IF order = "FIFO" THEN (bufferSize + ItemSize - 1) \div ItemSize
                      ELSE bufferSize \div ItemSize

\* The position of the n-th item from the one a FIFO reads next.
FifoPosition(n) ==
    LET a   == outputPosition + n * ItemSize
        end == Slots * ItemSize
    IN  IF a < end THEN a ELSE a - end

\* The items, oldest first.
Items ==
    [n \in 1..Count |-> ItemAt(IF order = "FIFO" THEN FifoPosition(n - 1)
                                                 ELSE (n - 1) * ItemSize)]

Store == INSTANCE BufferSpec WITH items <- Items,
                                  capacity <- bufferSize \div ItemSize

\* Byte by byte, with both positions wrapping on their own, fifo.c is a queue:
\* what is read is what was written, once, in the order it was written, also if
\* the items do not divide the buffer and nobody else uses the bytes behind it;
\* and lifo.c is a stack.
ImplementsStore == Store!StoreSpec

\* How far the copies of fifo.c:35 and lifo.c:29 reach: to the end of the last
\* slot and no further, and a FIFO that has come round has been all the way there.
\* That is inside the buffer for a LIFO, and for a FIFO whose size is a multiple
\* of its items'.  Otherwise it is behind it: the 11 bytes at 99 of 100 that
\* test_fifo.cpp:309 sets up, and those at 22 of 31 of tests/platform/main.c:92.
WritesReachSlots ==
    /\ \A a \in DOMAIN mem : a >= Slots * ItemSize => mem[a] = Untouched
    /\ order = "FIFO" /\ inputPosition = 0 /\ Available =>
          \A a \in 0..Slots * ItemSize - 1 : mem[a] # Untouched
=============================================================================
