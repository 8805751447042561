----------------------------- MODULE BufferSpec ------------------------------
(***************************************************************************)
(* What src/kernel/ipc/fifo.c and lifo.c promise: a store of at most       *)
(* capacity items, read in the order of arrival or in reverse.             *)
(***************************************************************************)
EXTENDS Integers, Sequences

CONSTANTS Value, Nothing

VARIABLES
    order,      \* "FIFO" or "LIFO", never changes
    capacity,   \* nor does this
    items,      \* the items in the buffer, oldest first
    out         \* the item the last read or peek returned

fixed == <<order, capacity>>

SpecInit == items = <<>> /\ out = Nothing

Put(v) ==
    /\ Len(items) < capacity
    /\ items' = Append(items, v)
    /\ UNCHANGED <<fixed, out>>

Oldest == Head(items)
Newest == items[Len(items)]

Take ==
    /\ items # <<>>
    /\ \/ order = "FIFO" /\ out' = Oldest /\ items' = Tail(items)
       \/ order = "LIFO" /\ out' = Newest /\ items' = SubSeq(items, 1, Len(items) - 1)
    /\ UNCHANGED fixed

See ==
    /\ items # <<>>
    /\ out' = IF order = "FIFO" THEN Oldest ELSE Newest
    /\ UNCHANGED <<fixed, items>>

StoreNext == (\E v \in Value : Put(v)) \/ Take \/ See

StoreSpec == SpecInit /\ [][StoreNext]_<<fixed, items, out>>
=============================================================================
