------------------------------ MODULE ListSpec ------------------------------
(***************************************************************************)
(* What src/kernel/common/lists.c promises its callers, with no pointers:  *)
(* each list is a sequence of items and an item is in at most one list.    *)
(* Lists implements this specification; Tasks is written on top of it.     *)
(***************************************************************************)
EXTENDS Integers, Sequences, FiniteSets

CONSTANTS List, Item

VARIABLE seq    \* seq[l] is the contents of list l, front to back

Members(s) == {s[n] : n \in DOMAIN s}

Free(i) == \A l \in List : i \notin Members(seq[l])

SpecInit == seq = [l \in List |-> <<>>]

PutBack(l, i)  == Free(i) /\ seq' = [seq EXCEPT ![l] = Append(@, i)]
PutFront(l, i) == Free(i) /\ seq' = [seq EXCEPT ![l] = <<i>> \o @]

\* Dropping from an empty list has no effect.
TakeFront(l) == seq' = [seq EXCEPT ![l] = IF @ = <<>> THEN <<>> ELSE Tail(@)]
TakeBack(l)  ==
    seq' = [seq EXCEPT ![l] = IF @ = <<>> THEN <<>>
                                          ELSE SubSeq(@, 1, Len(@) - 1)]

TakeAny(l, i) ==
    \E n \in DOMAIN seq[l] :
       /\ seq[l][n] = i
       /\ seq' = [seq EXCEPT ![l] = SubSeq(@, 1, n - 1) \o SubSeq(@, n + 1, Len(@))]

SpecNext ==
    \E l \in List :
       \/ TakeFront(l)
       \/ TakeBack(l)
       \/ \E i \in Item : PutBack(l, i) \/ PutFront(l, i) \/ TakeAny(l, i)

Spec == SpecInit /\ [][SpecNext]_seq
=============================================================================
