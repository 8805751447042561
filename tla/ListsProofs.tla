----------------------------- MODULE ListsProofs ----------------------------
(***************************************************************************)
(* For any number of lists and items, common/lists.c keeps every list      *)
(* doubly linked and makes only the moves of ListSpec.                     *)
(*                                                                         *)
(* Linked is inductive together with TypeOK, because each operation        *)
(* touches only the item, its two neighbours and one header.  Linked alone *)
(* allows a detached ring of items beside a list, so the refinement needs  *)
(* more: some sequence of items accounts for every link and back pointer   *)
(* of each list (Chain).  An operation turns the sequence of its list into *)
(* the one ListSpec says and leaves the others alone; and the walk of      *)
(* common_listGetNthElement over a chain reads that sequence back.         *)
(***************************************************************************)
EXTENDS Lists, SequenceTheorems, FiniteSetTheorems, WellFoundedInduction, TLAPS

LinkInv == TypeOK /\ Linked

LEMMA InitLinked == Init => LinkInv
BY ListsAssumption DEF Init, LinkInv, TypeOK, Linked, EndsLinked, NeighboursLinked

LEMMA AddBackLinked ==
    ASSUME LinkInv, NEW l \in List, NEW i \in Item, AddBack(l, i)
    PROVE  LinkInv'
<1> USE ListsAssumption DEF LinkInv, AddBack, Store
<1>1. TypeOK' BY DEF TypeOK
<1>2. EndsLinked'
  BY DEF TypeOK, Linked, EndsLinked, NeighboursLinked
<1>3. NeighboursLinked'
  BY DEF TypeOK, Linked, EndsLinked, NeighboursLinked
<1> QED BY <1>1, <1>2, <1>3 DEF Linked

LEMMA AddFrontLinked ==
    ASSUME LinkInv, NEW l \in List, NEW i \in Item, AddFront(l, i)
    PROVE  LinkInv'
<1> USE ListsAssumption DEF LinkInv, AddFront, Store
<1>1. TypeOK' BY DEF TypeOK
<1>2. EndsLinked'
  BY DEF TypeOK, Linked, EndsLinked, NeighboursLinked
<1>3. NeighboursLinked'
  BY DEF TypeOK, Linked, EndsLinked, NeighboursLinked
<1> QED BY <1>1, <1>2, <1>3 DEF Linked

LEMMA DropFrontLinked ==
    ASSUME LinkInv, NEW l \in List, DropFront(l)
    PROVE  LinkInv'
<1> USE ListsAssumption DEF LinkInv, DropFront, Store
<1>1. TypeOK' BY DEF TypeOK
<1>2. EndsLinked'
  BY DEF TypeOK, Linked, EndsLinked, NeighboursLinked
<1>3. NeighboursLinked'
  BY DEF TypeOK, Linked, EndsLinked, NeighboursLinked
<1> QED BY <1>1, <1>2, <1>3 DEF Linked

LEMMA DropBackLinked ==
    ASSUME LinkInv, NEW l \in List, DropBack(l)
    PROVE  LinkInv'
<1> USE ListsAssumption DEF LinkInv, DropBack, Store
<1>1. TypeOK' BY DEF TypeOK
<1>2. EndsLinked'
  BY DEF TypeOK, Linked, EndsLinked, NeighboursLinked
<1>3. NeighboursLinked'
  BY DEF TypeOK, Linked, EndsLinked, NeighboursLinked
<1> QED BY <1>1, <1>2, <1>3 DEF Linked

LEMMA UnlinkLinked ==
    ASSUME LinkInv, NEW l \in List, NEW i \in Item,
           list[i] = l, head[l] # i, tail[l] # i, Unlink(i)
    PROVE  LinkInv'
<1> USE ListsAssumption DEF LinkInv, Unlink, Store
<1>1. TypeOK' BY DEF TypeOK
<1>2. EndsLinked'
  BY DEF TypeOK, Linked, EndsLinked, NeighboursLinked
<1>3. NeighboursLinked'
  BY DEF TypeOK, Linked, EndsLinked, NeighboursLinked
<1> QED BY <1>1, <1>2, <1>3 DEF Linked

LEMMA DeleteAnyLinked ==
    ASSUME LinkInv, NEW l \in List, NEW i \in Item, DeleteAny(l, i)
    PROVE  LinkInv'
<1>1. CASE head[l] = i /\ DropFront(l)  BY <1>1, DropFrontLinked
<1>2. CASE tail[l] = i /\ DropBack(l)  BY <1>2, DropBackLinked
<1>3. CASE list[i] = l /\ head[l] # i /\ tail[l] # i /\ Unlink(i)
  BY <1>3, UnlinkLinked
<1> QED BY <1>1, <1>2, <1>3 DEF DeleteAny

\* Every reachable state of the kernel's lists is type correct and doubly
\* linked, whatever the order of additions, drops and deletions
\* (src/kernel/common/lists.c:12-124).
THEOREM ListsStayLinked == Spec => []LinkInv
<1>1. LinkInv /\ [Next]_vars => LinkInv'
  <2> SUFFICES ASSUME LinkInv, [Next]_vars PROVE LinkInv'
    OBVIOUS
  <2>1. ASSUME NEW l \in List, DropFront(l) PROVE LinkInv'
    BY <2>1, DropFrontLinked
  <2>2. ASSUME NEW l \in List, DropBack(l) PROVE LinkInv'
    BY <2>2, DropBackLinked
  <2>3. ASSUME NEW l \in List, NEW i \in Item, AddBack(l, i) PROVE LinkInv'
    BY <2>3, AddBackLinked
  <2>4. ASSUME NEW l \in List, NEW i \in Item, AddFront(l, i) PROVE LinkInv'
    BY <2>4, AddFrontLinked
  <2>5. ASSUME NEW l \in List, NEW i \in Item, DeleteAny(l, i) PROVE LinkInv'
    BY <2>5, DeleteAnyLinked
  <2>6. CASE UNCHANGED vars
    BY <2>6 DEF LinkInv, TypeOK, Linked, EndsLinked, NeighboursLinked, vars
  <2> QED BY <2>1, <2>2, <2>3, <2>4, <2>5, <2>6 DEF Next
<1> QED BY <1>1, InitLinked, PTL DEF Spec

\* The same, for Linked alone: the invariant the model checker confirms.
COROLLARY ListsLinked == Spec => []Linked
<1>1. LinkInv => Linked BY DEF LinkInv
<1> QED BY <1>1, ListsStayLinked, PTL

\* And every field names an item, a list or nothing: no store of lists.c goes
\* through a NULL pointer (an address outside Item).
COROLLARY ListsTypeCorrect == Spec => []TypeOK
<1>1. LinkInv => TypeOK BY DEF LinkInv
<1> QED BY <1>1, ListsStayLinked, PTL

-----------------------------------------------------------------------------
\* The links of list l are those of the sequence s of distinct items, and no
\* other item's back pointer names l.
Chain(l, s) ==
    /\ head[l] = IF Len(s) = 0 THEN NULL ELSE s[1]
    /\ tail[l] = IF Len(s) = 0 THEN NULL ELSE s[Len(s)]
    /\ \A n \in 1..Len(s) :
          /\ list[s[n]] = l
          /\ next[s[n]] = IF n = Len(s) THEN NULL ELSE s[n + 1]
          /\ prev[s[n]] = IF n = 1 THEN NULL ELSE s[n - 1]
          /\ \A m \in 1..Len(s) : s[m] = s[n] => m = n
    /\ \A i \in Item : list[i] = l => \E n \in 1..Len(s) : s[n] = i

\* Item i has come between the items of s, at position p of r, ...
Inserted(l, i, s, p, r) ==
    LET c == Len(s) IN
    /\ p \in 1..c + 1
    /\ r \in Seq(Item) /\ Len(r) = c + 1 /\ r[p] = i
    /\ \A n \in 1..c : (n < p => r[n] = s[n]) /\ (n >= p => r[n + 1] = s[n])
    /\ head'[l] = r[1] /\ tail'[l] = r[c + 1]
    /\ \A j \in Item : list'[j] = IF j = i THEN l ELSE list[j]
    /\ next'[i] = IF p = c + 1 THEN NULL ELSE s[p]
    /\ prev'[i] = IF p = 1 THEN NULL ELSE s[p - 1]
    /\ \A n \in 1..c :
          /\ next'[s[n]] = IF n = p - 1 THEN i ELSE next[s[n]]
          /\ prev'[s[n]] = IF n = p THEN i ELSE prev[s[n]]

\* ... or the one at position p of s has gone.
Removed(l, s, p, r) ==
    LET c == Len(s) IN
    /\ p \in 1..c
    /\ r \in Seq(Item) /\ Len(r) = c - 1
    /\ \A n \in 1..c - 1 : r[n] = IF n < p THEN s[n] ELSE s[n + 1]
    /\ head'[l] = IF p # 1 THEN s[1] ELSE IF c = 1 THEN NULL ELSE s[2]
    /\ tail'[l] = IF p # c THEN s[c] ELSE IF c = 1 THEN NULL ELSE s[c - 1]
    /\ \A j \in Item : list'[j] = IF j = s[p] THEN NULL ELSE list[j]
    /\ \A n \in 1..c \ {p} :
          /\ next'[s[n]] = IF n # p - 1 THEN next[s[n]]
                           ELSE IF p = c THEN NULL ELSE s[p + 1]
          /\ prev'[s[n]] = IF n # p + 1 THEN prev[s[n]]
                           ELSE IF p = 1 THEN NULL ELSE s[p - 1]

\* Either way the links are those of the new sequence.
LEMMA Inserting ==
    ASSUME NEW l, NEW i, NEW s \in Seq(Item), Chain(l, s), list[i] # l,
           NEW p, NEW r, Inserted(l, i, s, p, r)
    PROVE  Chain(l, r)'
<1> DEFINE c == Len(s)
<1>0. /\ p \in 1..c + 1
      /\ r \in Seq(Item) /\ Len(r) = c + 1 /\ r[p] = i
      /\ \A n \in 1..c : (n < p => r[n] = s[n]) /\ (n >= p => r[n + 1] = s[n])
      /\ head'[l] = r[1] /\ tail'[l] = r[c + 1]
      /\ \A j \in Item : list'[j] = IF j = i THEN l ELSE list[j]
      /\ next'[i] = IF p = c + 1 THEN NULL ELSE s[p]
      /\ prev'[i] = IF p = 1 THEN NULL ELSE s[p - 1]
      /\ \A n \in 1..c :
            /\ next'[s[n]] = IF n = p - 1 THEN i ELSE next[s[n]]
            /\ prev'[s[n]] = IF n = p THEN i ELSE prev[s[n]]
  BY DEF Inserted
<1> USE <1>0
<1>1. c \in Nat /\ (\A n \in 1..c : s[n] \in Item) /\ i \in Item
  BY LenProperties
<1>2. \A n \in 1..c : /\ list[s[n]] = l
                      /\ next[s[n]] = IF n = c THEN NULL ELSE s[n + 1]
                      /\ prev[s[n]] = IF n = 1 THEN NULL ELSE s[n - 1]
                      /\ \A m \in 1..c : s[m] = s[n] => m = n
  BY DEF Chain
<1> HIDE DEF c
<1>3. \A n \in 1..c : s[n] # i BY <1>2
\* Where the items of r come from.
<1>4. \A n \in 1..c + 1 :
         \/ n = p
         \/ n < p /\ n \in 1..c /\ r[n] = s[n]
         \/ n > p /\ n - 1 \in 1..c /\ r[n] = s[n - 1]
  <2>1. ASSUME NEW n \in 1..c + 1, n > p
        PROVE  n - 1 \in 1..c /\ r[n] = s[n - 1]
    <3>1. n - 1 \in 1..c /\ n - 1 >= p /\ (n - 1) + 1 = n BY <1>1, <2>1
    <3> QED BY <3>1
  <2>2. ASSUME NEW n \in 1..c + 1, n < p PROVE n \in 1..c /\ r[n] = s[n]
    BY <1>1, <2>2
  <2> QED BY <1>1, <2>1, <2>2
<1>5. ASSUME NEW n \in 1..c + 1 PROVE list'[r[n]] = l
  BY <1>1, <1>2, <1>4
<1>6. ASSUME NEW n \in 1..c + 1
      PROVE  next'[r[n]] = IF n = c + 1 THEN NULL ELSE r[n + 1]
  <2>1. CASE n = p BY <1>1, <2>1
  <2>2. CASE n < p
    <3>1. n \in 1..c /\ r[n] = s[n] BY <1>1, <2>2
    <3>2. CASE n = p - 1 BY <1>1, <3>1, <3>2
    <3>3. CASE n # p - 1
      <4>1. n + 1 \in 1..c /\ n + 1 < p BY <1>1, <2>2, <3>1, <3>3
      <4> QED BY <1>1, <1>2, <3>1, <3>3, <4>1
    <3> QED BY <3>2, <3>3
  <2>3. CASE n > p
    <3>1. n - 1 \in 1..c /\ r[n] = s[n - 1] /\ n - 1 # p - 1
      BY <1>1, <1>4, <2>3
    <3>2. next'[r[n]] = IF n - 1 = c THEN NULL ELSE s[(n - 1) + 1]
      BY <1>2, <3>1
    <3>3. ASSUME n # c + 1 PROVE r[n + 1] = s[n]
      <4>1. n \in 1..c BY <1>1, <3>1, <3>3
      <4>2. n >= p BY <2>3, <4>1
      <4> QED BY <4>1, <4>2
    <3> QED BY <1>1, <3>1, <3>2, <3>3
  <2> QED BY <1>1, <2>1, <2>2, <2>3
<1>7. ASSUME NEW n \in 1..c + 1
      PROVE  prev'[r[n]] = IF n = 1 THEN NULL ELSE r[n - 1]
  <2>1. CASE n = p
    <3>1. n # 1 => n - 1 \in 1..c /\ n - 1 < p BY <1>1, <2>1
    <3> QED BY <1>1, <2>1, <3>1
  <2>2. CASE n < p
    <3>1. n \in 1..c /\ r[n] = s[n] BY <1>1, <2>2
    <3>2. n # 1 => n - 1 \in 1..c /\ r[n - 1] = s[n - 1] BY <1>1, <2>2
    <3> QED BY <1>2, <2>2, <3>1, <3>2
  <2>3. CASE n > p
    <3>1. n - 1 \in 1..c /\ r[n] = s[n - 1] BY <1>1, <1>4, <2>3
    <3>2. CASE n - 1 = p BY <3>1, <3>2
    <3>3. CASE n - 1 # p
      <4>1. n - 1 \in 1..c + 1 /\ n - 1 > p BY <1>1, <2>3, <3>3
      <4>2. r[n - 1] = s[(n - 1) - 1] BY <1>1, <1>4, <4>1
      <4>3. n - 1 # 1 BY <1>1, <4>1
      <4>4. prev'[s[n - 1]] = s[(n - 1) - 1] BY <1>2, <3>1, <3>3, <4>3
      <4> QED BY <2>3, <3>1, <4>2, <4>4
    <3> QED BY <3>2, <3>3
  <2> QED BY <1>1, <2>1, <2>2, <2>3
<1>8. ASSUME NEW n \in 1..c + 1, NEW m \in 1..c + 1, r[m] = r[n] PROVE m = n
  <2>1. CASE n = p BY <1>1, <1>3, <1>4, <1>8, <2>1
  <2>2. CASE m = p BY <1>1, <1>3, <1>4, <1>8, <2>2
  <2>3. CASE n # p /\ m # p
    <3>1. PICK a \in 1..c : r[n] = s[a] /\ a = IF n < p THEN n ELSE n - 1
      BY <1>1, <1>4, <2>3
    <3>2. PICK b \in 1..c : r[m] = s[b] /\ b = IF m < p THEN m ELSE m - 1
      BY <1>1, <1>4, <2>3
    <3>3. s[a] = s[b] BY <1>8, <3>1, <3>2
    <3>4. a = b BY <1>2, <3>3
    <3> QED BY <1>1, <2>3, <3>1, <3>2, <3>4
  <2> QED BY <2>1, <2>2, <2>3
<1>9. ASSUME NEW j \in Item, list'[j] = l PROVE \E n \in 1..c + 1 : r[n] = j
  <2>1. CASE j = i BY <2>1
  <2>2. CASE j # i
    <3>1. PICK n \in 1..c : s[n] = j BY <1>9, <2>2 DEF Chain, c
    <3>2. CASE n < p BY <1>1, <3>1, <3>2
    <3>3. CASE n >= p
      <4>1. n + 1 \in 1..c + 1 /\ r[n + 1] = j BY <1>1, <3>1, <3>3
      <4> QED BY <4>1
    <3> QED BY <1>1, <3>2, <3>3
  <2> QED BY <2>1, <2>2
<1>10. Len(r) = c + 1 /\ Len(r) # 0 BY <1>1
<1> QED BY <1>5, <1>6, <1>7, <1>8, <1>9, <1>10 DEF Chain

LEMMA Removing ==
    ASSUME NEW l \in List, NEW s \in Seq(Item), Chain(l, s),
           NEW p, NEW r, Removed(l, s, p, r)
    PROVE  Chain(l, r)'
<1> DEFINE c == Len(s)
<1>0. /\ p \in 1..c
      /\ r \in Seq(Item) /\ Len(r) = c - 1
      /\ \A n \in 1..c - 1 : r[n] = IF n < p THEN s[n] ELSE s[n + 1]
      /\ head'[l] = IF p # 1 THEN s[1] ELSE IF c = 1 THEN NULL ELSE s[2]
      /\ tail'[l] = IF p # c THEN s[c] ELSE IF c = 1 THEN NULL ELSE s[c - 1]
      /\ \A j \in Item : list'[j] = IF j = s[p] THEN NULL ELSE list[j]
      /\ \A n \in 1..c \ {p} :
            /\ next'[s[n]] = IF n # p - 1 THEN next[s[n]]
                             ELSE IF p = c THEN NULL ELSE s[p + 1]
            /\ prev'[s[n]] = IF n # p + 1 THEN prev[s[n]]
                             ELSE IF p = 1 THEN NULL ELSE s[p - 1]
  BY DEF Removed
<1> USE <1>0
<1>1. c \in Nat /\ (\A n \in 1..c : s[n] \in Item)
  BY LenProperties
<1>2. \A n \in 1..c : /\ list[s[n]] = l
                      /\ next[s[n]] = IF n = c THEN NULL ELSE s[n + 1]
                      /\ prev[s[n]] = IF n = 1 THEN NULL ELSE s[n - 1]
                      /\ \A m \in 1..c : s[m] = s[n] => m = n
  BY DEF Chain
<1> HIDE DEF c
<1> DEFINE Old(n) == IF n < p THEN n ELSE n + 1
<1>3. \A n \in 1..c - 1 : Old(n) \in 1..c \ {p} /\ r[n] = s[Old(n)]
  BY <1>1
<1>4. \A n \in 1..c - 1 : list'[r[n]] = l
  <2>1. \A n \in 1..c \ {p} : s[n] # s[p] /\ list'[s[n]] = l BY <1>1, <1>2
  <2> HIDE DEF Old
  <2> QED BY <1>3, <2>1
<1>5. ASSUME NEW n \in 1..c - 1
      PROVE  next'[r[n]] = IF n = c - 1 THEN NULL ELSE r[n + 1]
  <2>1. CASE n = p - 1
    <3>1. r[n] = s[n] /\ n \in 1..c \ {p} BY <1>1, <2>1
    <3>2. next'[r[n]] = IF p = c THEN NULL ELSE s[p + 1] BY <2>1, <3>1
    <3>3. p # c => r[p] = s[p + 1] BY <1>1
    <3> QED BY <1>1, <2>1, <3>2, <3>3
  <2>2. CASE n < p - 1
    <3>1. r[n] = s[n] /\ n \in 1..c \ {p} /\ n # c
      <4>1. n < p /\ n \in 1..c /\ n # c BY <1>1, <2>2
      <4> QED BY <4>1
    <3>2. next'[r[n]] = s[n + 1] BY <1>2, <2>2, <3>1
    <3>3. n + 1 \in 1..c - 1 /\ n + 1 < p BY <1>1, <2>2
    <3>4. r[n + 1] = s[n + 1] BY <3>3
    <3> QED BY <1>1, <3>2, <3>3, <3>4
  <2>3. CASE n >= p
    <3>1. r[n] = s[n + 1] /\ n + 1 \in 1..c \ {p} /\ n + 1 # p - 1
      BY <1>1, <2>3
    <3>2. next'[r[n]] = IF n + 1 = c THEN NULL ELSE s[(n + 1) + 1]
      BY <1>2, <3>1
    <3>3. ASSUME n # c - 1 PROVE r[n + 1] = s[(n + 1) + 1]
      <4>1. n + 1 \in 1..c - 1 /\ ~(n + 1 < p) BY <1>1, <2>3, <3>3
      <4> QED BY <4>1
    <3>4. n = c - 1 <=> n + 1 = c BY <1>1
    <3> QED BY <3>2, <3>3, <3>4
  <2>4. n = p - 1 \/ n < p - 1 \/ n >= p BY <1>1
  <2> QED BY <2>1, <2>2, <2>3, <2>4
<1>6. ASSUME NEW n \in 1..c - 1
      PROVE  prev'[r[n]] = IF n = 1 THEN NULL ELSE r[n - 1]
  <2>1. CASE n = p
    <3>1. r[n] = s[n + 1] /\ n + 1 \in 1..c \ {p} BY <1>1, <2>1
    <3>2. prev'[r[n]] = IF p = 1 THEN NULL ELSE s[p - 1] BY <2>1, <3>1
    <3>3. ASSUME n # 1 PROVE r[n - 1] = s[p - 1]
      <4>1. n - 1 \in 1..c - 1 /\ n - 1 < p BY <1>1, <2>1, <3>3
      <4> QED BY <2>1, <4>1
    <3> QED BY <2>1, <3>2, <3>3
  <2>2. CASE n > p
    <3>1. r[n] = s[n + 1] /\ n + 1 \in 1..c \ {p} /\ n + 1 # p + 1 /\ n + 1 # 1
      <4>1. ~(n < p) /\ n \in 1..c - 1 BY <1>1, <2>2
      <4>2. n + 1 \in 1..c /\ n + 1 # p /\ n + 1 # p + 1 /\ n + 1 # 1
        BY <1>1, <2>2
      <4> QED BY <4>1, <4>2
    <3>2. prev'[r[n]] = s[(n + 1) - 1] BY <1>2, <3>1
    <3>3. n - 1 \in 1..c - 1 /\ ~(n - 1 < p) BY <1>1, <2>2
    <3>4. r[n - 1] = s[(n - 1) + 1] BY <3>3
    <3>5. (n - 1) + 1 = (n + 1) - 1 /\ n # 1 BY <1>1, <2>2
    <3> QED BY <3>2, <3>4, <3>5
  <2>3. CASE n < p
    <3>1. r[n] = s[n] /\ n \in 1..c \ {p} /\ n # p + 1 BY <1>1, <2>3
    <3>2. prev'[r[n]] = IF n = 1 THEN NULL ELSE s[n - 1] BY <1>2, <3>1
    <3>3. ASSUME n # 1 PROVE r[n - 1] = s[n - 1]
      <4>1. n - 1 \in 1..c - 1 /\ n - 1 < p BY <1>1, <2>3, <3>3
      <4> QED BY <4>1
    <3> QED BY <3>2, <3>3
  <2> QED BY <1>1, <2>1, <2>2, <2>3
<1>7. ASSUME NEW n \in 1..c - 1, NEW m \in 1..c - 1, r[m] = r[n] PROVE m = n
  <2>1. s[Old(m)] = s[Old(n)] BY <1>3, <1>7
  <2>2. Old(m) = Old(n)
    <3> HIDE DEF Old
    <3> QED BY <1>2, <1>3, <2>1
  <2> QED BY <1>1, <2>2
<1>8. ASSUME NEW j \in Item, list'[j] = l PROVE \E n \in 1..c - 1 : r[n] = j
  <2>1. j # s[p] /\ list[j] = l BY <1>8, ListsAssumption
  <2>2. PICK n \in 1..c : s[n] = j BY <2>1 DEF Chain, c
  <2>3. CASE n < p
    <3>1. n \in 1..c - 1 BY <1>1, <2>3
    <3> QED BY <2>2, <2>3, <3>1
  <2>4. CASE n > p
    <3>1. n - 1 \in 1..c - 1 /\ ~(n - 1 < p) /\ (n - 1) + 1 = n BY <1>1, <2>4
    <3> QED BY <2>2, <3>1
  <2> QED BY <1>1, <2>1, <2>2, <2>3, <2>4
<1>9. /\ head'[l] = IF Len(r) = 0 THEN NULL ELSE r[1]
      /\ tail'[l] = IF Len(r) = 0 THEN NULL ELSE r[Len(r)]
  <2>1. CASE c = 1 BY <1>1, <2>1
  <2>2. CASE c # 1
    <3>1. 1 \in 1..c - 1 /\ c - 1 \in 1..c - 1 /\ Len(r) # 0 BY <1>1, <2>2
    <3>2. r[1] = (IF p # 1 THEN s[1] ELSE s[2]) BY <1>1, <3>1
    <3>3. r[c - 1] = (IF p # c THEN s[c] ELSE s[c - 1]) BY <1>1, <3>1
    <3> QED BY <2>2, <3>1, <3>2, <3>3
  <2> QED BY <2>1, <2>2
<1>10. Len(r) = c - 1 OBVIOUS
<1> QED BY <1>4, <1>5, <1>6, <1>7, <1>8, <1>9, <1>10 DEF Chain

\* The links of every list are those of its sequence in sq.
Chained(sq) == sq \in [List -> Seq(Item)] /\ \A l \in List : Chain(l, sq[l])

\* A list with none of the items an operation writes to stays as it is.
LEMMA Elsewhere ==
    ASSUME NEW m, NEW s \in Seq(Item), Chain(m, s),
           head'[m] = head[m], tail'[m] = tail[m],
           \A j \in Item : list[j] = m => /\ list'[j] = m /\ next'[j] = next[j]
                                          /\ prev'[j] = prev[j],
           \A j \in Item : list'[j] = m => list[j] = m
    PROVE  Chain(m, s)'
<1>1. \A n \in 1..Len(s) : s[n] \in Item BY LenProperties
<1>2. ASSUME NEW n \in 1..Len(s)
      PROVE  /\ list'[s[n]] = m
             /\ next'[s[n]] = IF n = Len(s) THEN NULL ELSE s[n + 1]
             /\ prev'[s[n]] = IF n = 1 THEN NULL ELSE s[n - 1]
             /\ \A o \in 1..Len(s) : s[o] = s[n] => o = n
  <2>1. s[n] \in Item /\ list[s[n]] = m BY <1>1 DEF Chain
  <2>2. /\ list'[s[n]] = m /\ next'[s[n]] = next[s[n]]
        /\ prev'[s[n]] = prev[s[n]]
    BY <2>1
  <2> QED BY <2>2 DEF Chain
<1>3. ASSUME NEW i \in Item, list'[i] = m PROVE \E n \in 1..Len(s) : s[n] = i
  BY <1>3 DEF Chain
<1>4. /\ head'[m] = IF Len(s) = 0 THEN NULL ELSE s[1]
      /\ tail'[m] = IF Len(s) = 0 THEN NULL ELSE s[Len(s)]
  BY DEF Chain
<1> QED BY <1>2, <1>3, <1>4 DEF Chain

\* What a chain says of its ends.
LEMMA Ends ==
    ASSUME NEW l, NEW s \in Seq(Item), Chain(l, s)
    PROVE  /\ Len(s) \in Nat /\ \A n \in 1..Len(s) : s[n] \in Item
           /\ head[l] = NULL <=> Len(s) = 0
           /\ tail[l] = NULL <=> Len(s) = 0
           /\ Len(s) # 0 => head[l] = s[1] /\ tail[l] = s[Len(s)]
<1>1. Len(s) \in Nat /\ \A n \in 1..Len(s) : s[n] \in Item BY LenProperties
<1> QED BY <1>1, ListsAssumption DEF Chain

-----------------------------------------------------------------------------
\* Each operation of lists.c leaves l with the links of the sequence it should
\* have, and the other lists with theirs.
LEMMA AddBackChains ==
    ASSUME TypeOK, NEW sq, Chained(sq), NEW l \in List, NEW i \in Item,
           AddBack(l, i), NEW r, r = Append(sq[l], i)
    PROVE  Chain(l, r)' /\ \A m \in List \ {l} : Chain(m, sq[m])'
<1> DEFINE s == sq[l]
           c == Len(s)
<1>1. s \in Seq(Item) /\ Chain(l, s) /\ list[i] = NULL /\ list[i] # l
  BY ListsAssumption DEF Chained, AddBack
<1>2. /\ c \in Nat /\ (\A n \in 1..c : s[n] \in Item)
      /\ tail[l] = IF c = 0 THEN NULL ELSE s[c]
      /\ head[l] = IF c = 0 THEN NULL ELSE s[1]
  BY <1>1, Ends
<1>3. /\ r \in Seq(Item) /\ Len(r) = c + 1 /\ r[c + 1] = i
      /\ \A n \in 1..c : r[n] = s[n]
  BY <1>1, AppendProperties
<1>4. /\ \A m \in List : /\ tail'[m] = IF m = l THEN i ELSE tail[m]
                         /\ head'[m] = IF m = l /\ c = 0 THEN i ELSE head[m]
      /\ \A j \in Item : /\ list'[j] = IF j = i THEN l ELSE list[j]
                         /\ prev'[j] = IF j = i THEN tail[l] ELSE prev[j]
  BY <1>2, ListsAssumption DEF AddBack, TypeOK
<1>5. \A j \in Item : next'[j] = IF c # 0 /\ j = s[c] THEN i
                                 ELSE IF j = i THEN NULL ELSE next[j]
  BY <1>2, ListsAssumption DEF AddBack, TypeOK, Store
<1>6. \A n \in 1..c : s[n] # i /\ list[s[n]] = l BY <1>1 DEF Chain
<1>7. Chain(l, r)'
  <2> DEFINE p == c + 1
  <2>1. p \in 1..c + 1 /\ Len(r) = c + 1 /\ r[p] = i BY <1>2, <1>3
  <2>2. \A n \in 1..c : (n < p => r[n] = s[n]) /\ (n >= p => r[n + 1] = s[n])
    BY <1>2, <1>3
  <2>3. head'[l] = r[1] /\ tail'[l] = r[c + 1] BY <1>2, <1>3, <1>4
  <2>4. \A j \in Item : list'[j] = IF j = i THEN l ELSE list[j] BY <1>4
  <2>5. next'[i] = IF p = c + 1 THEN NULL ELSE s[p] BY <1>2, <1>5, <1>6
  <2>6. prev'[i] = IF p = 1 THEN NULL ELSE s[p - 1] BY <1>2, <1>4
  <2>7. \A n \in 1..c :
           /\ next'[s[n]] = IF n = p - 1 THEN i ELSE next[s[n]]
           /\ prev'[s[n]] = IF n = p THEN i ELSE prev[s[n]]
    <3> SUFFICES ASSUME NEW n \in 1..c
                 PROVE  /\ next'[s[n]] = IF n = p - 1 THEN i ELSE next[s[n]]
                        /\ prev'[s[n]] = IF n = p THEN i ELSE prev[s[n]]
      OBVIOUS
    <3>1. s[n] = s[c] <=> n = c BY <1>1, <1>2 DEF Chain
    <3> QED BY <1>2, <1>4, <1>5, <1>6, <3>1
  <2>8. Inserted(l, i, s, p, r)
    BY <1>3, <2>1, <2>2, <2>3, <2>4, <2>5, <2>6, <2>7 DEF Inserted
  <2> QED BY <1>1, <2>8, Inserting
<1>8. ASSUME NEW m \in List \ {l} PROVE Chain(m, sq[m])'
  <2>1. sq[m] \in Seq(Item) /\ Chain(m, sq[m]) BY DEF Chained
  <2>2. \A j \in Item : list[j] = m => j # i /\ (c # 0 => j # s[c])
    BY <1>1, <1>2, <1>6, ListsAssumption
  <2>3. head'[m] = head[m] /\ tail'[m] = tail[m] BY <1>4
  <2>4. \A j \in Item : list[j] = m => /\ list'[j] = m /\ next'[j] = next[j]
                                       /\ prev'[j] = prev[j]
    BY <1>4, <1>5, <2>2
  <2>5. \A j \in Item : list'[j] = m => list[j] = m BY <1>4
  <2> QED BY <2>1, <2>3, <2>4, <2>5, Elsewhere
<1> QED BY <1>7, <1>8

LEMMA AddFrontChains ==
    ASSUME TypeOK, NEW sq, Chained(sq), NEW l \in List, NEW i \in Item,
           AddFront(l, i), NEW r, r = <<i>> \o sq[l]
    PROVE  Chain(l, r)' /\ \A m \in List \ {l} : Chain(m, sq[m])'
<1> DEFINE s == sq[l]
           c == Len(s)
<1>1. s \in Seq(Item) /\ Chain(l, s) /\ list[i] = NULL /\ list[i] # l
  BY ListsAssumption DEF Chained, AddFront
<1>2. /\ c \in Nat /\ (\A n \in 1..c : s[n] \in Item)
      /\ tail[l] = IF c = 0 THEN NULL ELSE s[c]
      /\ head[l] = IF c = 0 THEN NULL ELSE s[1]
  BY <1>1, Ends
<1>3. /\ r \in Seq(Item) /\ Len(r) = c + 1 /\ r[1] = i
      /\ \A n \in 1..c : r[n + 1] = s[n]
  <2>1. <<i>> \in Seq(Item) /\ Len(<<i>>) = 1 /\ <<i>>[1] = i OBVIOUS
  <2>2. /\ r \in Seq(Item) /\ Len(r) = 1 + c
        /\ \A n \in 1..1 + c : r[n] = IF n <= 1 THEN <<i>>[n] ELSE s[n - 1]
    BY <1>1, <2>1, ConcatProperties
  <2>3. ASSUME NEW n \in 1..c PROVE r[n + 1] = s[n]
    <3>1. n + 1 \in 1..1 + c /\ ~(n + 1 <= 1) /\ (n + 1) - 1 = n BY <1>2
    <3> QED BY <2>2, <3>1
  <2> QED BY <1>2, <2>1, <2>2, <2>3
<1>4. /\ \A m \in List : /\ head'[m] = IF m = l THEN i ELSE head[m]
                         /\ tail'[m] = IF m = l /\ c = 0 THEN i ELSE tail[m]
      /\ \A j \in Item : /\ list'[j] = IF j = i THEN l ELSE list[j]
                         /\ next'[j] = IF j = i THEN head[l] ELSE next[j]
  BY <1>2, ListsAssumption DEF AddFront, TypeOK
<1>5. \A j \in Item : prev'[j] = IF c # 0 /\ j = s[1] THEN i
                                 ELSE IF j = i THEN NULL ELSE prev[j]
  BY <1>2, ListsAssumption DEF AddFront, TypeOK, Store
<1>6. \A n \in 1..c : s[n] # i /\ list[s[n]] = l BY <1>1 DEF Chain
<1>7. Chain(l, r)'
  <2> DEFINE p == 1
  <2>1. p \in 1..c + 1 /\ Len(r) = c + 1 /\ r[p] = i BY <1>2, <1>3
  <2>2. \A n \in 1..c : (n < p => r[n] = s[n]) /\ (n >= p => r[n + 1] = s[n])
    BY <1>2, <1>3
  <2>3. head'[l] = r[1] /\ tail'[l] = r[c + 1]
    <3>1. c # 0 => r[c + 1] = s[c] BY <1>2, <1>3
    <3> QED BY <1>2, <1>3, <1>4, <3>1
  <2>4. \A j \in Item : list'[j] = IF j = i THEN l ELSE list[j] BY <1>4
  <2>5. next'[i] = IF p = c + 1 THEN NULL ELSE s[p] BY <1>2, <1>4
  <2>6. prev'[i] = IF p = 1 THEN NULL ELSE s[p - 1] BY <1>2, <1>5, <1>6
  <2>7. \A n \in 1..c :
           /\ next'[s[n]] = IF n = p - 1 THEN i ELSE next[s[n]]
           /\ prev'[s[n]] = IF n = p THEN i ELSE prev[s[n]]
    <3> SUFFICES ASSUME NEW n \in 1..c
                 PROVE  /\ next'[s[n]] = IF n = p - 1 THEN i ELSE next[s[n]]
                        /\ prev'[s[n]] = IF n = p THEN i ELSE prev[s[n]]
      OBVIOUS
    <3>1. s[n] = s[1] <=> n = 1 BY <1>1, <1>2 DEF Chain
    <3>2. s[n] \in Item /\ s[n] # i /\ n # 0 /\ c # 0 BY <1>2, <1>6
    <3>3. next'[s[n]] = next[s[n]] /\ n # p - 1 BY <1>4, <3>2
    <3>4. prev'[s[n]] = IF n = 1 THEN i ELSE prev[s[n]] BY <1>5, <3>1, <3>2
    <3> QED BY <3>3, <3>4
  <2>8. Inserted(l, i, s, p, r)
    BY <1>3, <2>1, <2>2, <2>3, <2>4, <2>5, <2>6, <2>7 DEF Inserted
  <2> QED BY <1>1, <2>8, Inserting
<1>8. ASSUME NEW m \in List \ {l} PROVE Chain(m, sq[m])'
  <2>1. sq[m] \in Seq(Item) /\ Chain(m, sq[m]) BY DEF Chained
  <2>2. \A j \in Item : list[j] = m => j # i /\ (c # 0 => j # s[1])
    BY <1>1, <1>2, <1>6, ListsAssumption
  <2>3. head'[m] = head[m] /\ tail'[m] = tail[m] BY <1>4
  <2>4. \A j \in Item : list[j] = m => /\ list'[j] = m /\ next'[j] = next[j]
                                       /\ prev'[j] = prev[j]
    BY <1>4, <1>5, <2>2
  <2>5. \A j \in Item : list'[j] = m => list[j] = m BY <1>4
  <2> QED BY <2>1, <2>3, <2>4, <2>5, Elsewhere
<1> QED BY <1>7, <1>8

LEMMA Indices ==
    ASSUME NEW c \in Nat \ {0}
    PROVE  1 \in 1..c /\ c \in 1..c /\ (c # 1 => 2 \in 1..c /\ c - 1 \in 1..c)
OBVIOUS

LEMMA DropFrontChains ==
    ASSUME TypeOK, NEW sq, Chained(sq), NEW l \in List,
           DropFront(l), NEW r, r = Tail(sq[l])
    PROVE  /\ sq[l] # <<>> /\ sq[l][1] = head[l]
           /\ Chain(l, r)' /\ \A m \in List \ {l} : Chain(m, sq[m])'
<1> DEFINE s == sq[l]
           c == Len(s)
<1>1. s \in Seq(Item) /\ Chain(l, s) /\ head[l] # NULL
  BY DEF Chained, DropFront
<1>2. /\ c \in Nat \ {0} /\ (\A n \in 1..c : s[n] \in Item)
      /\ tail[l] = s[c] /\ head[l] = s[1]
  BY <1>1, Ends
<1>3. s # <<>> /\ r \in Seq(Item) /\ Len(r) = c - 1
      /\ \A n \in 1..c - 1 : r[n] = s[n + 1]
  <2>1. s # <<>> BY <1>2
  <2> QED BY <1>1, <2>1, HeadTailProperties
<1>4. /\ \A n \in 1..c : s[n] = s[1] <=> n = 1
      /\ \A n \in 1..c : s[n] = s[2] /\ c # 1 => n = 2
      /\ s[1] = s[c] <=> c = 1
      /\ next[s[1]] = IF c = 1 THEN NULL ELSE s[2]
      /\ \A n \in 1..c : list[s[n]] = l
  <2>1. \A n \in 1..c : /\ list[s[n]] = l
                        /\ next[s[n]] = IF n = c THEN NULL ELSE s[n + 1]
                        /\ prev[s[n]] = IF n = 1 THEN NULL ELSE s[n - 1]
                        /\ \A m \in 1..c : s[m] = s[n] => m = n
    BY <1>1 DEF Chain
  <2>2. 1 \in 1..c /\ c \in 1..c /\ (c # 1 => 2 \in 1..c /\ c - 1 \in 1..c)
    BY <1>2, Indices
  <2> QED BY <2>1, <2>2
<1>5. /\ \A m \in List :
            /\ head'[m] = IF m = l THEN next[s[1]] ELSE head[m]
            /\ tail'[m] = IF m = l /\ s[1] = s[c] THEN NULL ELSE tail[m]
      /\ \A j \in Item : list'[j] = IF j = s[1] THEN NULL ELSE list[j]
      /\ next' = next
  BY <1>2 DEF DropFront, TypeOK
<1>6. \A j \in Item : prev'[j] = IF c # 1 /\ j = s[2] THEN NULL ELSE prev[j]
  <2>1. prev' = Store(prev, next[s[1]], NULL) BY <1>2 DEF DropFront
  <2>2. c # 1 => s[2] \in Item /\ s[2] # NULL
    <3>1. c # 1 => 2 \in 1..c BY <1>2, Indices
    <3> QED BY <1>2, <3>1, ListsAssumption
  <2> QED BY <1>4, <2>1, <2>2 DEF Store, TypeOK
<1>7. Chain(l, r)'
  <2> DEFINE p == 1
  <2>1. \A n \in 1..c - 1 : r[n] = IF n < p THEN s[n] ELSE s[n + 1]
    BY <1>2, <1>3
  <2>2. /\ head'[l] = IF p # 1 THEN s[1] ELSE IF c = 1 THEN NULL ELSE s[2]
        /\ tail'[l] = IF p # c THEN s[c] ELSE IF c = 1 THEN NULL ELSE s[c - 1]
    BY <1>2, <1>4, <1>5
  <2>3. ASSUME NEW n \in 1..c \ {p}
        PROVE  /\ next'[s[n]] = IF n # p - 1 THEN next[s[n]]
                                ELSE IF p = c THEN NULL ELSE s[p + 1]
               /\ prev'[s[n]] = IF n # p + 1 THEN prev[s[n]]
                                ELSE IF p = 1 THEN NULL ELSE s[p - 1]
    <3>1. n \in 1..c /\ n # 0 /\ c # 1 /\ s[n] \in Item BY <1>2
    <3>2. next'[s[n]] = next[s[n]] BY <1>5
    <3>3. prev'[s[n]] = IF n # 2 THEN prev[s[n]] ELSE NULL
      BY <1>4, <1>6, <3>1
    <3> QED BY <3>1, <3>2, <3>3
  <2>4. Removed(l, s, p, r) BY <1>2, <1>3, <1>5, <2>1, <2>2, <2>3 DEF Removed
  <2> QED BY <1>1, <2>4, Removing
<1>8. ASSUME NEW m \in List \ {l} PROVE Chain(m, sq[m])'
  <2>1. sq[m] \in Seq(Item) /\ Chain(m, sq[m]) BY DEF Chained
  <2>2. \A j \in Item : list[j] = m => j # s[1] /\ (c # 1 => j # s[2])
    BY <1>2, <1>4
  <2>3. head'[m] = head[m] /\ tail'[m] = tail[m] BY <1>5
  <2>4. \A j \in Item : list[j] = m => /\ list'[j] = m /\ next'[j] = next[j]
                                       /\ prev'[j] = prev[j]
    BY <1>5, <1>6, <2>2
  <2>5. \A j \in Item : list'[j] = m => list[j] = m BY <1>5, ListsAssumption
  <2> QED BY <2>1, <2>3, <2>4, <2>5, Elsewhere
<1> QED BY <1>2, <1>3, <1>7, <1>8

LEMMA DropBackChains ==
    ASSUME TypeOK, NEW sq, Chained(sq), NEW l \in List,
           DropBack(l), NEW r, r = SubSeq(sq[l], 1, Len(sq[l]) - 1)
    PROVE  /\ sq[l] # <<>> /\ sq[l][Len(sq[l])] = tail[l]
           /\ Chain(l, r)' /\ \A m \in List \ {l} : Chain(m, sq[m])'
<1> DEFINE s == sq[l]
           c == Len(s)
<1>1. s \in Seq(Item) /\ Chain(l, s) /\ tail[l] # NULL
  BY DEF Chained, DropBack
<1>2. /\ c \in Nat \ {0} /\ (\A n \in 1..c : s[n] \in Item)
      /\ tail[l] = s[c] /\ head[l] = s[1]
  BY <1>1, Ends
<1>3. s # <<>> /\ r \in Seq(Item) /\ Len(r) = c - 1
      /\ \A n \in 1..c - 1 : r[n] = s[n]
  <2>1. s # <<>> BY <1>2
  <2>2. \A n \in 1..c - 1 : s[n] \in Item BY <1>2
  <2>3. /\ r \in Seq(Item)
        /\ Len(r) = IF 1 <= c - 1 THEN (c - 1) - 1 + 1 ELSE 0
        /\ \A n \in 1..(c - 1) - 1 + 1 : r[n] = s[1 + n - 1]
    BY <1>2, <2>2, SubSeqProperties
  <2>4. \A n \in 1..c - 1 : n \in 1..(c - 1) - 1 + 1 /\ 1 + n - 1 = n
    BY <1>2
  <2> QED BY <1>2, <2>1, <2>3, <2>4
<1>4. /\ \A n \in 1..c : s[n] = s[c] <=> n = c
      /\ \A n \in 1..c : s[n] = s[c - 1] /\ c # 1 => n = c - 1
      /\ s[1] = s[c] <=> c = 1
      /\ prev[s[c]] = IF c = 1 THEN NULL ELSE s[c - 1]
      /\ \A n \in 1..c : list[s[n]] = l
  <2>1. \A n \in 1..c : /\ list[s[n]] = l
                        /\ next[s[n]] = IF n = c THEN NULL ELSE s[n + 1]
                        /\ prev[s[n]] = IF n = 1 THEN NULL ELSE s[n - 1]
                        /\ \A m \in 1..c : s[m] = s[n] => m = n
    BY <1>1 DEF Chain
  <2>2. 1 \in 1..c /\ c \in 1..c /\ (c # 1 => 2 \in 1..c /\ c - 1 \in 1..c)
    BY <1>2, Indices
  <2> QED BY <2>1, <2>2
<1>5. /\ \A m \in List :
            /\ tail'[m] = IF m = l THEN prev[s[c]] ELSE tail[m]
            /\ head'[m] = IF m = l /\ s[1] = s[c] THEN NULL ELSE head[m]
      /\ \A j \in Item : list'[j] = IF j = s[c] THEN NULL ELSE list[j]
      /\ prev' = prev
  BY <1>2 DEF DropBack, TypeOK
<1>6. \A j \in Item : next'[j] = IF c # 1 /\ j = s[c - 1] THEN NULL ELSE next[j]
  <2>1. next' = Store(next, prev[s[c]], NULL) BY <1>2 DEF DropBack
  <2>2. c # 1 => s[c - 1] \in Item /\ s[c - 1] # NULL
    <3>1. c # 1 => c - 1 \in 1..c BY <1>2, Indices
    <3> QED BY <1>2, <3>1, ListsAssumption
  <2> QED BY <1>4, <2>1, <2>2 DEF Store, TypeOK
<1>7. Chain(l, r)'
  <2> DEFINE p == c
  <2>1. \A n \in 1..c - 1 : r[n] = IF n < p THEN s[n] ELSE s[n + 1]
    BY <1>2, <1>3
  <2>2. /\ head'[l] = IF p # 1 THEN s[1] ELSE IF c = 1 THEN NULL ELSE s[2]
        /\ tail'[l] = IF p # c THEN s[c] ELSE IF c = 1 THEN NULL ELSE s[c - 1]
    BY <1>2, <1>4, <1>5
  <2>3. ASSUME NEW n \in 1..c \ {p}
        PROVE  /\ next'[s[n]] = IF n # p - 1 THEN next[s[n]]
                                ELSE IF p = c THEN NULL ELSE s[p + 1]
               /\ prev'[s[n]] = IF n # p + 1 THEN prev[s[n]]
                                ELSE IF p = 1 THEN NULL ELSE s[p - 1]
    <3>1. n \in 1..c /\ n # c + 1 /\ c # 1 /\ s[n] \in Item BY <1>2
    <3>2. prev'[s[n]] = prev[s[n]] BY <1>5
    <3>3. next'[s[n]] = IF n # c - 1 THEN next[s[n]] ELSE NULL
      BY <1>4, <1>6, <3>1
    <3> QED BY <3>1, <3>2, <3>3
  <2>4. Removed(l, s, p, r) BY <1>2, <1>3, <1>5, <2>1, <2>2, <2>3 DEF Removed
  <2> QED BY <1>1, <2>4, Removing
<1>8. ASSUME NEW m \in List \ {l} PROVE Chain(m, sq[m])'
  <2>1. sq[m] \in Seq(Item) /\ Chain(m, sq[m]) BY DEF Chained
  <2>2. \A j \in Item : list[j] = m => j # s[c] /\ (c # 1 => j # s[c - 1])
    BY <1>2, <1>4
  <2>3. head'[m] = head[m] /\ tail'[m] = tail[m] BY <1>5
  <2>4. \A j \in Item : list[j] = m => /\ list'[j] = m /\ next'[j] = next[j]
                                       /\ prev'[j] = prev[j]
    BY <1>5, <1>6, <2>2
  <2>5. \A j \in Item : list'[j] = m => list[j] = m BY <1>5, ListsAssumption
  <2> QED BY <2>1, <2>3, <2>4, <2>5, Elsewhere
<1> QED BY <1>2, <1>3, <1>7, <1>8

\* a and b are what s, with c items, has before and after position p.
Halves(s, c, p, a, b) ==
    /\ a \in Seq(Item) /\ Len(a) = p - 1 /\ \A n \in 1..p - 1 : a[n] = s[n]
    /\ b \in Seq(Item) /\ Len(b) = c - p /\ \A n \in 1..c - p : b[n] = s[p + n]

LEMMA Joined ==
    ASSUME NEW s, NEW c \in Nat, NEW p \in 1..c, NEW a, NEW b,
           Halves(s, c, p, a, b)
    PROVE  /\ a \o b \in Seq(Item) /\ Len(a \o b) = c - 1
           /\ \A n \in 1..c - 1 :
                 (a \o b)[n] = IF n < p THEN s[n] ELSE s[n + 1]
<1> USE DEF Halves
<1>1. /\ a \o b \in Seq(Item) /\ Len(a \o b) = Len(a) + Len(b)
      /\ \A n \in 1..Len(a) + Len(b) :
            (a \o b)[n] = IF n <= Len(a) THEN a[n] ELSE b[n - Len(a)]
  BY ConcatProperties
<1>2. Len(a) + Len(b) = c - 1 OBVIOUS
<1> DEFINE r == a \o b
<1>3. /\ r \in Seq(Item) /\ Len(r) = c - 1
      /\ \A n \in 1..c - 1 : r[n] = IF n <= p - 1 THEN a[n] ELSE b[n - (p - 1)]
  BY <1>1, <1>2
<1> HIDE DEF r
<1>4. ASSUME NEW n \in 1..c - 1 PROVE r[n] = IF n < p THEN s[n] ELSE s[n + 1]
  <2>1. r[n] = IF n <= p - 1 THEN a[n] ELSE b[n - (p - 1)] BY <1>3
  <2>2. CASE n < p
    <3>1. n \in 1..p - 1 /\ n <= p - 1 BY <2>2
    <3>2. r[n] = a[n] BY <2>1, <3>1
    <3> QED BY <2>2, <3>1, <3>2
  <2>3. CASE n >= p
    <3>1. n - (p - 1) \in 1..c - p /\ p + (n - (p - 1)) = n + 1 BY <2>3
    <3>2. b[n - (p - 1)] = s[n + 1] BY <3>1
    <3>3. ~(n <= p - 1) /\ ~(n < p) BY <2>3
    <3> QED BY <2>1, <3>2, <3>3
  <2> QED BY <2>2, <2>3
<1> QED BY <1>3, <1>4 DEF r

LEMMA Without ==
    ASSUME NEW s \in Seq(Item), NEW p \in 1..Len(s)
    PROVE  LET r == SubSeq(s, 1, p - 1) \o SubSeq(s, p + 1, Len(s))
           IN  /\ r \in Seq(Item) /\ Len(r) = Len(s) - 1
               /\ \A n \in 1..Len(s) - 1 :
                     r[n] = IF n < p THEN s[n] ELSE s[n + 1]
<1> DEFINE c == Len(s)
           a == SubSeq(s, 1, p - 1)
           b == SubSeq(s, p + 1, c)
<1>1. c \in Nat /\ (\A n \in 1..c : s[n] \in Item) /\ p \in 1..c
  BY LenProperties
<1> HIDE DEF c
<1>2. /\ a \in Seq(Item) /\ Len(a) = p - 1
      /\ \A n \in 1..p - 1 : a[n] = s[n]
  <2>1. \A n \in 1..p - 1 : s[n] \in Item BY <1>1
  <2>2. /\ a \in Seq(Item)
        /\ Len(a) = IF 1 <= p - 1 THEN (p - 1) - 1 + 1 ELSE 0
        /\ \A n \in 1..(p - 1) - 1 + 1 : a[n] = s[1 + n - 1]
    BY <1>1, <2>1, SubSeqProperties
  <2>3. \A n \in 1..p - 1 : n \in 1..(p - 1) - 1 + 1 /\ 1 + n - 1 = n BY <1>1
  <2> QED BY <1>1, <2>2, <2>3
<1>3. /\ b \in Seq(Item) /\ Len(b) = c - p
      /\ \A n \in 1..c - p : b[n] = s[p + n]
  <2>1. \A n \in p + 1..c : s[n] \in Item BY <1>1
  <2>2. /\ b \in Seq(Item)
        /\ Len(b) = IF p + 1 <= c THEN c - (p + 1) + 1 ELSE 0
        /\ \A n \in 1..c - (p + 1) + 1 : b[n] = s[(p + 1) + n - 1]
    <3>1. p + 1 \in Int /\ c \in Int BY <1>1
    <3> QED BY <2>1, <3>1, SubSeqProperties
  <2> HIDE DEF b
  <2>3. Len(b) = c - p BY <1>1, <2>2
  <2>4. ASSUME NEW n \in 1..c - p PROVE b[n] = s[p + n]
    <3>1. n \in 1..c - (p + 1) + 1 /\ (p + 1) + n - 1 = p + n BY <1>1
    <3> QED BY <2>2, <3>1
  <2> QED BY <2>2, <2>3, <2>4
<1> HIDE DEF a, b
<1>4. /\ a \o b \in Seq(Item) /\ Len(a \o b) = c - 1
      /\ \A n \in 1..c - 1 : (a \o b)[n] = IF n < p THEN s[n] ELSE s[n + 1]
  <2>1. Halves(s, c, p, a, b) BY <1>2, <1>3 DEF Halves
  <2> QED BY <1>1, <2>1, Joined
<1> QED BY <1>4 DEF a, b, c

LEMMA UnlinkChains ==
    ASSUME TypeOK, NEW sq, Chained(sq), NEW l \in List, NEW i \in Item,
           list[i] = l, head[l] # i, tail[l] # i, Unlink(i),
           NEW p \in 1..Len(sq[l]), sq[l][p] = i,
           NEW r, r = SubSeq(sq[l], 1, p - 1) \o SubSeq(sq[l], p + 1, Len(sq[l]))
    PROVE  Chain(l, r)' /\ \A m \in List \ {l} : Chain(m, sq[m])'
<1> DEFINE s == sq[l]
           c == Len(s)
<1>1. s \in Seq(Item) /\ Chain(l, s) BY DEF Chained
<1>2. /\ c \in Nat \ {0} /\ (\A n \in 1..c : s[n] \in Item)
      /\ tail[l] = s[c] /\ head[l] = s[1]
  BY <1>1, Ends
<1>3. /\ r \in Seq(Item) /\ Len(r) = c - 1
      /\ \A n \in 1..c - 1 : r[n] = IF n < p THEN s[n] ELSE s[n + 1]
  BY <1>1, Without
<1>4. s[p] = i /\ p \in 1..c OBVIOUS
<1>5. \A n \in 1..c : /\ list[s[n]] = l
                      /\ next[s[n]] = IF n = c THEN NULL ELSE s[n + 1]
                      /\ prev[s[n]] = IF n = 1 THEN NULL ELSE s[n - 1]
                      /\ \A m \in 1..c : s[m] = s[n] => m = n
  BY <1>1 DEF Chain
<1> HIDE DEF c
<1>6. p # 1 /\ p # c /\ p - 1 \in 1..c /\ p + 1 \in 1..c
  <2>1. p # 1 /\ p # c BY <1>2, <1>4
  <2> QED BY <1>2, <1>4, <2>1
<1>7. next[i] = s[p + 1] /\ prev[i] = s[p - 1] BY <1>4, <1>5, <1>6
<1>8. s[p + 1] \in Item /\ s[p - 1] \in Item
      /\ list[s[p + 1]] = l /\ list[s[p - 1]] = l
  BY <1>2, <1>5, <1>6
<1>9. /\ \A j \in Item : prev'[j] = IF j = s[p + 1] THEN s[p - 1] ELSE prev[j]
      /\ \A j \in Item : next'[j] = IF j = s[p - 1] THEN s[p + 1] ELSE next[j]
      /\ \A j \in Item : list'[j] = IF j = i THEN NULL ELSE list[j]
      /\ head' = head /\ tail' = tail
  <2>1. next[i] # NULL /\ prev[i] # NULL BY <1>7, <1>8, ListsAssumption
  <2> QED BY <1>7, <1>8, <2>1 DEF Unlink, Store, TypeOK
<1>10. Chain(l, r)'
  <2>1. /\ head'[l] = IF p # 1 THEN s[1] ELSE IF c = 1 THEN NULL ELSE s[2]
        /\ tail'[l] = IF p # c THEN s[c] ELSE IF c = 1 THEN NULL ELSE s[c - 1]
    BY <1>2, <1>6, <1>9
  <2>2. ASSUME NEW n \in 1..c \ {p}
        PROVE  /\ next'[s[n]] = IF n # p - 1 THEN next[s[n]]
                                ELSE IF p = c THEN NULL ELSE s[p + 1]
               /\ prev'[s[n]] = IF n # p + 1 THEN prev[s[n]]
                                ELSE IF p = 1 THEN NULL ELSE s[p - 1]
    <3>1. s[n] \in Item BY <1>2
    <3>2. s[n] = s[p - 1] <=> n = p - 1 BY <1>5, <1>6
    <3>3. s[n] = s[p + 1] <=> n = p + 1 BY <1>5, <1>6
    <3> QED BY <1>6, <1>9, <3>1, <3>2, <3>3
  <2>3. Removed(l, s, p, r)
    BY <1>3, <1>4, <1>9, <2>1, <2>2 DEF Removed, c
  <2> QED BY <1>1, <2>3, Removing
<1>11. ASSUME NEW m \in List \ {l} PROVE Chain(m, sq[m])'
  <2>1. sq[m] \in Seq(Item) /\ Chain(m, sq[m]) BY DEF Chained
  <2>2. \A j \in Item : list[j] = m => j # i /\ j # s[p - 1] /\ j # s[p + 1]
    BY <1>8
  <2>3. head'[m] = head[m] /\ tail'[m] = tail[m] BY <1>9
  <2>4. \A j \in Item : list[j] = m => /\ list'[j] = m /\ next'[j] = next[j]
                                       /\ prev'[j] = prev[j]
    BY <1>9, <2>2
  <2>5. \A j \in Item : list'[j] = m => list[j] = m BY <1>9, ListsAssumption
  <2> QED BY <2>1, <2>3, <2>4, <2>5, Elsewhere
<1> QED BY <1>10, <1>11

-----------------------------------------------------------------------------
\* A set of numbers that is not empty has a least one.
LEMMA LeastOf ==
    ASSUME NEW S \in SUBSET Nat, S # {}
    PROVE  \E d \in S : \A e \in S : ~(e < d)
<1>1. PICK d \in S : \A e \in S : ~(<<e, d>> \in OpToRel(<, Nat))
  BY NatLessThanWellFounded, WFMin
<1>2. \A e \in S : ~(e < d) BY <1>1 DEF OpToRel
<1> QED BY <1>2

\* The walk of common_listGetNthElement, over a chain.
Walk(l, n, f) ==
    f = [m \in 0..n |->
           IF m = 0 THEN head[l]
           ELSE IF f[m - 1] = NULL THEN NULL ELSE next[f[m - 1]]]

Visited(s, m) == IF m < Len(s) THEN s[m + 1] ELSE NULL

LEMMA VisitedNext ==
    ASSUME NEW l, NEW s \in Seq(Item), Chain(l, s), NEW m \in Nat
    PROVE  Visited(s, m) = IF m = 0 THEN head[l]
                           ELSE IF Visited(s, m - 1) = NULL THEN NULL
                           ELSE next[Visited(s, m - 1)]
<1> DEFINE c == Len(s)
<1>1. /\ c \in Nat /\ (\A n \in 1..c : s[n] \in Item)
      /\ head[l] = IF c = 0 THEN NULL ELSE s[1]
      /\ \A n \in 1..c : next[s[n]] = IF n = c THEN NULL ELSE s[n + 1]
  <2>1. c \in Nat /\ \A n \in 1..c : s[n] \in Item BY LenProperties
  <2>2. /\ head[l] = IF c = 0 THEN NULL ELSE s[1]
        /\ \A n \in 1..c : next[s[n]] = IF n = c THEN NULL ELSE s[n + 1]
    BY DEF Chain
  <2> QED BY <2>1, <2>2
<1> HIDE DEF c
<1>2. \A n : Visited(s, n) = IF n < c THEN s[n + 1] ELSE NULL
  BY DEF Visited, c
<1>3. CASE m = 0 BY <1>1, <1>2, <1>3
<1>4. CASE m # 0 /\ m - 1 >= c
  <2>1. Visited(s, m - 1) = NULL /\ Visited(s, m) = NULL BY <1>1, <1>2, <1>4
  <2> QED BY <1>4, <2>1
<1>5. CASE m # 0 /\ m - 1 < c
  <2>1. m \in 1..c /\ (m - 1) + 1 = m BY <1>1, <1>5
  <2>2. Visited(s, m - 1) = s[m] BY <1>2, <1>5, <2>1
  <2>3. s[m] # NULL BY <1>1, <2>1, ListsAssumption
  <2>4. next[s[m]] = IF m < c THEN s[m + 1] ELSE NULL BY <1>1, <2>1
  <2> QED BY <1>2, <1>5, <2>2, <2>3, <2>4
<1> QED BY <1>1, <1>3, <1>4, <1>5

LEMMA WalkVisits ==
    ASSUME NEW l, NEW s \in Seq(Item), Chain(l, s), NEW n \in Nat,
           NEW f, Walk(l, n, f)
    PROVE  \A m \in 0..n : f[m] = Visited(s, m)
<1> DEFINE Wrong == {m \in 0..n : f[m] # Visited(s, m)}
<1>1. \A m \in 0..n : f[m] = IF m = 0 THEN head[l]
                             ELSE IF f[m - 1] = NULL THEN NULL
                             ELSE next[f[m - 1]]
  BY DEF Walk
<1>2. ASSUME Wrong # {} PROVE FALSE
  <2>1. Wrong \in SUBSET Nat OBVIOUS
  <2>2. PICK d \in Wrong : \A e \in Wrong : ~(e < d)
    <3> HIDE DEF Wrong
    <3> QED BY <1>2, <2>1, LeastOf
  <2>3. d \in 0..n /\ d \in Nat /\ f[d] # Visited(s, d) OBVIOUS
  <2>4. d # 0 => d - 1 \in 0..n /\ d - 1 < d BY <2>3
  <2>5. d # 0 => f[d - 1] = Visited(s, d - 1) BY <2>2, <2>4
  <2>6. f[d] = Visited(s, d)
    <3>1. Visited(s, d) = IF d = 0 THEN head[l]
                          ELSE IF Visited(s, d - 1) = NULL THEN NULL
                          ELSE next[Visited(s, d - 1)]
      BY <2>3, VisitedNext
    <3> QED BY <1>1, <2>3, <2>5, <3>1
  <2> QED BY <2>3, <2>6
<1> QED BY <1>2

LEMMA WalkExists ==
    ASSUME NEW l, NEW s \in Seq(Item), Chain(l, s), NEW n \in Nat
    PROVE  \E f : Walk(l, n, f)
<1> DEFINE f == [m \in 0..n |-> Visited(s, m)]
           g == [m \in 0..n |->
                   IF m = 0 THEN head[l]
                   ELSE IF f[m - 1] = NULL THEN NULL ELSE next[f[m - 1]]]
<1>1. ASSUME NEW m \in 0..n PROVE f[m] = g[m]
  <2>1. Visited(s, m) = IF m = 0 THEN head[l]
                        ELSE IF Visited(s, m - 1) = NULL THEN NULL
                        ELSE next[Visited(s, m - 1)]
    BY VisitedNext
  <2>2. m # 0 => m - 1 \in 0..n OBVIOUS
  <2>3. m # 0 => f[m - 1] = Visited(s, m - 1) BY <2>2
  <2> QED BY <2>1, <2>3
<1>2. f = g BY <1>1
<1> QED BY <1>2 DEF Walk

LEMMA NthVisited ==
    ASSUME NEW l, NEW s \in Seq(Item), Chain(l, s), NEW n \in Nat
    PROVE  NthElement(l, n) = Visited(s, n)
<1> DEFINE f == CHOOSE g : Walk(l, n, g)
<1>1. Walk(l, n, f) BY WalkExists
<1>2. NthElement(l, n) = f[n] BY DEF NthElement, Walk
<1> HIDE DEF f
<1>3. n \in 0..n OBVIOUS
<1> QED BY <1>1, <1>2, <1>3, WalkVisits

LEMMA ChainFits ==
    ASSUME NEW l, NEW s \in Seq(Item), Chain(l, s)
    PROVE  Cardinality(Item) \in Nat /\ Len(s) <= Cardinality(Item)
<1> DEFINE c == Len(s)
<1>1. c \in Nat /\ (\A n \in 1..c : s[n] \in Item) /\ s \in [1..c -> Item]
  BY LenProperties
<1>2. \A n, m \in 1..c : s[m] = s[n] => m = n BY DEF Chain
<1>3. s \in Injection(1..c, Item) BY <1>1, <1>2 DEF Injection, IsInjective
<1> HIDE DEF c
<1>4. IsFiniteSet(Item) BY ListsAssumption
<1>5. Cardinality(1..c) <= Cardinality(Item) BY <1>3, <1>4, FS_Injection
<1>6. Cardinality(1..c) = c
  <2>1. Cardinality(1..c) = IF 1 > c THEN 0 ELSE c - 1 + 1
    BY <1>1, FS_Interval
  <2> QED BY <1>1, <2>1
<1>7. Cardinality(Item) \in Nat BY <1>4, FS_CardinalityType
<1> QED BY <1>5, <1>6, <1>7 DEF c

LEMMA ContentsOfChain ==
    ASSUME NEW l, NEW s \in Seq(Item), Chain(l, s)
    PROVE  Contents(l) = s
<1> DEFINE c == Len(s)
<1>1. /\ c \in Nat /\ (\A n \in 1..c : s[n] \in Item)
      /\ s = [n \in 1..c |-> s[n]]
  BY LenProperties
<1>2. Cardinality(Item) \in Nat /\ c <= Cardinality(Item) BY ChainFits
<1>3. \A n \in Nat : NthElement(l, n) = IF n < c THEN s[n + 1] ELSE NULL
  BY NthVisited DEF Visited
<1> HIDE DEF c
<1>4. \A n \in Nat : n < c => s[n + 1] # NULL
  <2>1. ASSUME NEW n \in Nat, n < c PROVE s[n + 1] # NULL
    <3>1. n + 1 \in 1..c BY <1>1, <2>1
    <3> QED BY <1>1, <3>1, ListsAssumption
  <2> QED BY <2>1
<1>5. {n \in 0..Cardinality(Item) : NthElement(l, n) # NULL} = 0..c - 1
  <2>1. ASSUME NEW n \in 0..Cardinality(Item)
        PROVE  NthElement(l, n) # NULL <=> n < c
    <3>1. n \in Nat BY <1>2
    <3> QED BY <1>3, <1>4, <3>1
  <2> QED BY <1>1, <1>2, <2>1
<1>6. Length(l) = c
  <2>1. Cardinality(0..c - 1) = IF 0 > c - 1 THEN 0 ELSE (c - 1) - 0 + 1
    <3>1. 0 \in Int /\ c - 1 \in Int BY <1>1
    <3> QED BY <3>1, FS_Interval
  <2>2. Length(l) = Cardinality(0..c - 1) BY <1>5 DEF Length
  <2> QED BY <1>1, <2>1, <2>2
<1>7. ASSUME NEW n \in 1..c PROVE NthElement(l, n - 1) = s[n]
  <2>1. n - 1 \in Nat /\ n - 1 < c /\ (n - 1) + 1 = n BY <1>1
  <2> QED BY <1>3, <2>1
<1>8. Contents(l) = [n \in 1..c |-> NthElement(l, n - 1)]
  BY <1>6 DEF Contents
<1> QED BY <1>1, <1>7, <1>8

\* What ListSpec sees of the pointers.
AllContents == [l \in List |-> Contents(l)]

\* Chains determine the sequences that Lists shows to ListSpec, in this state
\* and in the next one.
LEMMA ContentsAre == \A sq : Chained(sq) => AllContents = sq
<1> SUFFICES ASSUME NEW sq, Chained(sq) PROVE AllContents = sq
  OBVIOUS
<1>1. sq = [l \in List |-> sq[l]] BY DEF Chained
<1>2. \A l \in List : Contents(l) = sq[l] BY ContentsOfChain DEF Chained
<1> QED BY <1>1, <1>2 DEF AllContents

LEMMA ContentsWillBe == \A sq : Chained(sq)' => AllContents' = sq
<1>1. (\A sq : Chained(sq) => AllContents = sq)' BY ContentsAre, PTL
<1> QED BY <1>1

-----------------------------------------------------------------------------
Sequenced == \E sq : Chained(sq)

\* The chains of the other lists and the new one of l make the next state's.
LEMMA OneListMoves ==
    ASSUME NEW sq, Chained(sq), NEW l \in List, NEW r \in Seq(Item),
           Chain(l, r)', \A m \in List \ {l} : Chain(m, sq[m])'
    PROVE  /\ Sequenced'
           /\ AllContents = sq
           /\ AllContents' = [AllContents EXCEPT ![l] = r]
<1> DEFINE q == [sq EXCEPT ![l] = r]
<1>1. sq \in [List -> Seq(Item)] BY DEF Chained
<1>2. q \in [List -> Seq(Item)] /\ q[l] = r /\ \A m \in List \ {l} : q[m] = sq[m]
  BY <1>1
<1> HIDE DEF q
<1>3. \A m \in List : Chain(m, q[m])'
  <2>1. ASSUME NEW m \in List, m # l PROVE Chain(m, q[m])'
    <3>1. q[m] = sq[m] BY <1>2, <2>1
    <3>2. Chain(m, sq[m])' BY <2>1
    <3> QED BY <3>1, <3>2 DEF Chain
  <2>2. Chain(l, q[l])' BY <1>2 DEF Chain
  <2> QED BY <2>1, <2>2
<1>4. Chained(q)' BY <1>2, <1>3 DEF Chained
<1>5. AllContents = sq BY ContentsAre
<1>6. AllContents' = q BY <1>4, ContentsWillBe
<1> QED BY <1>4, <1>5, <1>6 DEF Sequenced, q

\* An item whose back pointer is NULL is in none of the sequences.
LEMMA IsFree ==
    ASSUME Sequenced, NEW i \in Item, list[i] = NULL
    PROVE  Abstract!Free(i)
<1>1. PICK sq : Chained(sq) BY DEF Sequenced
<1>2. AllContents = sq BY <1>1, ContentsAre
<1>3. ASSUME NEW m \in List, NEW n \in DOMAIN sq[m] PROVE sq[m][n] # i
  <2>1. sq[m] \in Seq(Item) /\ Chain(m, sq[m]) BY <1>1 DEF Chained
  <2>2. n \in 1..Len(sq[m]) BY <2>1, LenProperties
  <2>3. list[sq[m][n]] = m BY <2>1, <2>2 DEF Chain
  <2> QED BY <2>3, ListsAssumption
<1> QED BY <1>2, <1>3 DEF Abstract!Free, Abstract!Members, AllContents

LEMMA AddBackPuts ==
    ASSUME TypeOK, Sequenced, NEW l \in List, NEW i \in Item, AddBack(l, i)
    PROVE  Sequenced' /\ Abstract!PutBack(l, i)
<1>1. PICK sq : Chained(sq) BY DEF Sequenced
<1> DEFINE r == Append(sq[l], i)
<1>2. sq[l] \in Seq(Item) BY <1>1 DEF Chained
<1>3. r \in Seq(Item) BY <1>2, AppendProperties
<1>4. Chain(l, r)' /\ \A m \in List \ {l} : Chain(m, sq[m])'
  BY <1>1, AddBackChains
<1>5. /\ Sequenced' /\ AllContents = sq
      /\ AllContents' = [AllContents EXCEPT ![l] = r]
  BY <1>1, <1>3, <1>4, OneListMoves
<1>6. AllContents' = [AllContents EXCEPT ![l] = Append(@, i)] BY <1>5
<1>7. Abstract!Free(i) BY IsFree DEF AddBack
<1> QED BY <1>5, <1>6, <1>7 DEF Abstract!PutBack, AllContents

LEMMA AddFrontPuts ==
    ASSUME TypeOK, Sequenced, NEW l \in List, NEW i \in Item, AddFront(l, i)
    PROVE  Sequenced' /\ Abstract!PutFront(l, i)
<1>1. PICK sq : Chained(sq) BY DEF Sequenced
<1> DEFINE r == <<i>> \o sq[l]
<1>2. sq[l] \in Seq(Item) /\ <<i>> \in Seq(Item) BY <1>1 DEF Chained
<1>3. r \in Seq(Item) BY <1>2, ConcatProperties
<1>4. Chain(l, r)' /\ \A m \in List \ {l} : Chain(m, sq[m])'
  BY <1>1, AddFrontChains
<1>5. /\ Sequenced' /\ AllContents = sq
      /\ AllContents' = [AllContents EXCEPT ![l] = r]
  BY <1>1, <1>3, <1>4, OneListMoves
<1>6. AllContents' = [AllContents EXCEPT ![l] = <<i>> \o @] BY <1>5
<1>7. Abstract!Free(i) BY IsFree DEF AddFront
<1> QED BY <1>5, <1>6, <1>7 DEF Abstract!PutFront, AllContents

LEMMA DropFrontTakes ==
    ASSUME TypeOK, Sequenced, NEW l \in List, DropFront(l)
    PROVE  Sequenced' /\ Abstract!TakeFront(l)
<1>1. PICK sq : Chained(sq) BY DEF Sequenced
<1> DEFINE r == Tail(sq[l])
<1>2. sq[l] \in Seq(Item) BY <1>1 DEF Chained
<1>3. /\ sq[l] # <<>>
      /\ Chain(l, r)' /\ \A m \in List \ {l} : Chain(m, sq[m])'
  BY <1>1, DropFrontChains
<1>4. r \in Seq(Item) BY <1>2, <1>3, HeadTailProperties
<1>5. /\ Sequenced' /\ AllContents = sq
      /\ AllContents' = [AllContents EXCEPT ![l] = r]
  BY <1>1, <1>3, <1>4, OneListMoves
<1>6. AllContents'
        = [AllContents EXCEPT ![l] = IF @ = <<>> THEN <<>> ELSE Tail(@)]
  BY <1>3, <1>5
<1> QED BY <1>5, <1>6 DEF Abstract!TakeFront, AllContents

\* All but the last item of a sequence.
LEMMA FrontPart ==
    ASSUME NEW s \in Seq(Item), s # <<>>
    PROVE  LET r == SubSeq(s, 1, Len(s) - 1)
           IN  /\ r \in Seq(Item) /\ Len(r) = Len(s) - 1
               /\ \A n \in 1..Len(s) - 1 : r[n] = s[n]
<1> DEFINE c == Len(s)
           r == SubSeq(s, 1, c - 1)
<1>1. c \in Nat \ {0} /\ \A n \in 1..c : s[n] \in Item
  BY LenProperties, EmptySeq
<1> HIDE DEF c
<1>2. \A n \in 1..c - 1 : s[n] \in Item BY <1>1
<1>3. /\ r \in Seq(Item)
      /\ Len(r) = IF 1 <= c - 1 THEN (c - 1) - 1 + 1 ELSE 0
      /\ \A n \in 1..(c - 1) - 1 + 1 : r[n] = s[1 + n - 1]
  BY <1>1, <1>2, SubSeqProperties
<1> HIDE DEF r
<1>4. \A n \in 1..c - 1 : n \in 1..(c - 1) - 1 + 1 /\ 1 + n - 1 = n
  BY <1>1
<1>5. /\ r \in Seq(Item) /\ Len(r) = c - 1
      /\ \A n \in 1..c - 1 : r[n] = s[n]
  BY <1>1, <1>3, <1>4
<1> QED BY <1>5 DEF r, c

LEMMA DropBackTakes ==
    ASSUME TypeOK, Sequenced, NEW l \in List, DropBack(l)
    PROVE  Sequenced' /\ Abstract!TakeBack(l)
<1>1. PICK sq : Chained(sq) BY DEF Sequenced
<1> DEFINE r == SubSeq(sq[l], 1, Len(sq[l]) - 1)
<1>2. sq[l] \in Seq(Item) BY <1>1 DEF Chained
<1>3. /\ sq[l] # <<>>
      /\ Chain(l, r)' /\ \A m \in List \ {l} : Chain(m, sq[m])'
  BY <1>1, DropBackChains
<1>4. r \in Seq(Item) BY <1>2, <1>3, FrontPart
<1>5. /\ Sequenced' /\ AllContents = sq
      /\ AllContents' = [AllContents EXCEPT ![l] = r]
  BY <1>1, <1>3, <1>4, OneListMoves
<1>6. AllContents'
        = [AllContents EXCEPT ![l] = IF @ = <<>> THEN <<>>
                                     ELSE SubSeq(@, 1, Len(@) - 1)]
  BY <1>3, <1>5
<1> QED BY <1>5, <1>6 DEF Abstract!TakeBack, AllContents

\* Whichever of its three ways common_listDeleteAny goes, the item is gone from
\* where it was and the others keep their order.
LEMMA DeleteAnyChains ==
    ASSUME TypeOK, NEW sq, Chained(sq), NEW l \in List, NEW i \in Item,
           DeleteAny(l, i), NEW p \in 1..Len(sq[l]), sq[l][p] = i,
           NEW r, r = SubSeq(sq[l], 1, p - 1) \o SubSeq(sq[l], p + 1, Len(sq[l]))
    PROVE  Chain(l, r)' /\ \A m \in List \ {l} : Chain(m, sq[m])'
<1> DEFINE s == sq[l]
           c == Len(s)
<1>1. s \in Seq(Item) /\ Chain(l, s) BY DEF Chained
<1>2. /\ r \in Seq(Item) /\ Len(r) = c - 1
      /\ \A n \in 1..c - 1 : r[n] = IF n < p THEN s[n] ELSE s[n + 1]
  BY <1>1, Without
<1>3. /\ c \in Nat \ {0} /\ p \in 1..c /\ head[l] = s[1] /\ tail[l] = s[c]
      /\ \A n \in 1..c : s[n] = i => n = p
  <2>1. \A n \in 1..c : s[n] = i => n = p BY <1>1 DEF Chain
  <2> QED BY <1>1, <2>1, Ends
<1>4. CASE head[l] = i /\ DropFront(l)
  <2> DEFINE t == Tail(s)
  <2>1. p = 1 BY <1>3, <1>4, Indices
  <2>2. s # <<>> /\ Chain(l, t)' /\ \A m \in List \ {l} : Chain(m, sq[m])'
    BY <1>4, DropFrontChains
  <2>3. t \in Seq(Item) /\ Len(t) = c - 1 /\ \A n \in 1..c - 1 : t[n] = s[n + 1]
    BY <1>1, <2>2, HeadTailProperties
  <2>4. r = t
    <3> HIDE DEF t
    <3>1. \A n \in 1..Len(r) : r[n] = t[n] BY <1>2, <1>3, <2>1, <2>3
    <3> QED BY <1>2, <2>3, <3>1, SeqEqual
  <2> QED BY <2>2, <2>4
<1>5. CASE tail[l] = i /\ DropBack(l)
  <2> DEFINE t == SubSeq(s, 1, c - 1)
  <2>1. p = c BY <1>3, <1>5, Indices
  <2>2. s # <<>> /\ Chain(l, t)' /\ \A m \in List \ {l} : Chain(m, sq[m])'
    BY <1>5, DropBackChains
  <2>3. t \in Seq(Item) /\ Len(t) = c - 1 /\ \A n \in 1..c - 1 : t[n] = s[n]
    BY <1>1, <2>2, FrontPart
  <2>4. r = t
    <3> HIDE DEF t
    <3>1. \A n \in 1..c - 1 : n < c BY <1>3
    <3>2. \A n \in 1..Len(r) : r[n] = t[n] BY <1>2, <2>1, <2>3, <3>1
    <3> QED BY <1>2, <2>3, <3>2, SeqEqual
  <2> QED BY <2>2, <2>4
<1>6. CASE list[i] = l /\ head[l] # i /\ tail[l] # i /\ Unlink(i)
  BY <1>6, UnlinkChains
<1> QED BY <1>4, <1>5, <1>6 DEF DeleteAny

LEMMA DeleteAnyTakes ==
    ASSUME TypeOK, Sequenced, NEW l \in List, NEW i \in Item, DeleteAny(l, i)
    PROVE  Sequenced' /\ Abstract!TakeAny(l, i)
<1>1. PICK sq : Chained(sq) BY DEF Sequenced
<1>2. sq[l] \in Seq(Item) /\ Chain(l, sq[l]) BY <1>1 DEF Chained
<1>3. PICK p \in 1..Len(sq[l]) : sq[l][p] = i BY <1>2 DEF Chain, DeleteAny
<1> DEFINE r == SubSeq(sq[l], 1, p - 1) \o SubSeq(sq[l], p + 1, Len(sq[l]))
<1>4. r \in Seq(Item) BY <1>2, Without
<1>5. Chain(l, r)' /\ \A m \in List \ {l} : Chain(m, sq[m])'
  BY <1>1, <1>3, DeleteAnyChains
<1>6. /\ Sequenced' /\ AllContents = sq
      /\ AllContents' = [AllContents EXCEPT ![l] = r]
  BY <1>1, <1>4, <1>5, OneListMoves
<1>7. p \in DOMAIN AllContents[l] /\ AllContents[l][p] = i
  BY <1>2, <1>3, <1>6, LenProperties
<1>8. AllContents'
        = [AllContents EXCEPT ![l] = SubSeq(@, 1, p - 1) \o SubSeq(@, p + 1, Len(@))]
  BY <1>6
<1> QED BY <1>6, <1>7, <1>8 DEF Abstract!TakeAny, AllContents

LEMMA StartsSequenced == Init => Sequenced /\ Abstract!SpecInit
<1> SUFFICES ASSUME Init PROVE Sequenced /\ Abstract!SpecInit
  OBVIOUS
<1> DEFINE sq == [l \in List |-> <<>>]
<1>1. Chained(sq)
  <2>1. sq \in [List -> Seq(Item)] OBVIOUS
  <2>2. ASSUME NEW l \in List PROVE Chain(l, sq[l])
    <3>1. sq[l] = <<>> /\ Len(sq[l]) = 0 OBVIOUS
    <3>2. \A i \in Item : list[i] # l BY ListsAssumption DEF Init
    <3> HIDE DEF sq
    <3> QED BY <3>1, <3>2 DEF Chain, Init
  <2> QED BY <2>1, <2>2 DEF Chained
<1>2. AllContents = sq BY <1>1, ContentsAre
<1> QED BY <1>1, <1>2 DEF Sequenced, Abstract!SpecInit, AllContents

LEMMA StaysSequenced ==
    ASSUME Sequenced, UNCHANGED vars
    PROVE  Sequenced' /\ AllContents' = AllContents
<1>1. PICK sq : Chained(sq) BY DEF Sequenced
<1>2. Chained(sq)' BY <1>1 DEF Chained, Chain, vars
<1>3. AllContents = sq /\ AllContents' = sq
  BY <1>1, <1>2, ContentsAre, ContentsWillBe
<1> QED BY <1>2, <1>3 DEF Sequenced

\* Every operation is the move of ListSpec that its name says.
Matches ==
    \A l \in List :
       /\ DropFront(l) => Abstract!TakeFront(l)
       /\ DropBack(l) => Abstract!TakeBack(l)
       /\ \A i \in Item :
             /\ AddBack(l, i) => Abstract!PutBack(l, i)
             /\ AddFront(l, i) => Abstract!PutFront(l, i)
             /\ DeleteAny(l, i) => Abstract!TakeAny(l, i)

LEMMA MovesMatch == ASSUME TypeOK, Sequenced PROVE Matches
BY DropFrontTakes, DropBackTakes, AddBackPuts, AddFrontPuts, DeleteAnyTakes
   DEF Matches

LEMMA SequencedSteps ==
    ASSUME TypeOK, Sequenced, [Next]_vars
    PROVE  Sequenced' /\ [Abstract!SpecNext]_AllContents
<1>1. CASE UNCHANGED vars BY <1>1, StaysSequenced
<1>2. ASSUME NEW l \in List, DropFront(l)
      PROVE  Sequenced' /\ Abstract!SpecNext
  BY <1>2, DropFrontTakes DEF Abstract!SpecNext
<1>3. ASSUME NEW l \in List, DropBack(l)
      PROVE  Sequenced' /\ Abstract!SpecNext
  BY <1>3, DropBackTakes DEF Abstract!SpecNext
<1>4. ASSUME NEW l \in List, NEW i \in Item, AddBack(l, i)
      PROVE  Sequenced' /\ Abstract!SpecNext
  BY <1>4, AddBackPuts DEF Abstract!SpecNext
<1>5. ASSUME NEW l \in List, NEW i \in Item, AddFront(l, i)
      PROVE  Sequenced' /\ Abstract!SpecNext
  BY <1>5, AddFrontPuts DEF Abstract!SpecNext
<1>6. ASSUME NEW l \in List, NEW i \in Item, DeleteAny(l, i)
      PROVE  Sequenced' /\ Abstract!SpecNext
  BY <1>6, DeleteAnyTakes DEF Abstract!SpecNext
<1> QED BY <1>1, <1>2, <1>3, <1>4, <1>5, <1>6 DEF Next

-----------------------------------------------------------------------------
\* In every reachable state the links of each list are those of one finite
\* sequence of distinct items, and an item's back pointer names the list whose
\* sequence it is in: no walk over a list meets a cycle or leaves the list
\* (src/kernel/common/lists.c:126-146).
THEOREM ListsAreChains == Spec => []Sequenced
<1>1. Init => Sequenced BY StartsSequenced
<1>2. TypeOK /\ Sequenced /\ [Next]_vars => Sequenced' BY SequencedSteps
<1> QED BY <1>1, <1>2, ListsTypeCorrect, PTL DEF Spec

\* For any number of lists and items, every store that lists.c makes to links,
\* headers and back pointers amounts to one move of ListSpec: one item more or
\* less in one sequence, the order of the others and the other lists as they were.
THEOREM ListsImplementSequences == Spec => ImplementsSequences
<1>1. Init => Sequenced /\ Abstract!SpecInit BY StartsSequenced
<1>2. TypeOK /\ Sequenced /\ [Next]_vars
        => Sequenced' /\ [Abstract!SpecNext]_AllContents
  BY SequencedSteps
<1> QED BY <1>1, <1>2, ListsTypeCorrect, PTL
        DEF Spec, ImplementsSequences, Abstract!Spec, AllContents

\* And each function makes the move its name says, at the right end: a ready list
\* is a queue, and common_listDeleteAny, whichever of its three ways it goes, takes
\* out the item it was given.
THEOREM OperationsDoAsNamed == Spec => OperationsMatch
<1>1. TypeOK /\ Sequenced => [Matches]_vars BY MovesMatch
<1> QED BY <1>1, ListsTypeCorrect, ListsAreChains, PTL
        DEF Spec, OperationsMatch, Matches
=============================================================================
