----------------------------- MODULE HeapProofs -----------------------------
(***************************************************************************)
(* For a heap of any size and any requests, mem_heapAlloc and mem_heapFree *)
(* keep the heap tiled and the chain merged, and they implement first fit. *)
(***************************************************************************)
EXTENDS Heap, SequenceTheorems, FiniteSetTheorems, WellFoundedInduction, TLAPS

\* The chain of h is the blocks F, in the order of their addresses.
Ordered(h, F) ==
    /\ F \subseteq 0..End - 1
    /\ \A a \in F \cup {Start} :
          /\ h[a].next \in F \cup {End}
          /\ a < h[a].next
          /\ \A b \in F : a < b => h[a].next <= b

\* No two of them touch.
Apart(h, F) == \A a, b \in F : a + h[a].size # b

LEMMA LeastIndex ==
    ASSUME NEW S \in SUBSET Place, S # {}
    PROVE  \E k \in S : /\ \A m \in S : k <= m
                        /\ \A m \in 0..k - 1 : m \in Place /\ m \notin S
<1>0. Span \in Nat BY HeapAssumption
<1>1. S \in SUBSET Nat BY <1>0 DEF Place
<1>2. PICK k \in S : \A m \in S : <<m, k>> \notin OpToRel(<, Nat)
  BY <1>1, NatLessThanWellFounded, WFMin
<1>3. \A m \in S : ~(m < k) BY <1>1, <1>2 DEF OpToRel
<1>4. k \in Place /\ k \in Nat BY <1>1
<1>5. \A m \in 0..k - 1 : m \in Place /\ m < k BY <1>0, <1>4 DEF Place
<1>6. \A m \in S : k <= m BY <1>1, <1>3, <1>4
<1> QED BY <1>3, <1>5, <1>6

-----------------------------------------------------------------------------
\* The recursion of Chain.
Step(h, f, n) ==
    IF n = 0 THEN Start ELSE IF f[n - 1] = End THEN End ELSE h[f[n - 1]].next

LEMMA ChainExists ==
    ASSUME NEW h
    PROVE  \E f : f = [n \in Place |-> Step(h, f, n)]
<1>0. Span \in Nat BY HeapAssumption
<1> DEFINE Upto(k, f) == f = [n \in 0..k |-> Step(h, f, n)]
           S == {k \in Place : ~ \E f : Upto(k, f)}
<1>1. S = {}
  <2> SUFFICES ASSUME S # {} PROVE FALSE OBVIOUS
  <2>1. PICK k \in S : \A m \in 0..k - 1 : m \in Place /\ m \notin S
    BY LeastIndex
  <2>2. k \in Nat BY <1>0 DEF Place
  <2>3. CASE k = 0
    <3> DEFINE f == [n \in 0..0 |-> Start]
    <3>1. Upto(0, f) BY DEF Step
    <3> QED BY <2>3, <3>1
  <2>4. CASE k # 0
    <3>1. k - 1 \in 0..k - 1 BY <2>2, <2>4
    <3>2. PICK g : Upto(k - 1, g) BY <2>1, <3>1
    <3> DEFINE f == [n \in 0..k |-> IF n = k THEN Step(h, g, k) ELSE g[n]]
    <3>3. \A n \in 0..k : n # k => /\ n \in 0..k - 1 /\ n - 1 # k
                                   /\ n # 0 => n - 1 \in 0..k
      BY <2>2
    <3>4. ASSUME NEW n \in 0..k PROVE f[n] = Step(h, g, n) BY <3>2, <3>3, <3>4
    <3>5. ASSUME NEW n \in 0..k PROVE Step(h, g, n) = Step(h, f, n)
      BY <3>3, <3>5 DEF Step
    <3>6. f = [n \in 0..k |-> f[n]] OBVIOUS
    <3> HIDE DEF f
    <3>7. Upto(k, f) BY <3>4, <3>5, <3>6
    <3> QED BY <3>7
  <2> QED BY <2>3, <2>4
<1>2. Span + 1 \in Place BY <1>0 DEF Place
<1>3. PICK f : Upto(Span + 1, f) BY <1>1, <1>2
<1> QED BY <1>3 DEF Place

LEMMA ChainSteps ==
    ASSUME NEW h
    PROVE  \A n \in Place : Chain(h)[n] = Step(h, Chain(h), n)
<1> DEFINE nth == CHOOSE f : f = [n \in Place |-> Step(h, f, n)]
<1>1. nth = [n \in Place |-> Step(h, nth, n)] BY ChainExists
<1>2. Chain(h) = nth BY DEF Chain, Step
<1> HIDE DEF nth
<1> QED BY <1>1, <1>2

\* What Chain comes to on an ordered chain: it goes up, by at least one byte in
\* each place, passes every block and ends at kHeapEnd.
InOrder(c, h, F) ==
    /\ c[0] = Start /\ c[Span + 1] = End
    /\ \A n \in Place : /\ c[n] \in F \cup {Start, End}
                        /\ n # 0 => c[n] # Start
    /\ \A n \in Place \ {0} :
          /\ n - 1 \in Place
          /\ c[n - 1] # End => c[n] = h[c[n - 1]].next /\ c[n - 1] < c[n]
    /\ \A m, n \in Place : m <= n => c[m] <= c[n]
    /\ \A a \in F \cup {Start, End} : \E n \in Place : c[n] = a

LEMMA ChainInOrder ==
    ASSUME NEW h, NEW F, Ordered(h, F)
    PROVE  InOrder(Chain(h), h, F)
<1> DEFINE c == Chain(h)
<1>0. Span \in Nat /\ Span # 0 BY HeapAssumption
<1>1. \A n \in Place : c[n] = Step(h, c, n) BY ChainSteps
<1> HIDE DEF c
<1>2. /\ F \subseteq Int /\ Start \in Int /\ End \in Int /\ Start < End
      /\ \A a \in F : Start < a /\ a < End
  BY <1>0 DEF Ordered, Start, End
<1>3. \A n \in Place : n \in Nat /\ (n # 0 => n - 1 \in Place /\ n - 1 \in 0..n - 1)
  BY <1>0 DEF Place
<1>4. c[0] = Start
  <2>1. 0 \in Place BY <1>0 DEF Place
  <2> QED BY <1>1, <2>1 DEF Step
<1>5. \A n \in Place :
         n # 0 => c[n] = IF c[n - 1] = End THEN End ELSE h[c[n - 1]].next
  BY <1>1 DEF Step
\* It stays on the chain ...
<1>6. \A n \in Place : c[n] \in F \cup {Start, End} /\ c[n] >= n - 1
  <2> DEFINE S == {n \in Place : ~(c[n] \in F \cup {Start, End} /\ c[n] >= n - 1)}
  <2> SUFFICES ASSUME S # {} PROVE FALSE OBVIOUS
  <2>1. PICK k \in S : \A m \in 0..k - 1 : m \in Place /\ m \notin S BY LeastIndex
  <2>2. k # 0 BY <1>4, <2>1 DEF Start
  <2>3. k \in Nat /\ k - 1 \in 0..k - 1 /\ k - 1 \in Place BY <1>3, <2>2
  <2>4. c[k - 1] \in F \cup {Start, End} /\ c[k - 1] >= (k - 1) - 1 BY <2>1, <2>3
  <2>5. CASE c[k - 1] = End
    <3>1. c[k] = End BY <1>5, <2>2, <2>5
    <3>2. k - 1 <= End BY <1>0, <2>1 DEF Place, End
    <3> QED BY <3>1, <3>2, <1>2
  <2>6. CASE c[k - 1] # End
    <3>1. c[k] = h[c[k - 1]].next BY <1>5, <2>2, <2>6
    <3>2. c[k] \in F \cup {End} /\ c[k - 1] < c[k] BY <2>4, <2>6, <3>1 DEF Ordered
    <3>3. c[k] \in Int /\ c[k - 1] \in Int BY <3>2, <2>4, <1>2
    <3>4. c[k] >= k - 1 BY <3>2, <3>3, <2>3, <2>4
    <3> QED BY <3>2, <3>4, <2>1
  <2> QED BY <2>5, <2>6
\* ... and goes up on it.
<1>7. ASSUME NEW n \in Place, n # 0, c[n - 1] # End
      PROVE  c[n] = h[c[n - 1]].next /\ c[n - 1] < c[n] /\ c[n] \in F \cup {End}
  <2>1. c[n - 1] \in F \cup {Start} BY <1>3, <1>6, <1>7
  <2> QED BY <2>1, <1>5, <1>7 DEF Ordered
<1>8. \A n \in Place : n # 0 => c[n] \in F \cup {End} /\ c[n - 1] <= c[n]
  <2> SUFFICES ASSUME NEW n \in Place, n # 0
               PROVE  c[n] \in F \cup {End} /\ c[n - 1] <= c[n]
    OBVIOUS
  <2>1. c[n - 1] \in Int /\ c[n] \in Int BY <1>2, <1>3, <1>6
  <2>2. CASE c[n - 1] = End BY <2>1, <2>2, <1>5
  <2>3. CASE c[n - 1] # End BY <2>1, <2>3, <1>7
  <2> QED BY <2>2, <2>3
<1>9. c[Span + 1] = End
  <2>1. Span + 1 \in Place BY <1>0 DEF Place
  <2>2. c[Span + 1] \in F \cup {End} /\ c[Span + 1] >= (Span + 1) - 1
    BY <2>1, <1>0, <1>6, <1>8
  <2> DEFINE last == c[Span + 1]
  <2>3. last \in Int /\ last >= (Span + 1) - 1 BY <2>2, <1>2
  <2> HIDE DEF last
  <2>4. ~(last < End) BY <2>3, <1>0 DEF End
  <2> QED BY <2>2, <2>4, <1>2 DEF last
<1>10. ASSUME NEW m \in Place, NEW n \in Place, m <= n PROVE c[m] <= c[n]
  <2> DEFINE S == {j \in Place : m <= j /\ ~(c[m] <= c[j])}
  <2> SUFFICES ASSUME S # {} PROVE FALSE BY <1>10
  <2>1. PICK k \in S : \A j \in 0..k - 1 : j \in Place /\ j \notin S BY LeastIndex
  <2>2. k # m
    <3>1. c[m] \in Int BY <1>6, <1>2
    <3>2. c[m] <= c[m] BY <3>1
    <3> QED BY <2>1, <3>2
  <2>3. k \in Nat /\ m \in Nat /\ k # 0 BY <2>1, <2>2, <1>3
  <2>4. k - 1 \in 0..k - 1 /\ k - 1 \in Place /\ m <= k - 1 BY <2>1, <2>2, <2>3, <1>3
  <2>5. c[m] <= c[k - 1] BY <2>1, <2>4
  <2>6. c[k - 1] <= c[k] BY <2>3, <1>8
  <2>7. c[m] \in Int /\ c[k] \in Int /\ c[k - 1] \in Int BY <2>4, <1>6, <1>2
  <2> QED BY <2>1, <2>5, <2>6, <2>7
<1>11. ASSUME NEW a \in F \cup {Start, End} PROVE \E n \in Place : c[n] = a
  <2> DEFINE S == {n \in Place : c[n] >= a}
  <2>1. Span + 1 \in S BY <1>0, <1>2, <1>9 DEF Place
  <2>2. PICK k \in S : \A m \in 0..k - 1 : m \in Place /\ m \notin S
    BY <2>1, LeastIndex
  <2>3. CASE k = 0 BY <2>2, <2>3, <1>2, <1>4
  <2>4. CASE k # 0
    <3>1. k - 1 \in 0..k - 1 /\ k - 1 \in Place BY <2>4, <1>3
    <3>2. ~(c[k - 1] >= a) BY <2>2, <3>1
    <3>3. c[k - 1] \in Int /\ c[k - 1] \in F \cup {Start, End} BY <3>1, <1>2, <1>6
    <3>4. c[k - 1] < a /\ c[k - 1] # End BY <3>2, <3>3, <1>2
    <3>5. c[k] = h[c[k - 1]].next /\ c[k] \in F \cup {End} BY <2>4, <3>4, <1>7
    <3>6. a \in F \cup {End} BY <3>4, <3>3, <1>2
    <3>7. c[k - 1] \in F \cup {Start} BY <3>3, <3>4
    <3>8. c[k] <= a
      <4>1. CASE a \in F BY <4>1, <3>4, <3>5, <3>7 DEF Ordered
      <4>2. CASE a = End
        <5>1. \A e \in F \cup {End} : e <= End BY <1>2
        <5> QED BY <5>1, <3>5, <4>2
      <4> QED BY <4>1, <4>2, <3>6
    <3>9. c[k] \in Int /\ a \in Int BY <3>5, <3>6, <1>2
    <3>10. c[k] >= a BY <2>2
    <3> QED BY <3>8, <3>9, <3>10, <2>2
  <2> QED BY <2>3, <2>4
<1>12. \A n \in Place : n # 0 => c[n] # Start BY <1>8, <1>2
<1> QED
  BY <1>3, <1>4, <1>6, <1>7, <1>9, <1>10, <1>11, <1>12 DEF InOrder, c

-----------------------------------------------------------------------------
\* Where a loop over the chain ends: at its first block in a set of addresses.
FirstIn(h, F, S, a) ==
    /\ a \in S /\ a \in F \cup {Start, End}
    /\ \A x \in F \cup {Start, End} : x \in S => a <= x
    /\ a # Start => \E x \in F \cup {Start} :
                       x \notin S /\ x < a /\ h[x].next = a

IsFirst(c, S, k) == k \in Place /\ c[k] \in S /\ \A m \in 0..k - 1 : c[m] \notin S

LEMMA FirstExists ==
    ASSUME NEW h, NEW F, Ordered(h, F), NEW S, (F \cup {Start, End}) \cap S # {}
    PROVE  \E k \in Place : IsFirst(Chain(h), S, k)
<1> DEFINE c == Chain(h)
           K == {n \in Place : c[n] \in S}
<1>1. InOrder(c, h, F) BY ChainInOrder
<1> HIDE DEF c
<1>2. K # {} BY <1>1 DEF InOrder
<1>3. PICK k \in K : \A m \in 0..k - 1 : m \in Place /\ m \notin K
  BY <1>2, LeastIndex
<1>4. IsFirst(c, S, k) BY <1>3 DEF IsFirst
<1> QED BY <1>4 DEF c

LEMMA FirstFound ==
    ASSUME NEW h, NEW F, Ordered(h, F), NEW S, NEW k, IsFirst(Chain(h), S, k)
    PROVE  FirstIn(h, F, S, Chain(h)[k])
<1> DEFINE c == Chain(h)
<1>0. Span \in Nat /\ Span # 0 BY HeapAssumption
<1>1. InOrder(c, h, F) BY ChainInOrder
<1>5. IsFirst(c, S, k) OBVIOUS
<1> HIDE DEF c
<1> USE DEF IsFirst
<1>6. c[k] \in F \cup {Start, End} BY <1>1, <1>5 DEF InOrder
<1>7. ASSUME NEW x \in F \cup {Start, End}, x \in S PROVE c[k] <= x
  <2>1. PICK n \in Place : c[n] = x BY <1>1 DEF InOrder
  <2>2. n \notin 0..k - 1 BY <1>5, <1>7, <2>1
  <2>3. k <= n BY <2>2, <1>0, <1>5 DEF Place
  <2> QED BY <2>1, <2>3, <1>1, <1>5 DEF InOrder
<1>8. ASSUME c[k] # Start
      PROVE  \E x \in F \cup {Start} : x \notin S /\ x < c[k] /\ h[x].next = c[k]
  <2>0. k # 0 BY <1>1, <1>8 DEF InOrder
  <2>1. k # 0 /\ k - 1 \in 0..k - 1 /\ k - 1 \in Place
    BY <1>0, <1>5, <2>0 DEF Place
  <2>2. c[k - 1] \in F \cup {Start, End} /\ c[k - 1] \notin S
    BY <2>1, <1>1, <1>5 DEF InOrder
  <2>3. c[k - 1] # End
    <3> SUFFICES ASSUME c[k - 1] = End PROVE FALSE OBVIOUS
    <3>1. k - 1 <= k BY <1>0, <2>1 DEF Place
    <3>2. c[k - 1] <= c[k] BY <3>1, <2>1, <1>1, <1>5 DEF InOrder
    <3>3. \A e \in F \cup {Start, End} : End <= e => e = End
      BY <1>0 DEF Ordered, Start, End
    <3> QED BY <3>2, <3>3, <1>5, <1>6, <2>2
  <2>4. h[c[k - 1]].next = c[k] /\ c[k - 1] < c[k]
    BY <2>1, <2>3, <1>1, <1>5 DEF InOrder
  <2> QED BY <2>2, <2>3, <2>4
<1>9. FirstIn(h, F, S, c[k]) BY <1>5, <1>6, <1>7, <1>8 DEF FirstIn
<1> QED BY <1>9 DEF c

\* A loop that looks for a block before kHeapEnd ends at the first: T are the places
\* where its condition holds, S the blocks.
Stops(T, k) == k \in T /\ \A m \in 0..k - 1 : m \notin T

LEMMA LoopStops ==
    ASSUME NEW h, NEW F, Ordered(h, F), NEW S, S \subseteq F \cup {Start}, S # {},
           NEW T \in SUBSET Place,
           \A n \in Place : Chain(h)[n] \in F \cup {Start}
                             => (n \in T <=> Chain(h)[n] \in S)
    PROVE  /\ \E k \in Place : Stops(T, k)
           /\ \A k : Stops(T, k) => FirstIn(h, F, S, Chain(h)[k])
<1> DEFINE c == Chain(h)
<1>0. Span \in Nat /\ Span # 0 BY HeapAssumption
<1>1. InOrder(c, h, F) BY ChainInOrder
<1>2. \A n \in Place : c[n] \in F \cup {Start} => (n \in T <=> c[n] \in S) OBVIOUS
<1>3. \A k \in Place : IsFirst(c, S, k) => FirstIn(h, F, S, c[k]) BY FirstFound
<1>4. PICK k \in Place : IsFirst(c, S, k) BY FirstExists
<1> HIDE DEF c
<1>5. /\ F \subseteq Int /\ Start \in Int /\ End \in Int /\ Start < End
      /\ \A a \in F : Start < a /\ a < End
  BY <1>0 DEF Ordered, Start, End
<1>6. ASSUME NEW n \in Place, n <= k PROVE c[n] \in F \cup {Start}
  <2>1. c[n] \in F \cup {Start, End} BY <1>1 DEF InOrder
  <2>2. c[n] <= c[k] BY <1>1, <1>4, <1>6 DEF InOrder
  <2>3. c[k] \in F \cup {Start} BY <1>4 DEF IsFirst
  <2>4. \A x \in F \cup {Start} : ~(End <= x) BY <1>5
  <2>5. c[n] # End BY <2>2, <2>3, <2>4
  <2> QED BY <2>1, <2>5
<1>7. \A m \in 0..k - 1 : m \in Place /\ m <= k BY <1>0, <1>4 DEF Place
<1>8. k \in T
  <2>1. k <= k BY <1>0, <1>4 DEF Place
  <2> QED BY <2>1, <1>2, <1>4, <1>6 DEF IsFirst
<1>9. Stops(T, k)
  <2>1. \A m \in 0..k - 1 : m \notin T BY <1>2, <1>4, <1>6, <1>7 DEF IsFirst
  <2> QED BY <1>8, <2>1 DEF Stops
<1>10. ASSUME NEW j, Stops(T, j) PROVE FirstIn(h, F, S, c[j])
  <2>1. j \in Place /\ k \notin 0..j - 1 BY <1>8, <1>10 DEF Stops
  <2>2. j <= k BY <2>1, <1>0, <1>4 DEF Place
  <2>3. \A m \in 0..j - 1 : m \in Place /\ m <= k BY <2>1, <2>2, <1>0, <1>4 DEF Place
  <2>4. c[j] \in S BY <2>1, <2>2, <1>2, <1>6, <1>10 DEF Stops
  <2>5. \A m \in 0..j - 1 : c[m] \notin S BY <2>3, <1>2, <1>6, <1>10 DEF Stops
  <2>6. IsFirst(c, S, j) BY <2>1, <2>4, <2>5 DEF IsFirst
  <2> QED BY <2>1, <2>6, <1>3
<1> QED BY <1>4, <1>9, <1>10 DEF c

\* mem_insertFreeBlock stops below b.
Below(h, b) == FirstOnChain(h, LAMBDA a : h[a].next >= b)

LEMMA StopsBelow ==
    ASSUME NEW h, NEW F, Ordered(h, F), NEW b \in 0..End - 1, b \notin F,
           NEW p, p = Below(h, b)
    PROVE  /\ p \in F \cup {Start} /\ p < b
           /\ h[p].next \in F \cup {End} /\ b < h[p].next
           /\ \A a \in F : a <= p \/ h[p].next <= a
<1> DEFINE S == {a \in F \cup {Start} : h[a].next >= b}
           U == {a \in F \cup {Start, End} : a >= b}
<1>0. Span \in Nat /\ Span # 0 BY HeapAssumption
<1>1. /\ F \subseteq Int /\ Start \in Int /\ End \in Int /\ Start < End
      /\ Start < b /\ b < End /\ b \in Int
      /\ \A a \in F : Start < a /\ a < End
  BY <1>0 DEF Ordered, Start, End
<1>2. S # {}
  <2>1. End \in U BY <1>1
  <2>2. \A k : IsFirst(Chain(h), U, k) => FirstIn(h, F, U, Chain(h)[k]) BY FirstFound
  <2>3. \E k \in Place : IsFirst(Chain(h), U, k) BY <2>1, FirstExists
  <2>4. PICK a : FirstIn(h, F, U, a) BY <2>2, <2>3
  <2>5. a \in U /\ a # Start BY <2>4, <1>1 DEF FirstIn
  <2>6. PICK x \in F \cup {Start} : h[x].next = a BY <2>4, <2>5 DEF FirstIn
  <2> QED BY <2>5, <2>6
<1>3. FirstIn(h, F, S, p)
  <2> DEFINE c == Chain(h)
             P(n) == /\ h[c[n]].next >= b
                     /\ \A m \in 0..n - 1 : ~(h[c[m]].next >= b)
             T == {n \in Place : h[c[n]].next >= b}
  <2>1. p = c[CHOOSE n \in Place : P(n)] BY DEF Below, FirstOnChain
  <2>2. /\ \E k \in Place : Stops(T, k)
        /\ \A k : Stops(T, k) => FirstIn(h, F, S, c[k])
    BY <1>2, LoopStops
  <2>3. \A n \in Place : \A m \in 0..n - 1 : m \in Place BY <1>0 DEF Place
  <2> HIDE DEF c
  <2>4. \A n \in Place : Stops(T, n) <=> P(n) BY <2>3 DEF Stops
  <2> HIDE DEF P, T
  <2>5. PICK k \in Place : P(k) /\ k = CHOOSE n \in Place : P(n) BY <2>2, <2>4
  <2> QED BY <2>1, <2>2, <2>4, <2>5
<1> HIDE DEF S, U
<1>4. p \in F \cup {Start} /\ h[p].next >= b BY <1>3 DEF FirstIn, S
<1>5. h[p].next \in F \cup {End} /\ \A a \in F : p < a => h[p].next <= a
  BY <1>4 DEF Ordered
<1>6. p < b
  <2>1. CASE p = Start BY <2>1, <1>1
  <2>2. CASE p # Start
    <3>1. PICK x \in F \cup {Start} : x \notin S /\ h[x].next = p
      BY <2>2, <1>3 DEF FirstIn
    <3>2. ~(p >= b) BY <3>1 DEF S
    <3> QED BY <3>2, <1>1, <1>4
  <2> QED BY <2>1, <2>2
<1> DEFINE n == h[p].next
<1>7. n # b /\ n \in Int /\ n >= b
  <2>1. \A e \in F \cup {End} : e # b /\ e \in Int BY <1>1
  <2> QED BY <2>1, <1>4, <1>5
<1> HIDE DEF n
<1>8. b < n BY <1>1, <1>7
<1>9. \A a \in F : a <= p \/ n <= a
  <2> SUFFICES ASSUME NEW a \in F, ~(a <= p) PROVE n <= a OBVIOUS
  <2>1. p < a BY <1>1, <1>4
  <2> QED BY <2>1, <1>5 DEF n
<1> QED BY <1>4, <1>5, <1>6, <1>8, <1>9 DEF n

\* mem_heapAlloc stops at the lowest block that is large enough.
LEMMA StopsAtFit ==
    ASSUME NEW F, Ordered(hdr, F), NEW need, NEW b, b = FirstFitting(need)
    PROVE  /\ b \in F \cup {End}
           /\ b \in F => hdr[b].size >= need
           /\ \A a \in F : hdr[a].size >= need => b <= a
<1> DEFINE S == {a \in F \cup {End} : hdr[a].size >= need \/ a = End}
           c == Chain(hdr)
           P(n) == /\ c[n] # Start /\ (hdr[c[n]].size >= need \/ c[n] = End)
                   /\ \A m \in 0..n - 1 :
                         ~(c[m] # Start /\ (hdr[c[m]].size >= need \/ c[m] = End))
<1>0. Span \in Nat /\ Span # 0 BY HeapAssumption
<1>1. Start \notin F \cup {End} /\ End \notin F
  BY <1>0 DEF Ordered, Start, End
<1>2. b = c[CHOOSE n \in Place : P(n)] BY DEF FirstFitting, FirstOnChain
<1>3. \A n \in Place : c[n] \in F \cup {Start, End} BY ChainInOrder DEF InOrder
<1>4. End \in (F \cup {Start, End}) \cap S OBVIOUS
<1>5. \E k \in Place : IsFirst(c, S, k) BY <1>4, FirstExists
<1>6. \A k : IsFirst(c, S, k) => FirstIn(hdr, F, S, c[k]) BY FirstFound
<1> HIDE DEF c
<1>7. \A n \in Place : \A m \in 0..n - 1 : m \in Place BY <1>0 DEF Place
<1>8. \A n \in Place :
         c[n] \in S <=> c[n] # Start /\ (hdr[c[n]].size >= need \/ c[n] = End)
  BY <1>1, <1>3
<1> HIDE DEF S
<1>9. \A n \in Place : IsFirst(c, S, n) <=> P(n) BY <1>7, <1>8 DEF IsFirst
<1> HIDE DEF P
<1>10. PICK k \in Place : P(k) /\ k = CHOOSE n \in Place : P(n) BY <1>5, <1>9
<1>11. FirstIn(hdr, F, S, b) BY <1>2, <1>6, <1>9, <1>10
<1> QED BY <1>1, <1>11 DEF FirstIn, S

\* Cut finds the block before b.
Before(b) == FirstOnChain(hdr, LAMBDA a : hdr[a].next = b)

LEMMA StopsBefore ==
    ASSUME NEW F, Ordered(hdr, F), NEW b \in F,
           NEW p, p = Before(b)
    PROVE  p \in F \cup {Start} /\ hdr[p].next = b
<1> DEFINE S == {a \in F \cup {Start} : hdr[a].next = b}
           c == Chain(hdr)
           P(n) == hdr[c[n]].next = b /\ \A m \in 0..n - 1 : hdr[c[m]].next # b
           T == {n \in Place : hdr[c[n]].next = b}
<1>0. Span \in Nat /\ Span # 0 BY HeapAssumption
<1>1. InOrder(c, hdr, F) BY ChainInOrder
<1>2. p = c[CHOOSE n \in Place : P(n)] BY DEF Before, FirstOnChain
<1>3. S # {}
  <2> HIDE DEF c
  <2>1. PICK n \in Place : c[n] = b BY <1>1 DEF InOrder
  <2>2. n # 0 /\ n - 1 \in Place
    BY <2>1, <1>0, <1>1 DEF InOrder, Ordered, Start, End, Place
  <2>3. c[n - 1] \in F \cup {Start, End} BY <2>2, <1>1 DEF InOrder
  <2>4. c[n - 1] # End
    <3>1. n - 1 <= n BY <1>0, <2>1 DEF Place
    <3>2. c[n - 1] <= b BY <3>1, <2>1, <2>2, <1>1 DEF InOrder
    <3> QED BY <3>2, <1>0 DEF Ordered, End
  <2>5. hdr[c[n - 1]].next = b BY <2>1, <2>2, <2>4, <1>1 DEF InOrder
  <2> QED BY <2>3, <2>4, <2>5
<1>4. /\ \E k \in Place : Stops(T, k)
      /\ \A k : Stops(T, k) => FirstIn(hdr, F, S, c[k])
  BY <1>3, LoopStops
<1>5. \A n \in Place : \A m \in 0..n - 1 : m \in Place BY <1>0 DEF Place
<1> HIDE DEF c
<1>6. \A n \in Place : Stops(T, n) <=> P(n) BY <1>5 DEF Stops
<1> HIDE DEF P, T
<1>7. PICK k \in Place : P(k) /\ k = CHOOSE n \in Place : P(n) BY <1>4, <1>6
<1>8. FirstIn(hdr, F, S, p) BY <1>2, <1>4, <1>6, <1>7
<1> QED BY <1>8 DEF FirstIn

-----------------------------------------------------------------------------
\* The blocks B cover every byte of the heap once.
Tiled(h, B) ==
    /\ B \subseteq 0..End - 1
    /\ \A a \in B : h[a].size \in Nat \ {0} /\ a + h[a].size <= End
    /\ \A a, b \in B : a < b => a + h[a].size <= b
    /\ \A x \in 0..End - 1 : \E a \in B : a <= x /\ x < a + h[a].size

Headers(h) == h \in [Start..End -> Header] /\ h[Start].size = 0

\* The heap consists of the live blocks D and the blocks F on the chain.
Layout(h, D, F) ==
    Headers(h) /\ D \cap F = {} /\ Tiled(h, D \cup F) /\ Ordered(h, F) /\ Apart(h, F)

\* What mem_insertFreeBlock finds before it links b in: p and n are the blocks on
\* the chain below and above it.
Inserting(h, D, F, b, p, n) ==
    /\ Headers(h)
    /\ D \subseteq Int /\ F \subseteq Int
    /\ b \in 0..End - 1 /\ p \in Int /\ n \in Int
    /\ b \notin D \cup F /\ D \cap F = {}
    /\ Tiled(h, D \cup F \cup {b}) /\ Ordered(h, F) /\ Apart(h, F)
    /\ p \in F \cup {Start} /\ p < b
    /\ n \in F \cup {End} /\ b < n /\ n = h[p].next
    /\ \A a \in F : a <= p \/ n <= a

Joins(h, b, n) == b + h[b].size = n /\ n # End

\* What it makes of them: a block at f, of size s and with the link t.
Linked(h, g, f, s, t, p, b) ==
    \A a \in Start..End :
       /\ g[a].size = IF a = f THEN s ELSE h[a].size
       /\ g[a].next = IF a = f THEN t ELSE IF a = p THEN b ELSE h[a].next
       /\ g[a].valid = h[a].valid /\ g[a].list = h[a].list

LEMMA Resized ==
    ASSUME NEW e \in Header, NEW s \in 0..Span, NEW t \in 0..End
    PROVE  [e EXCEPT !.size = s, !.next = t] \in Header
BY DEF Header

LEMMA Inserted ==
    ASSUME NEW h, Headers(h), NEW b \in 0..End - 1,
           NEW p \in Start..End, p < b, NEW n \in 0..End, n = h[p].next,
           p = Below(h, b),
           NEW f, f = IF p + h[p].size = b THEN p ELSE b,
           NEW s, s = h[b].size + (IF f = p THEN h[p].size ELSE 0)
                                + (IF Joins(h, b, n) THEN h[n].size ELSE 0),
           NEW t, t = IF Joins(h, b, n) THEN h[n].next ELSE n,
           NEW g, g = InsertFreeBlock(h, b)
    PROVE  /\ Linked(h, g, f, s, t, p, b)
           /\ s \in 0..Span /\ t \in 0..End => g \in [Start..End -> Header]
<1>0. Span \in Nat /\ Start = -1 /\ End = Span BY HeapAssumption DEF Start, End
<1>1. /\ b \in Start..End /\ n \in Start..End /\ f \in Start..End
      /\ b \in Int /\ p \in Int /\ n \in Int /\ p # b
  <2>1. b \in Int /\ p \in Int /\ n \in Int BY <1>0
  <2>2. b \in Start..End BY <1>0
  <2>3. n \in Start..End BY <1>0
  <2>4. f \in {p, b} OBVIOUS
  <2>5. p # b BY <2>1
  <2> QED BY <2>1, <2>2, <2>3, <2>4, <2>5
<1>2. \A a \in Start..End : h[a].size \in Int /\ h[a] \in Header
  <2>1. \A a \in Start..End : h[a] \in Header BY DEF Headers
  <2>2. \A e \in Header : e.size \in Int BY <1>0 DEF Header
  <2> QED BY <2>1, <2>2
<1> DEFINE below == p + h[p].size = b
           size  == h[b].size + IF below THEN h[p].size ELSE 0
           joins == f + size = n /\ n # End
           new   == [h EXCEPT ![f].size = size + IF joins THEN h[n].size ELSE 0,
                              ![f].next = IF joins THEN h[n].next ELSE n]
<1>3. g = IF below THEN new ELSE [new EXCEPT ![p].next = b]
  BY DEF InsertFreeBlock, Below
<1>4. (joins <=> Joins(h, b, n)) /\ s = size + IF joins THEN h[n].size ELSE 0
  <2>1. f = p <=> below BY <1>1
  <2> DEFINE hp == h[p].size
             hb == h[b].size
             hn == h[n].size
  <2>2. hp \in Int /\ hb \in Int /\ hn \in Int BY <1>1, <1>2
  <2> HIDE DEF hp, hb, hn
  <2>3. size = hb + IF below THEN hp ELSE 0 BY DEF hp, hb
  <2>4. s = hb + (IF f = p THEN hp ELSE 0) + (IF Joins(h, b, n) THEN hn ELSE 0)
    BY DEF hp, hb, hn
  <2>5. below <=> p + hp = b BY DEF hp
  <2>6. f + size = b + hb
    <3>1. CASE below
      <4>1. f = p /\ p + hp = b /\ size = hb + hp BY <3>1, <2>1, <2>3, <2>5
      <4> QED BY <4>1, <2>2, <1>1
    <3>2. CASE ~below
      <4>1. f = b /\ size = hb + 0 BY <3>2, <2>3
      <4> QED BY <4>1, <2>2, <1>1
    <3> QED BY <3>1, <3>2
  <2>7. joins <=> (f + size = n /\ n # End) OBVIOUS
  <2>8. Joins(h, b, n) <=> b + hb = n /\ n # End BY DEF hb, Joins
  <2> HIDE DEF below, size, joins
  <2>9. size + (IF Joins(h, b, n) THEN hn ELSE 0) = s BY <2>1, <2>2, <2>3, <2>4
  <2> QED BY <2>6, <2>7, <2>8, <2>9 DEF hn
<1> HIDE DEF size, joins
<1>5. new = [h EXCEPT ![f].size = s, ![f].next = t] BY <1>4
<1>6. /\ DOMAIN new = Start..End
      /\ s \in 0..Span /\ t \in 0..End => new \in [Start..End -> Header]
      /\ \A a \in Start..End :
            /\ new[a].size = IF a = f THEN s ELSE h[a].size
            /\ new[a].next = IF a = f THEN t ELSE h[a].next
            /\ new[a].valid = h[a].valid /\ new[a].list = h[a].list
            /\ a # f => new[a] = h[a]
  <2>1. h \in [Start..End -> Header] BY DEF Headers
  <2> HIDE DEF new
  <2>0. s \in 0..Span /\ t \in 0..End => new \in [Start..End -> Header]
    <3> SUFFICES ASSUME s \in 0..Span, t \in 0..End
                 PROVE  new \in [Start..End -> Header]
      OBVIOUS
    <3>1. h[f] \in Header BY <1>1, <1>2
    <3>2. [h[f] EXCEPT !.size = s, !.next = t] \in Header BY <3>1, Resized
    <3> QED BY <2>1, <3>2, <1>1, <1>2, <1>5
  <2>2. DOMAIN new = Start..End BY <2>1, <1>5
  <2>3. \A a \in Start..End \ {f} : new[a] = h[a] BY <2>1, <1>1, <1>5
  <2>4. new[f] = [h[f] EXCEPT !.size = s, !.next = t] BY <2>1, <1>1, <1>5
  <2>5. h[f] \in Header BY <1>1, <1>2
  <2>6. new[f].size = s /\ new[f].next = t /\ new[f].valid = h[f].valid
        /\ new[f].list = h[f].list
    BY <2>4, <2>5 DEF Header
  <2> QED BY <2>0, <2>2, <2>3, <2>4, <2>6, <1>2 DEF Header
<1> HIDE DEF new
<1>7. CASE below BY <1>3, <1>6, <1>7 DEF Linked
<1>8. CASE ~below
  <2>1. g = [new EXCEPT ![p].next = b] /\ f = b BY <1>3, <1>8
  <2>2. \A a \in Start..End \ {p} : g[a] = new[a] BY <2>1, <1>6
  <2>3. g[p] = [new[p] EXCEPT !.next = b] BY <2>1, <1>6
  <2>4. new[p] \in Header BY <2>1, <1>1, <1>2, <1>6
  <2>5. g[p].next = b /\ g[p].size = new[p].size /\ g[p].valid = new[p].valid
        /\ g[p].list = new[p].list
    BY <2>3, <2>4 DEF Header
  <2>6. new \in [Start..End -> Header] => g \in [Start..End -> Header]
    <3>1. b \in 0..End BY <1>0
    <3>2. [new[p] EXCEPT !.next = b] \in Header BY <2>4, <3>1 DEF Header
    <3> QED BY <2>1, <3>2
  <2>7. \A a \in Start..End :
           /\ g[a].size = IF a = f THEN s ELSE h[a].size
           /\ g[a].next = IF a = f THEN t ELSE IF a = p THEN b ELSE h[a].next
           /\ g[a].valid = h[a].valid /\ g[a].list = h[a].list
    <3>1. p # f BY <2>1, <1>1
    <3>2. new[p].size = h[p].size /\ new[p].valid = h[p].valid
          /\ new[p].list = h[p].list
      BY <3>1, <1>6
    <3>3. ASSUME NEW a \in Start..End, a # p
          PROVE  /\ g[a].size = IF a = f THEN s ELSE h[a].size
                 /\ g[a].next = IF a = f THEN t ELSE h[a].next
                 /\ g[a].valid = h[a].valid /\ g[a].list = h[a].list
      <4>1. g[a] = new[a] BY <3>3, <2>2
      <4> QED BY <4>1, <1>6
    <3> QED BY <3>1, <3>2, <3>3, <2>5
  <2> QED BY <2>6, <2>7, <1>6 DEF Linked
<1> QED BY <1>7, <1>8

\* The blocks on the chain afterwards: b unless it became part of p, and not n if n
\* became part of either.
After(h, F, b, p, n) ==
    {a \in F \cup {b} : /\ a = b => p + h[p].size # b
                        /\ a = n => ~Joins(h, b, n)}

\* The block at f covers just the bytes of b, of p if f is p, and of n if it joined.
Covers(h, D, F, G, b, p, n, f, s, t) ==
    /\ f \in G /\ f \in Int /\ s \in Nat \ {0} /\ p <= f /\ f <= b
    /\ f + s <= End /\ b + h[b].size <= f + s /\ h[b].size \in Nat \ {0}
    /\ f = b \/ (f = p /\ p \in F /\ p + h[p].size = b /\ b \notin G)
    /\ f = b => p + h[p].size # b
    /\ G \subseteq F \cup {b} /\ (b \in G => f = b)
    /\ \/ /\ n \in G \cup {End} /\ t = n
          /\ f + s = b + h[b].size /\ (n # End => f + s # n)
       \/ /\ n \in F /\ n \notin G /\ t = h[n].next
          /\ n = b + h[b].size /\ f + s = n + h[n].size
    /\ \A a \in F : a \in G \/ a = n
    /\ \A a \in F \cap G : a # f => a < p \/ a = p \/ n <= a
    /\ t \in G \cup {End} /\ f < t

LEMMA Covering ==
    ASSUME NEW h, NEW D, NEW F, NEW b, NEW p, NEW n, Inserting(h, D, F, b, p, n),
           NEW f, f = IF p + h[p].size = b THEN p ELSE b,
           NEW s, s = h[b].size + (IF f = p THEN h[p].size ELSE 0)
                                + (IF Joins(h, b, n) THEN h[n].size ELSE 0),
           NEW t, t = IF Joins(h, b, n) THEN h[n].next ELSE n
    PROVE  Covers(h, D, F, After(h, F, b, p, n), b, p, n, f, s, t)
<1> DEFINE G == After(h, F, b, p, n)
<1>0. Span \in Nat /\ Start = -1 /\ End = Span BY HeapAssumption DEF Start, End
<1> USE DEF Inserting
<1>1. /\ F \subseteq 0..End - 1 /\ Start \notin F /\ End \notin F
      /\ \A a \in F \cup {b} : h[a].size \in Nat \ {0} /\ a + h[a].size <= End
  BY <1>0 DEF Tiled
<1>2. h[Start].size = 0 BY DEF Headers
<1>3. p + h[p].size = b => p \in F /\ f = p BY <1>0, <1>1, <1>2
<1>4. p + h[p].size # b => f = b /\ f # p BY <1>0
<1>5. \A a \in F : b < a => b + h[b].size <= a BY <1>1 DEF Tiled
<1>6. Joins(h, b, n) => n \in F /\ n = b + h[b].size
  BY DEF Joins
<1>7. b \notin F /\ p # b /\ n # b /\ p < n BY <1>0
<1> DEFINE hb == h[b].size
           hp == IF f = p THEN h[p].size ELSE 0
           hn == IF Joins(h, b, n) THEN h[n].size ELSE 0
<1>8. hb \in Nat \ {0} /\ hp \in Nat /\ hn \in Nat /\ s = hb + hp + hn
  <2>1. f = p => h[p].size \in Nat BY <1>1, <1>3, <1>4
  <2>2. Joins(h, b, n) => h[n].size \in Nat BY <1>1, <1>6
  <2> QED BY <2>1, <2>2, <1>1
<1>9. f + hp = b /\ f \in Int
  <2>1. CASE p + h[p].size = b
    <3>1. h[p].size \in Nat BY <2>1, <1>1, <1>3
    <3> QED BY <2>1, <3>1, <1>3
  <2>2. CASE p + h[p].size # b BY <2>2, <1>4
  <2> QED BY <2>1, <2>2
<1> HIDE DEF hb, hp, hn
<1>10. s \in Nat \ {0} /\ f + s = b + hb + hn BY <1>8, <1>9
<1>11. f \in G
  <2>1. CASE p + h[p].size = b BY <2>1, <1>3, <1>7 DEF After
  <2>2. CASE p + h[p].size # b BY <2>2, <1>4, <1>7 DEF After
  <2> QED BY <2>1, <2>2
<1>12. p <= f /\ f <= b BY <1>3, <1>4
<1>13. ASSUME Joins(h, b, n)
       PROVE  /\ n \in F /\ n \notin G /\ t = h[n].next /\ n = b + h[b].size
              /\ f + s = n + h[n].size /\ t \in F \cup {End} /\ n < t
              /\ n + h[n].size <= End
  <2>1. n \in F /\ n = b + h[b].size BY <1>13, <1>6
  <2>2. n \notin G BY <1>13 DEF After
  <2>3. hn = h[n].size BY <1>13 DEF hn
  <2>4. f + s = n + h[n].size
    <3>1. f + s = n + hn BY <2>1, <1>8, <1>10 DEF hb
    <3> QED BY <3>1, <2>3
  <2>5. t = h[n].next BY <1>13
  <2>6. t \in F \cup {End} /\ n < t BY <2>1, <2>5 DEF Ordered
  <2> QED BY <2>1, <2>2, <2>4, <2>5, <2>6, <1>1
<1>14. ASSUME ~Joins(h, b, n)
       PROVE  n \in G \cup {End} /\ t = n /\ f + s = b + h[b].size
              /\ (n # End => f + s # n)
  <2>1. hn = 0 BY <1>14 DEF hn
  <2>2. f + s = b + hb BY <2>1, <1>8, <1>10
  <2>3. n \in G \cup {End} BY <1>14, <1>7 DEF After
  <2> QED BY <2>2, <2>3, <1>14 DEF hb, Joins
<1>15. f + s <= End /\ b + h[b].size <= f + s
  <2>1. b + hb <= f + s BY <1>8, <1>10
  <2>2. b + hb <= End BY <1>1 DEF hb
  <2> QED BY <2>1, <2>2, <1>13, <1>14 DEF hb
<1>16. t \in G \cup {End} /\ f < t
  <2>1. CASE Joins(h, b, n)
    <3>0. \A e \in F \cup {End} : e \in Int BY <1>0
    <3>1. t \in F \cup {End} /\ n < t /\ t \in Int BY <2>1, <3>0, <1>13
    <3>2. t # b /\ t # n /\ f < t BY <3>1, <1>9, <1>12
    <3> QED BY <3>1, <3>2 DEF After
  <2>2. CASE ~Joins(h, b, n) BY <2>2, <1>9, <1>12, <1>14
  <2> QED BY <2>1, <2>2
<1>17. /\ f = b \/ (f = p /\ p \in F /\ p + h[p].size = b /\ b \notin G)
       /\ f = b => p + h[p].size # b
       /\ G \subseteq F \cup {b} /\ (b \in G => f = b)
  BY <1>3, <1>4, <1>7 DEF After
<1>18. \A a \in F : a \in G \/ a = n BY <1>7 DEF After
<1>19. \A a \in F \cap G : a # f => a < p \/ a = p \/ n <= a
  <2> SUFFICES ASSUME NEW a \in F PROVE a < p \/ a = p \/ n <= a OBVIOUS
  <2>1. a \in Int /\ (a <= p \/ n <= a) OBVIOUS
  <2> QED BY <2>1
<1> HIDE DEF Inserting, G
<1>20. f \in Int /\ h[b].size \in Nat \ {0} BY <1>8, <1>9 DEF hb
<1>21. \/ /\ n \in G \cup {End} /\ t = n /\ f + s = b + h[b].size
          /\ n # End => f + s # n
       \/ /\ n \in F /\ n \notin G /\ t = h[n].next
          /\ n = b + h[b].size /\ f + s = n + h[n].size
  BY <1>13, <1>14
<1> QED
  BY <1>10, <1>11, <1>12, <1>15, <1>16, <1>17, <1>18, <1>19, <1>20, <1>21
  DEF Covers, G

\* A block that ends up on the chain is the new one at f or an old one, unchanged.
Keeps(h, g, D, F, G, b, p, f, s, t) ==
    /\ g[f].size = s /\ g[f].next = t
    /\ \A a \in D \cup G : a # f => /\ a \in D \cup F /\ a # b /\ a \in Int
                                    /\ g[a].size = h[a].size
    /\ \A a \in G \cup {Start} : a # f =>
          /\ a \in F \cup {Start}
          /\ g[a].next = IF a = p THEN b ELSE h[a].next

LEMMA Kept ==
    ASSUME NEW h, NEW g, NEW D, NEW F, NEW G, NEW b, NEW p, NEW n,
           Inserting(h, D, F, b, p, n),
           NEW f, NEW s, NEW t, Covers(h, D, F, G, b, p, n, f, s, t),
           Linked(h, g, f, s, t, p, b)
    PROVE  Keeps(h, g, D, F, G, b, p, f, s, t)
<1>0. Span \in Nat /\ Start = -1 /\ End = Span BY HeapAssumption DEF Start, End
<1>1. D \cup F \cup {b} \subseteq Start..End /\ Start \in Start..End
  BY <1>0 DEF Inserting, Tiled
<1>2. f \in F \cup {b} BY DEF Covers
<1>3. f \in Start..End BY <1>1, <1>2
<1>4. g[f].size = s /\ g[f].next = t BY <1>3 DEF Linked
<1>5. ASSUME NEW a \in D \cup G, a # f
      PROVE  a \in D \cup F /\ a # b /\ a \in Int /\ g[a].size = h[a].size
  <2>1. a \in D \cup F /\ a # b BY <1>5 DEF Covers, Inserting
  <2>2. a \in Start..End BY <2>1, <1>1
  <2> QED BY <2>1, <2>2, <1>0, <1>5 DEF Linked
<1>6. ASSUME NEW a \in G \cup {Start}, a # f
      PROVE  /\ a \in F \cup {Start}
             /\ g[a].next = IF a = p THEN b ELSE h[a].next
  <2>1. a \in F \cup {Start} BY <1>6 DEF Covers
  <2>2. a \in Start..End BY <2>1, <1>1
  <2> QED BY <2>1, <2>2, <1>6 DEF Linked
<1> QED BY <1>4, <1>5, <1>6 DEF Keeps

LEMMA InsertedOrdered ==
    ASSUME NEW h, NEW g, NEW D, NEW F, NEW G, NEW b, NEW p, NEW n,
           Inserting(h, D, F, b, p, n),
           NEW f, NEW s, NEW t, Covers(h, D, F, G, b, p, n, f, s, t),
           Linked(h, g, f, s, t, p, b)
    PROVE  Ordered(g, G)
<1>0. Span \in Nat /\ Start = -1 /\ End = Span BY HeapAssumption DEF Start, End
<1>j. Keeps(h, g, D, F, G, b, p, f, s, t) BY Kept
<1>k. /\ g[f].size = s /\ g[f].next = t
      /\ \A a \in D \cup G : a # f => /\ a \in D \cup F /\ a # b /\ a \in Int
                                      /\ g[a].size = h[a].size
      /\ \A a \in G \cup {Start} : a # f =>
            /\ a \in F \cup {Start}
            /\ g[a].next = IF a = p THEN b ELSE h[a].next
  BY <1>j DEF Keeps
<1>1. F \subseteq 0..End - 1 /\ G \subseteq 0..End - 1
  BY DEF Inserting, Covers, Tiled
<1>2. f \in Int /\ b \in Int /\ p \in Int /\ n \in Int /\ p < b /\ b < n
  BY DEF Inserting, Covers
<1>3. \A a \in G \cup {End} : a \in Int BY <1>0, <1>1
<1>4. ASSUME NEW c \in G, f < c PROVE g[f].next <= c
  <2>1. c \in F /\ c \in Int /\ p < c /\ t \in Int
    BY <1>2, <1>3, <1>4 DEF Covers
  <2>2. n <= c BY <2>1, <1>2 DEF Inserting
  <2>3. t <= c
    <3>1. CASE t = n BY <3>1, <2>2
    <3>2. CASE n \in F /\ n \notin G /\ t = h[n].next
      <4>1. n < c BY <3>2, <2>1, <2>2, <1>2, <1>4
      <4> QED BY <4>1, <3>2, <2>1 DEF Inserting, Ordered
    <3> QED BY <3>1, <3>2 DEF Covers
  <2> QED BY <2>3, <1>k
<1>5. ASSUME NEW a \in G \cup {Start}, a # f
      PROVE  /\ g[a].next \in G \cup {End} /\ a < g[a].next
             /\ \A c \in G : a < c => g[a].next <= c
  <2>1. a \in F \cup {Start} /\ a \in Int
        /\ g[a].next = IF a = p THEN b ELSE h[a].next
    BY <1>0, <1>3, <1>5, <1>k
  <2>2. CASE a = p
    <3>1. f = b /\ g[a].next = b /\ b \in G BY <2>1, <2>2, <1>5 DEF Covers
    <3>2. ASSUME NEW c \in G, a < c PROVE b <= c
      <4>1. c = b \/ c \in F BY DEF Covers
      <4>2. c \in F => n <= c
        <5>1. c \in Int /\ ~(c <= p) BY <3>2, <2>2, <1>2, <1>3
        <5> QED BY <5>1 DEF Inserting
      <4> QED BY <4>1, <4>2, <1>2, <1>3
    <3> QED BY <3>1, <3>2, <2>2, <1>2
  <2>3. CASE a # p
    <3> DEFINE m == h[a].next
    <3>1. g[a].next = m BY <2>1, <2>3
    <3>2. m \in F \cup {End} /\ a < m /\ \A c \in F : a < c => m <= c
      BY <2>1 DEF Inserting, Ordered
    <3>3. m \in Int BY <3>2, <1>0, <1>1
    <3> HIDE DEF m
    <3>4. a < p \/ n <= a
      <4>1. a = Start => a < p BY <2>3, <1>0, <1>1 DEF Inserting
      <4>2. a \in F => a < p \/ n <= a BY <2>1, <2>3, <1>2 DEF Inserting
      <4> QED BY <2>1, <4>1, <4>2
    <3>5. a < p => m <= p /\ p \in F
      <4>1. a < p => p # Start
        <5>1. a >= Start BY <2>1, <1>0, <1>1
        <5> QED BY <5>1, <2>1, <1>0
      <4> QED BY <4>1, <3>2 DEF Inserting
    <3>6. m # n BY <3>2, <3>3, <3>4, <3>5, <2>1, <1>2
    <3>7. m \in G \cup {End} BY <3>2, <3>6 DEF Covers
    <3>8. ASSUME NEW c \in G, a < c PROVE m <= c
      <4>1. c \in F => m <= c BY <3>2, <3>8
      <4>2. c = b => m <= c BY <3>3, <3>4, <3>5, <3>8, <2>1, <1>2
      <4> QED BY <4>1, <4>2 DEF Covers
    <3> QED BY <3>1, <3>2, <3>7, <3>8
  <2> QED BY <2>2, <2>3
<1>6. g[f].next \in G \cup {End} /\ f < g[f].next BY <1>k DEF Covers
<1> QED BY <1>1, <1>4, <1>5, <1>6 DEF Ordered

LEMMA InsertedApart ==
    ASSUME NEW h, NEW g, NEW D, NEW F, NEW G, NEW b, NEW p, NEW n,
           Inserting(h, D, F, b, p, n),
           NEW f, NEW s, NEW t, Covers(h, D, F, G, b, p, n, f, s, t),
           Linked(h, g, f, s, t, p, b)
    PROVE  Apart(g, G)
<1>0. Span \in Nat /\ Start = -1 /\ End = Span BY HeapAssumption DEF Start, End
<1>j. Keeps(h, g, D, F, G, b, p, f, s, t) BY Kept
<1>k. /\ g[f].size = s /\ g[f].next = t
      /\ \A a \in D \cup G : a # f => /\ a \in D \cup F /\ a # b /\ a \in Int
                                      /\ g[a].size = h[a].size
      /\ \A a \in G \cup {Start} : a # f =>
            /\ a \in F \cup {Start}
            /\ g[a].next = IF a = p THEN b ELSE h[a].next
  BY <1>j DEF Keeps
<1>1. F \subseteq 0..End - 1 /\ G \subseteq 0..End - 1
  BY DEF Inserting, Covers, Tiled
<1>2. /\ f \in Int /\ b \in Int /\ p \in Int /\ n \in Int /\ p < b /\ b < n
      /\ s \in Nat \ {0} /\ h[b].size \in Nat \ {0} /\ b + h[b].size <= f + s
  BY DEF Inserting, Covers
<1>3. \A a \in F \cup {b} : a \in Int /\ h[a].size \in Nat \ {0}
  BY <1>1, <1>2 DEF Inserting, Tiled
<1>4. ASSUME NEW y \in G PROVE f + g[f].size # y
  <2>1. g[f].size = s BY <1>k
  <2>2. y \in F \/ y = b BY DEF Covers
  <2>3. CASE y = b BY <2>1, <2>3, <1>2
  <2>4. CASE y \in F
    <3>1. CASE n \in F /\ f + s = n + h[n].size
      BY <3>1, <2>1, <2>4 DEF Inserting, Apart
    <3>2. CASE n \in G \cup {End} /\ f + s = b + h[b].size /\ (n # End => f + s # n)
      <4> SUFFICES ASSUME f + s = y PROVE FALSE BY <2>1
      <4>1. y \in Int /\ p < y BY <2>4, <3>2, <1>1, <1>2
      <4>2. n <= y BY <4>1, <2>4, <1>2 DEF Inserting
      <4>3. n # End /\ n \in F
        <5>1. y < End /\ y \in Int BY <2>4, <1>0, <1>1
        <5>2. n # End BY <5>1, <4>2, <1>0
        <5> QED BY <5>2 DEF Inserting
      <4>4. b + h[b].size <= n BY <4>3, <1>2 DEF Inserting, Tiled
      <4> QED BY <4>2, <4>3, <4>4, <3>2, <1>2
    <3> QED BY <3>1, <3>2 DEF Covers
  <2> QED BY <2>2, <2>3, <2>4
<1>5. ASSUME NEW x \in G, x # f, NEW y \in G PROVE x + g[x].size # y
  <2>1. x \in F /\ x # b /\ g[x].size = h[x].size
    <3>1. x # b /\ g[x].size = h[x].size BY <1>5, <1>k
    <3> QED BY <3>1 DEF Covers
  <2>2. y \in F \/ (y = b /\ f = b) BY DEF Covers
  <2>3. CASE y \in F BY <2>1, <2>3 DEF Inserting, Apart
  <2>4. CASE y = b /\ f = b
    <3> DEFINE sx == h[x].size
    <3>1. x \in Int /\ sx \in Nat \ {0} BY <2>1, <1>3
    <3> SUFFICES ASSUME x + sx = b PROVE FALSE BY <2>1, <2>4
    <3> HIDE DEF sx
    <3>2. x < b BY <3>1, <1>2
    <3>3. x <= p BY <3>1, <3>2, <2>1, <1>2 DEF Inserting
    <3>4. p \in F
      <4>1. p # Start BY <3>3, <2>1, <1>0, <1>1
      <4> QED BY <4>1 DEF Inserting
    <3>5. x # p BY <2>4 DEF Covers, sx
    <3>6. x < p BY <3>1, <3>3, <3>5, <1>2
    <3>7. x + sx <= p BY <3>4, <3>6, <2>1 DEF Inserting, Tiled, sx
    <3> QED BY <3>1, <3>7, <1>2
  <2> QED BY <2>2, <2>3, <2>4
<1> QED BY <1>4, <1>5 DEF Apart

LEMMA InsertedTiled ==
    ASSUME NEW h, NEW g, NEW D, NEW F, NEW G, NEW b, NEW p, NEW n,
           Inserting(h, D, F, b, p, n),
           NEW f, NEW s, NEW t, Covers(h, D, F, G, b, p, n, f, s, t),
           Linked(h, g, f, s, t, p, b)
    PROVE  Tiled(g, D \cup G)
<1>0. Span \in Nat /\ Start = -1 /\ End = Span BY HeapAssumption DEF Start, End
<1>j. Keeps(h, g, D, F, G, b, p, f, s, t) BY Kept
<1>k. /\ g[f].size = s
      /\ \A a \in D \cup G : a # f => /\ a \in D \cup F /\ a # b /\ a \in Int
                                      /\ g[a].size = h[a].size
  BY <1>j DEF Keeps
<1> DEFINE B == D \cup F \cup {b}
           S(a) == h[a].size
<1>1. /\ B \subseteq 0..End - 1
      /\ \A a \in B : a \in Int /\ S(a) \in Nat \ {0} /\ a + S(a) <= End
      /\ \A a, c \in B : a < c => a + S(a) <= c
      /\ \A x \in 0..End - 1 : \E a \in B : a <= x /\ x < a + S(a)
  BY <1>0 DEF Inserting, Tiled
<1>2. /\ f \in Int /\ b \in Int /\ p \in Int /\ n \in Int /\ p < b /\ b < n
      /\ s \in Nat \ {0} /\ f + s <= End /\ p <= f /\ f <= b
      /\ b + S(b) <= f + s /\ f \in G
  BY DEF Inserting, Covers
<1>3. D \cup G \subseteq B BY DEF Covers
<1>4. ASSUME NEW a \in D \cup G
      PROVE  g[a].size \in Nat \ {0} /\ a + g[a].size <= End
  <2>1. CASE a = f BY <2>1, <1>2, <1>k
  <2>2. CASE a # f
    <3>1. a \in B /\ g[a].size = S(a) BY <2>2, <1>3, <1>k
    <3> QED BY <3>1, <1>1
  <2> QED BY <2>1, <2>2
\* Whatever starts above f starts above all that the block at f covers.
<1>5. ASSUME NEW c \in D \cup G, f < c PROVE f + s <= c
  <2>1. c \in B /\ c # f /\ c # b /\ c \in Int BY <1>2, <1>3, <1>5, <1>k
  <2>2. b < c
    <3>1. f = b \/ (f = p /\ p \in F /\ p + S(p) = b) BY DEF Covers
    <3>2. CASE f = b BY <3>2, <1>5
    <3>3. CASE f = p /\ p \in F /\ p + S(p) = b
      <4>1. p + S(p) <= c BY <3>3, <2>1, <1>1, <1>5
      <4> QED BY <4>1, <3>3, <2>1, <1>2
    <3> QED BY <3>1, <3>2, <3>3
  <2>3. b + S(b) <= c BY <2>1, <2>2, <1>1
  <2>4. CASE f + s = b + S(b) BY <2>3, <2>4
  <2>5. CASE n \in F /\ n \notin G /\ n = b + S(b) /\ f + s = n + S(n)
    <3>1. c # n BY <2>5 DEF Inserting
    <3>2. n < c BY <3>1, <2>1, <2>3, <2>5, <1>2
    <3>3. n + S(n) <= c BY <3>2, <2>1, <2>5, <1>1
    <3> QED BY <3>3, <2>5
  <2> QED BY <2>4, <2>5 DEF Covers
<1>6. ASSUME NEW a \in D \cup G, NEW c \in D \cup G, a < c
      PROVE  a + g[a].size <= c
  <2>1. CASE a = f BY <2>1, <1>5, <1>6, <1>k
  <2>2. CASE a # f
    <3>1. a \in B /\ c \in B /\ g[a].size = S(a) BY <2>2, <1>3, <1>k
    <3> QED BY <3>1, <1>1, <1>6
  <2> QED BY <2>1, <2>2
<1>7. ASSUME NEW x \in 0..End - 1
      PROVE  \E a \in D \cup G : a <= x /\ x < a + g[a].size
  <2>0. x \in Int BY <1>0
  <2>1. PICK a \in B : a <= x /\ x < a + S(a) BY <1>1
  <2>2. a \in Int /\ S(a) \in Int BY <1>1
  <2>3. CASE a \in D \cup G /\ a # f BY <2>1, <2>3, <1>k
  <2>4. CASE a \notin D \cup G \/ a = f
    <3> SUFFICES f <= x /\ x < f + s BY <1>2, <1>k
    <3>1. a = f \/ a = b \/ (a = n /\ n \in F /\ n \notin G) BY <2>4 DEF Covers
    <3>2. ASSUME a = f PROVE a + S(a) <= f + s
      <4>1. f = b \/ (f = p /\ p + S(p) = b) BY DEF Covers
      <4>2. S(b) \in Nat BY <1>1
      <4> QED BY <4>1, <4>2, <3>2, <1>2
    <3>3. ASSUME a = n, n \in F, n \notin G PROVE a + S(a) <= f + s
      <4>1. f + s = n + S(n)
        <5>1. n # End BY <3>3, <1>0, <1>1
        <5> QED BY <5>1, <3>3 DEF Covers
      <4>2. S(n) \in Int BY <3>3, <1>1
      <4> QED BY <4>1, <4>2, <3>3, <1>2
    <3>4. CASE a = b BY <3>4, <2>0, <2>1, <2>2, <1>2
    <3>5. CASE a = f BY <3>5, <3>2, <2>0, <2>1, <2>2, <1>2
    <3>6. CASE a = n /\ n \in F /\ n \notin G
      BY <3>6, <3>3, <2>0, <2>1, <2>2, <1>2
    <3> QED BY <3>1, <3>4, <3>5, <3>6
  <2> QED BY <2>3, <2>4
<1>8. D \cup G \subseteq 0..End - 1 BY <1>1, <1>3
<1> QED BY <1>4, <1>6, <1>7, <1>8 DEF Tiled

\* mem_insertFreeBlock puts block b on the chain, alone or as part of its neighbours,
\* and leaves the live blocks alone.
LEMMA Insertion ==
    ASSUME NEW h, NEW D, NEW F, NEW b \in 0..End - 1,
           Headers(h), b \notin D \cup F, D \cap F = {},
           Tiled(h, D \cup F \cup {b}), Ordered(h, F), Apart(h, F),
           NEW g, g = InsertFreeBlock(h, b)
    PROVE  /\ \E G : G \subseteq F \cup {b} /\ Layout(g, D, G)
           /\ \A a \in D : g[a].size = h[a].size /\ g[a].next = h[a].next
           /\ \A a \in 0..End - 1 : g[a].valid = h[a].valid /\ g[a].list = h[a].list
<1>0. Span \in Nat /\ Start = -1 /\ End = Span BY HeapAssumption DEF Start, End
<1> DEFINE p == Below(h, b)
           n == h[p].next
           f == IF p + h[p].size = b THEN p ELSE b
           s == h[b].size + (IF f = p THEN h[p].size ELSE 0)
                          + (IF Joins(h, b, n) THEN h[n].size ELSE 0)
           t == IF Joins(h, b, n) THEN h[n].next ELSE n
           G == After(h, F, b, p, n)
<1>1. D \subseteq 0..End - 1 /\ F \subseteq 0..End - 1 BY DEF Tiled
<1>2. /\ p \in F \cup {Start} /\ p < b
      /\ n \in F \cup {End} /\ b < n
      /\ \A a \in F : a <= p \/ n <= a
  BY <1>1, StopsBelow
<1> HIDE DEF p
<1> HIDE DEF n
<1>3. p \in Start..End /\ n \in 0..End
  <2>1. F \cup {Start} \subseteq Start..End /\ F \cup {End} \subseteq 0..End
    BY <1>0, <1>1
  <2> QED BY <2>1, <1>2
<1>4. Inserting(h, D, F, b, p, n) BY <1>0, <1>1, <1>2, <1>3 DEF Inserting, n
<1>5. Covers(h, D, F, G, b, p, n, f, s, t) BY <1>4, Covering
<1>6. /\ Linked(h, g, f, s, t, p, b)
      /\ s \in 0..Span /\ t \in 0..End => g \in [Start..End -> Header]
  BY <1>2, <1>3, Inserted DEF p, n
<1> HIDE DEF f, s, t, G
<1>7. Ordered(g, G) BY <1>4, <1>5, <1>6, InsertedOrdered
<1>8. Apart(g, G) BY <1>4, <1>5, <1>6, InsertedApart
<1>9. Tiled(g, D \cup G) BY <1>4, <1>5, <1>6, InsertedTiled
<1>10. G \subseteq F \cup {b} BY <1>5 DEF Covers
<1>11. g \in [Start..End -> Header]
  <2>1. s \in Nat /\ f \in Int /\ f + s <= End /\ f \in G /\ t \in G \cup {End}
    BY <1>5 DEF Covers
  <2>2. f >= 0 /\ t \in 0..End BY <2>1, <1>0, <1>1, <1>10
  <2> QED BY <2>1, <2>2, <1>0, <1>6
<1>12. g[Start].size = 0
  <2>1. Start # f /\ Start \in Start..End
    BY <1>0, <1>1, <1>5, <1>10 DEF Covers
  <2> QED BY <2>1, <1>6 DEF Headers, Linked
<1>13. Layout(g, D, G)
  <2>1. D \cap G = {} BY <1>10
  <2> QED BY <2>1, <1>7, <1>8, <1>9, <1>11, <1>12 DEF Layout, Headers
<1>14. \A a \in D : g[a].size = h[a].size /\ g[a].next = h[a].next
  <2> SUFFICES ASSUME NEW a \in D
               PROVE  g[a].size = h[a].size /\ g[a].next = h[a].next
    OBVIOUS
  <2>1. a \in Start..End /\ a # f BY <1>0, <1>1, <1>5, <1>10 DEF Covers
  <2>2. a # p BY <1>0, <1>1, <1>2
  <2> QED BY <2>1, <2>2, <1>6 DEF Linked
<1>15. \A a \in 0..End - 1 : a \in Start..End BY <1>0
<1> QED BY <1>6, <1>10, <1>13, <1>14, <1>15 DEF Linked

\* Only sizes and the links of the chain matter.
LEMMA SameLayout ==
    ASSUME NEW h, NEW g, NEW D, NEW F, Layout(h, D, F), Headers(g),
           \A a \in D \cup F : g[a].size = h[a].size,
           \A a \in F \cup {Start} : g[a].next = h[a].next
    PROVE  Layout(g, D, F)
<1>1. Tiled(g, D \cup F) BY DEF Layout, Tiled
<1>2. Ordered(g, F) BY DEF Layout, Ordered
<1>3. Apart(g, F) BY DEF Layout, Apart
<1> QED BY <1>1, <1>2, <1>3 DEF Layout

\* Two heaps that differ in links only, or in links and the sizes of two blocks.
Relinked(g, h) ==
    \A a \in Start..End : /\ g[a].size = h[a].size
                          /\ g[a].valid = h[a].valid /\ g[a].list = h[a].list

Resizes(g, h, b, c) ==
    \A a \in Start..End :
       /\ a \notin {b, c} => g[a].size = h[a].size
       /\ g[a].next = h[a].next
       /\ g[a].valid = h[a].valid /\ g[a].list = h[a].list

SameLinks(g, h, D) == \A a \in D : g[a].next = h[a].next

\* The block before b is linked to the block behind it.
LEMMA Unlinked ==
    ASSUME NEW D, NEW F, Layout(hdr, D, F), NEW b \in F,
           NEW p, p \in F \cup {Start}, hdr[p].next = b,
           NEW g, g = [hdr EXCEPT ![p].next = hdr[b].next]
    PROVE  /\ Headers(g) /\ Ordered(g, F \ {b}) /\ Apart(g, F \ {b})
           /\ Relinked(g, hdr) /\ SameLinks(g, hdr, D)
<1>0. Span \in Nat /\ Start = -1 /\ End = Span BY HeapAssumption DEF Start, End
<1>1. /\ hdr \in [Start..End -> Header] /\ hdr[Start].size = 0
      /\ F \subseteq 0..End - 1
  BY DEF Layout, Headers, Ordered
<1>2. /\ p \in Start..End /\ b \in Start..End /\ Start \in Start..End
      /\ p \in Int /\ b \in Int
  BY <1>0, <1>1
<1>3. hdr[p] \in Header /\ hdr[b].next \in 0..End \cup {Nowhere}
  BY <1>1, <1>2 DEF Header
<1>4. [hdr[p] EXCEPT !.next = hdr[b].next] \in Header BY <1>3 DEF Header
<1>5. g \in [Start..End -> Header] BY <1>1, <1>2, <1>4
<1>6. \A a \in Start..End : /\ g[a].size = hdr[a].size /\ g[a].valid = hdr[a].valid
                            /\ g[a].list = hdr[a].list
                            /\ g[a].next = IF a = p THEN hdr[b].next ELSE hdr[a].next
  <2>1. \A a \in Start..End : a # p => g[a] = hdr[a] BY <1>1
  <2>2. g[p] = [hdr[p] EXCEPT !.next = hdr[b].next] BY <1>1, <1>2
  <2> QED BY <2>1, <2>2, <1>3 DEF Header
<1>7. \A a \in F \cup {Start} : a \in Start..End /\ a \in Int BY <1>0, <1>1
<1>8. Headers(g) BY <1>1, <1>2, <1>5, <1>6 DEF Headers
<1>9. Ordered(g, F \ {b})
  <2> SUFFICES ASSUME NEW a \in (F \ {b}) \cup {Start}
               PROVE  /\ g[a].next \in (F \ {b}) \cup {End} /\ a < g[a].next
                      /\ \A c \in F \ {b} : a < c => g[a].next <= c
    BY <1>1 DEF Ordered
  <2>1. /\ hdr[a].next \in F \cup {End} /\ a < hdr[a].next
        /\ \A c \in F : a < c => hdr[a].next <= c
        /\ hdr[b].next \in F \cup {End} /\ b < hdr[b].next
        /\ \A c \in F : b < c => hdr[b].next <= c
        /\ p < b /\ \A c \in F : p < c => b <= c
    BY DEF Layout, Ordered
  <2>2. \A e \in F \cup {End} : e \in Int BY <1>0, <1>1
  <2>3. CASE a = p
    <3> DEFINE m == hdr[b].next
    <3>1. g[a].next = m /\ m \in F \cup {End} /\ b < m /\ m \in Int
      BY <2>1, <2>2, <2>3, <1>2, <1>6
    <3> HIDE DEF m
    <3>2. a < m /\ m # b BY <3>1, <2>1, <2>3, <1>2
    <3>3. ASSUME NEW c \in F \ {b}, a < c PROVE m <= c
      <4>1. b < c BY <3>3, <2>1, <2>2, <2>3, <1>2
      <4> QED BY <4>1, <2>1 DEF m
    <3> QED BY <3>1, <3>2, <3>3
  <2>4. CASE a # p
    <3>1. g[a].next = hdr[a].next BY <2>4, <1>6, <1>7
    <3>2. hdr[a].next # b
      <4> SUFFICES ASSUME hdr[a].next = b PROVE FALSE OBVIOUS
      <4>1. a \in Int /\ a < b BY <2>1, <1>7
      <4>2. ~(p < a)
        <5>1. p < a => a \in F BY <1>0, <1>2, <4>1, <1>1
        <5> QED BY <5>1, <4>1, <2>1, <1>2
      <4>3. ~(a < p)
        <5>1. a < p => p \in F BY <1>0, <1>2, <4>1, <1>1
        <5> QED BY <5>1, <4>1, <2>1, <1>2
      <4> QED BY <4>1, <4>2, <4>3, <2>4, <1>2
    <3> QED BY <3>1, <3>2, <2>1
  <2> QED BY <2>3, <2>4
<1>10. Apart(g, F \ {b}) BY <1>6, <1>7 DEF Layout, Apart
<1>11. \A a \in D : g[a].next = hdr[a].next
  <2>1. \A a \in D : a \in Start..End /\ a # p BY <1>0 DEF Layout, Tiled
  <2> QED BY <2>1, <1>6
<1> QED BY <1>6, <1>8, <1>9, <1>10, <1>11 DEF Relinked, SameLinks

\* A block can be cut in two.
Split(h, b, c, need) ==
    [h EXCEPT ![b].size = need, ![c].size = h[b].size - need]

Halves(g, h, B, b, c, need) ==
    /\ Headers(g) /\ c \in (0..End - 1) \ B /\ Tiled(g, B \cup {c})
    /\ Resizes(g, h, b, c) /\ g[b].size = need

LEMMA Halved ==
    ASSUME NEW h, NEW B, Headers(h), Tiled(h, B), NEW b \in B,
           NEW need \in Nat \ {0}, need < h[b].size,
           NEW c, c = b + need,
           NEW g, g = Split(h, b, c, need)
    PROVE  Halves(g, h, B, b, c, need)
<1>0. Span \in Nat /\ Start = -1 /\ End = Span BY HeapAssumption DEF Start, End
<1> DEFINE S(a) == h[a].size
           rest == h[b].size - need
<1>1. /\ B \subseteq 0..End - 1
      /\ \A a \in B : a \in Int /\ S(a) \in Nat \ {0} /\ a + S(a) <= End
      /\ \A a, d \in B : a < d => a + S(a) <= d
      /\ \A x \in 0..End - 1 : \E a \in B : a <= x /\ x < a + S(a)
  BY <1>0 DEF Tiled
<1>2. /\ b \in Int /\ c \in Int /\ rest \in Nat \ {0} /\ c + rest = b + S(b)
      /\ b < c /\ c < b + S(b) /\ c \in 0..End - 1 /\ b + S(b) <= End
      /\ 0 <= b
  BY <1>0, <1>1
<1>3. c \notin B
  <2> SUFFICES ASSUME c \in B PROVE FALSE OBVIOUS
  <2>1. b + S(b) <= c BY <1>1, <1>2
  <2> QED BY <2>1, <1>1, <1>2
<1>4. h \in [Start..End -> Header] /\ h[Start].size = 0 BY DEF Headers
<1>5. b \in Start..End /\ c \in Start..End /\ b # c BY <1>0, <1>2
<1> HIDE DEF rest
<1>6. g = [h EXCEPT ![b].size = need, ![c].size = rest] BY DEF Split, rest
<1>7. need \in 0..Span /\ rest \in 0..Span
  <2>1. S(b) \in Nat BY <1>1
  <2>2. S(b) <= Span BY <2>1, <1>0, <1>2
  <2>3. need + rest = S(b) BY <2>1, <1>2
  <2> HIDE DEF S
  <2> QED BY <2>1, <2>2, <2>3, <1>0, <1>2
<1>8. /\ \A a \in Start..End : a \notin {b, c} => g[a] = h[a]
      /\ g[b] = [h[b] EXCEPT !.size = need] /\ g[c] = [h[c] EXCEPT !.size = rest]
      /\ DOMAIN g = Start..End
  BY <1>4, <1>5, <1>6
<1>9. h[b] \in Header /\ h[c] \in Header BY <1>4, <1>5
<1>10. g[b] \in Header /\ g[c] \in Header BY <1>7, <1>8, <1>9 DEF Header
<1>11. g \in [Start..End -> Header]
  <2>1. \A a \in Start..End : g[a] \in Header BY <1>4, <1>8, <1>10
  <2>2. g = [a \in Start..End |-> g[a]] BY <1>4, <1>5, <1>6
  <2> QED BY <2>1, <2>2
<1>12. \A a \in Start..End : /\ a \notin {b, c} => g[a].size = h[a].size
                             /\ g[a].next = h[a].next
                             /\ g[a].valid = h[a].valid
                             /\ g[a].list = h[a].list
  BY <1>8, <1>9 DEF Header
<1>13. g[b].size = need /\ g[c].size = rest BY <1>8, <1>9 DEF Header
<1>14. Headers(g)
  <2>1. Start \in Start..End /\ Start \notin {b, c} BY <1>0, <1>2
  <2>2. g[Start].size = 0 BY <2>1, <1>4, <1>12
  <2> QED BY <2>2, <1>11 DEF Headers
<1>15. \A a \in B : a # b => g[a].size = S(a)
  <2>1. \A a \in B : a \in Start..End /\ a # c BY <1>0, <1>1, <1>3
  <2> QED BY <2>1, <1>12
<1>16. Tiled(g, B \cup {c})
  <2>1. B \cup {c} \subseteq 0..End - 1 BY <1>1, <1>2
  <2>2. ASSUME NEW a \in B \cup {c}
        PROVE  g[a].size \in Nat \ {0} /\ a + g[a].size <= End
    <3>1. CASE a = b BY <3>1, <1>0, <1>2, <1>13
    <3>2. CASE a = c BY <3>2, <1>2, <1>13
    <3>3. CASE a \in B /\ a # b BY <3>3, <1>1, <1>15
    <3> QED BY <3>1, <3>2, <3>3
  <2>3. ASSUME NEW a \in B \cup {c}, NEW d \in B \cup {c}, a < d
        PROVE  a + g[a].size <= d
    <3>0. d \in Int /\ a \in Int BY <1>1, <1>2
    <3>1. CASE a = b
      <4>1. d \in B => b + S(b) <= d BY <3>1, <2>3, <1>1
      <4>2. c <= d BY <4>1, <3>0, <1>1, <1>2
      <4> QED BY <4>2, <3>1, <1>13
    <3>2. CASE a = c
      <4>1. d \in B /\ b < d BY <3>0, <3>2, <2>3, <1>2
      <4>2. b + S(b) <= d BY <4>1, <1>1
      <4> QED BY <4>2, <3>2, <1>2, <1>13
    <3>3. CASE a \in B /\ a # b
      <4>1. d \in B => a + S(a) <= d BY <3>3, <2>3, <1>1
      <4>2. CASE d = c
        <5>1. ~(b < a)
          <6>1. b < a => b + S(b) <= a BY <3>3, <1>1
          <6> QED BY <6>1, <4>2, <3>0, <2>3, <1>2, <1>1
        <5>2. a < b BY <5>1, <3>0, <3>3, <1>2
        <5>3. a + S(a) <= b BY <5>2, <3>3, <1>1
        <5>4. S(a) \in Int BY <3>3, <1>1
        <5>5. a + S(a) <= c BY <5>3, <5>4, <3>0, <1>2
        <5> QED BY <5>5, <4>2, <3>3, <1>15
      <4> QED BY <4>1, <4>2, <3>3, <1>15
    <3> QED BY <3>1, <3>2, <3>3
  <2>4. ASSUME NEW x \in 0..End - 1
        PROVE  \E a \in B \cup {c} : a <= x /\ x < a + g[a].size
    <3>0. x \in Int BY <1>0
    <3>1. PICK a \in B : a <= x /\ x < a + S(a) BY <1>1
    <3>2. CASE a # b BY <3>1, <3>2, <1>15
    <3>3. CASE a = b /\ x < c BY <3>1, <3>3, <1>13
    <3>4. CASE a = b /\ ~(x < c)
      <4>1. c <= x /\ x < c + g[c].size BY <3>0, <3>1, <3>4, <1>2, <1>13
      <4> QED BY <4>1
    <3> QED BY <3>2, <3>3, <3>4
  <2> QED BY <2>1, <2>2, <2>3, <2>4 DEF Tiled
<1>17. Resizes(g, h, b, c) BY <1>2, <1>3, <1>12, <1>13, <1>14 DEF Resizes
<1> QED BY <1>2, <1>3, <1>12, <1>13, <1>14, <1>16, <1>17 DEF Halves

\* What mem_heapAlloc leaves of block b when it has taken it off the chain.
Severed(g, D, b, need) ==
    /\ \E G : Layout(g, D \cup {b}, G)
    /\ \A a \in D : g[a].size = hdr[a].size /\ g[a].next = hdr[a].next
    /\ \A a \in 0..End - 1 : g[a].valid = hdr[a].valid /\ g[a].list = hdr[a].list
    /\ g[b].size = IF hdr[b].size - need <= MinBlock THEN hdr[b].size ELSE need

LEMMA Cutting ==
    ASSUME NEW D, NEW F, Layout(hdr, D, F), NEW b \in F,
           NEW need \in Nat \ {0}, need <= hdr[b].size,
           NEW g, g = Cut(b, need)
    PROVE  Severed(g, D, b, need)
<1> DEFINE p == Before(b)
           off == [hdr EXCEPT ![p].next = hdr[b].next]
           E == D \cup {b}
           H == F \ {b}
           c == b + need
           cut == Split(off, b, c, need)
<1>0. /\ Span \in Nat /\ Start = -1 /\ End = Span /\ MinBlock \in Nat
  BY HeapAssumption DEF Start, End
<1>1. D \cup F \subseteq 0..End - 1 /\ hdr[b].size \in Nat
  BY DEF Layout, Tiled
<1>2. p \in F \cup {Start} /\ hdr[p].next = b BY StopsBefore DEF Layout
<1>e. off = [hdr EXCEPT ![p].next = hdr[b].next] OBVIOUS
<1> HIDE DEF p, off
<1>3. /\ Headers(off) /\ Ordered(off, H) /\ Apart(off, H) /\ Relinked(off, hdr)
      /\ SameLinks(off, hdr, D)
  BY <1>2, <1>e, Unlinked
<1>4. E \cap H = {} /\ E \cup H = D \cup F BY DEF Layout
<1>5. \A a \in 0..End - 1 : a \in Start..End BY <1>0
<1>6. \A a \in D \cup F : off[a].size = hdr[a].size BY <1>1, <1>3, <1>5 DEF Relinked
<1>7. Tiled(off, E \cup H) BY <1>4, <1>6 DEF Layout, Tiled
<1>8. CASE hdr[b].size - need <= MinBlock
  <2>1. g = off BY <1>8 DEF Cut, off, p, Before
  <2>2. Layout(g, E, H) BY <2>1, <1>3, <1>4, <1>7 DEF Layout
  <2> QED
    BY <2>1, <2>2, <1>3, <1>5, <1>6, <1>8 DEF Relinked, Severed, SameLinks
<1>9. CASE ~(hdr[b].size - need <= MinBlock)
  <2>1. off[b].size = hdr[b].size /\ need < off[b].size
    <3>1. off[b].size = hdr[b].size BY <1>6
    <3>2. ASSUME NEW z \in Nat, ~(z - need <= MinBlock) PROVE need < z
      BY <3>2, <1>0
    <3> QED BY <3>1, <3>2, <1>1, <1>9
  <2>2. g = InsertFreeBlock(cut, c) BY <2>1, <1>9 DEF Cut, Split, off, p, Before
  <2>e. /\ cut = Split(off, b, c, need)
        /\ c = b + need /\ b \in E \cup H
    OBVIOUS
  <2> HIDE DEF cut, E, H, c
  <2>3. /\ Headers(cut) /\ c \in (0..End - 1) \ (E \cup H)
        /\ Tiled(cut, E \cup H \cup {c}) /\ Resizes(cut, off, b, c)
        /\ cut[b].size = need
    <3>1. Headers(off) /\ Tiled(off, E \cup H) BY <1>3, <1>7
    <3>2. Halves(cut, off, E \cup H, b, c, need) BY <3>1, <2>1, <2>e, Halved
    <3> QED BY <3>2 DEF Halves
  <2> USE DEF E, H
  <2>4. \A a \in (H \cup {Start}) \cup D : a \in Start..End BY <1>0, <1>1
  <2>5. \A a \in H \cup D : cut[a].size = off[a].size /\ cut[a].next = off[a].next
    <3>1. \A a \in H \cup D : a # b /\ a # c BY <2>3 DEF Layout
    <3> QED BY <3>1, <2>3, <2>4 DEF Resizes
  <2>6. Ordered(cut, H) BY <2>3, <2>4, <1>3 DEF Ordered, Resizes
  <2>7. Apart(cut, H) BY <2>5, <1>3 DEF Apart
  <2>8. /\ \E G : G \subseteq H \cup {c} /\ Layout(g, E, G)
        /\ \A a \in E : g[a].size = cut[a].size /\ g[a].next = cut[a].next
        /\ \A a \in 0..End - 1 : g[a].valid = cut[a].valid /\ g[a].list = cut[a].list
    BY <2>2, <2>3, <2>6, <2>7, <1>4, Insertion
  <2>9. \A a \in D : g[a].next = hdr[a].next
    BY <2>5, <2>8, <1>3 DEF SameLinks
  <2> QED
    BY <2>3, <2>5, <2>8, <2>9, <1>3, <1>5, <1>6, <1>9 DEF Relinked, Resizes, Severed
<1> QED BY <1>8, <1>9

-----------------------------------------------------------------------------
\* The headers after mem_heapAlloc and before mem_insertFreeBlock in mem_heapFree.
Taken(h, b, o) == [h EXCEPT ![b].valid = TRUE, ![b].next = Nowhere, ![b].list = o]

Dropped(h, b) == [h EXCEPT ![b].valid = FALSE, ![b].list = NoOwner]

LEMMA Taking ==
    ASSUME NEW h, NEW D, NEW F, Layout(h, D, F), NEW b \in D,
           NEW o \in Owner \cup {NoOwner}, NEW g, g = Taken(h, b, o)
    PROVE  /\ Layout(g, D, F)
           /\ \A a \in D : /\ g[a].size = h[a].size
                           /\ a # b => /\ g[a].valid = h[a].valid
                                       /\ g[a].list = h[a].list
                                       /\ g[a].next = h[a].next
           /\ g[b].valid /\ g[b].list = o /\ g[b].next = Nowhere
<1>0. Span \in Nat /\ Start = -1 /\ End = Span BY HeapAssumption DEF Start, End
<1>1. h \in [Start..End -> Header] /\ h[Start].size = 0
  BY DEF Layout, Headers
<1>2. D \cup F \subseteq 0..End - 1 BY DEF Layout, Tiled
<1>3. \A a \in D \cup F \cup {Start} : a \in Start..End BY <1>0, <1>2
<1>4. b \in Start..End /\ b # Start /\ b \notin F BY <1>0, <1>2 DEF Layout
<1>5. \A a \in Start..End : a # b => g[a] = h[a] BY <1>1 DEF Taken
<1>6. g[b] = [h[b] EXCEPT !.valid = TRUE, !.next = Nowhere, !.list = o]
  BY <1>1, <1>4 DEF Taken
<1>7. h[b] \in Header BY <1>1, <1>4
<1>8. /\ g[b] \in Header /\ g[b].size = h[b].size
      /\ g[b].valid /\ g[b].list = o /\ g[b].next = Nowhere
  BY <1>6, <1>7 DEF Header
<1>9. g \in [Start..End -> Header] BY <1>1, <1>4, <1>5, <1>8 DEF Taken
<1>10. Headers(g) BY <1>1, <1>3, <1>4, <1>5, <1>9 DEF Headers
<1>11. \A a \in D \cup F : g[a].size = h[a].size BY <1>3, <1>5, <1>8
<1>12. \A a \in F \cup {Start} : g[a].next = h[a].next BY <1>3, <1>4, <1>5
<1>13. Layout(g, D, F) BY <1>10, <1>11, <1>12, SameLayout
<1> QED BY <1>3, <1>5, <1>8, <1>11, <1>13

LEMMA Dropping ==
    ASSUME NEW h, NEW D, NEW F, Layout(h, D, F), NEW b \in D,
           NEW g, g = Dropped(h, b)
    PROVE  /\ Layout(g, D, F)
           /\ \A a \in D : g[a].size = h[a].size /\ g[a].next = h[a].next
           /\ \A a \in 0..End - 1 : a # b => /\ g[a].valid = h[a].valid
                                             /\ g[a].list = h[a].list
           /\ ~g[b].valid
<1>0. Span \in Nat /\ Start = -1 /\ End = Span BY HeapAssumption DEF Start, End
<1>1. h \in [Start..End -> Header] /\ h[Start].size = 0
  BY DEF Layout, Headers
<1>2. D \cup F \subseteq 0..End - 1 BY DEF Layout, Tiled
<1>3. \A a \in D \cup F \cup {Start} : a \in Start..End BY <1>0, <1>2
<1>4. b \in Start..End /\ b # Start /\ b \notin F BY <1>0, <1>2 DEF Layout
<1>5. \A a \in Start..End : a # b => g[a] = h[a] BY <1>1 DEF Dropped
<1>6. g[b] = [h[b] EXCEPT !.valid = FALSE, !.list = NoOwner]
  BY <1>1, <1>4 DEF Dropped
<1>7. h[b] \in Header BY <1>1, <1>4
<1>8. /\ g[b] \in Header /\ g[b].size = h[b].size /\ ~g[b].valid
      /\ g[b].next = h[b].next
  BY <1>6, <1>7 DEF Header
<1>9. g \in [Start..End -> Header] BY <1>1, <1>4, <1>5, <1>8 DEF Dropped
<1>10. Headers(g) BY <1>1, <1>3, <1>4, <1>5, <1>9 DEF Headers
<1>11. \A a \in D \cup F : g[a].size = h[a].size BY <1>3, <1>5, <1>8
<1>12. \A a \in F \cup {Start} : g[a].next = h[a].next BY <1>3, <1>4, <1>5
<1>13. Layout(g, D, F) BY <1>10, <1>11, <1>12, SameLayout
<1>14. \A a \in 0..End - 1 : a \in Start..End BY <1>0
<1>15. \A a \in D : g[a].next = h[a].next BY <1>3, <1>5, <1>8
<1> QED BY <1>5, <1>8, <1>11, <1>13, <1>14, <1>15

\* The bytes of live blocks.
Held(h, D) == UNION {a..a + h[a].size - 1 : a \in D}

LEMMA HeldFinite ==
    ASSUME NEW h, NEW D, NEW F, Layout(h, D, F)
    PROVE  /\ Held(h, D) \subseteq 0..Span - 1 /\ IsFiniteSet(Held(h, D))
           /\ Cardinality(Held(h, D)) \in 0..Span
<1>0. Span \in Nat /\ End = Span BY HeapAssumption DEF End
<1>1. Held(h, D) \subseteq 0..Span - 1
  <2> SUFFICES ASSUME NEW a \in D, NEW x \in a..a + h[a].size - 1
               PROVE  x \in 0..Span - 1
    BY DEF Held
  <2>1. a \in 0..End - 1 /\ h[a].size \in Nat /\ a + h[a].size <= End
    BY DEF Layout, Tiled
  <2> QED BY <2>1, <1>0
<1>2. IsFiniteSet(0..Span - 1) /\ Cardinality(0..Span - 1) = Span
  <2>1. /\ IsFiniteSet(0..Span - 1)
        /\ Cardinality(0..Span - 1) = IF 0 > Span - 1 THEN 0 ELSE (Span - 1) - 0 + 1
    BY <1>0, FS_Interval
  <2> QED BY <2>1, <1>0
<1>3. IsFiniteSet(Held(h, D)) /\ Cardinality(Held(h, D)) <= Span
  BY <1>1, <1>2, FS_Subset
<1>4. Cardinality(Held(h, D)) \in Nat BY <1>3, FS_CardinalityType
<1> QED BY <1>0, <1>1, <1>3, <1>4

\* One more live block is as many more bytes as its size.
LEMMA HeldGrows ==
    ASSUME NEW h, NEW D, NEW b, b \notin D, NEW F, Layout(h, D \cup {b}, F)
    PROVE  Cardinality(Held(h, D \cup {b})) = Cardinality(Held(h, D)) + h[b].size
<1>0. Span \in Nat /\ End = Span BY HeapAssumption DEF End
<1> DEFINE T == Held(h, D)
           B == b..b + h[b].size - 1
<1>1. b \in Int /\ h[b].size \in Nat \ {0} BY <1>0 DEF Layout, Tiled
<1>2. Held(h, D \cup {b}) = T \cup B BY DEF Held
<1>3. IsFiniteSet(T)
  <2>1. T \subseteq Held(h, D \cup {b}) BY <1>2
  <2> QED BY <2>1, HeldFinite, FS_Subset
<1>4. T \cap B = {}
  <2> SUFFICES ASSUME NEW a \in D, NEW x \in a..a + h[a].size - 1, x \in B
               PROVE  FALSE
    BY DEF Held
  <2>1. a \in Int /\ h[a].size \in Nat /\ a # b BY <1>0 DEF Layout, Tiled
  <2>2. (a < b => a + h[a].size <= b) /\ (b < a => b + h[b].size <= a)
    BY DEF Layout, Tiled
  <2> QED BY <2>1, <2>2, <1>1
<1>5. IsFiniteSet(B) /\ Cardinality(B) = h[b].size
  <2> DEFINE z == h[b].size
  <2>1. z \in Nat \ {0} /\ b + z - 1 \in Int BY <1>1
  <2> HIDE DEF z
  <2>2. /\ IsFiniteSet(b..b + z - 1)
        /\ Cardinality(b..b + z - 1)
             = IF b > b + z - 1 THEN 0 ELSE (b + z - 1) - b + 1
    BY <2>1, <1>1, FS_Interval
  <2>3. (IF b > b + z - 1 THEN 0 ELSE (b + z - 1) - b + 1) = z BY <2>1, <1>1
  <2> QED BY <2>2, <2>3 DEF z
<1> HIDE DEF T, B
<1>6. Cardinality(T \cup B) = Cardinality(T) + Cardinality(B) - Cardinality(T \cap B)
  BY <1>3, <1>5, FS_Union
<1>7. Cardinality(T \cap B) = 0 BY <1>4, FS_EmptySet
<1>8. Cardinality(T) \in Nat /\ Cardinality(B) \in Nat
  BY <1>3, <1>5, FS_CardinalityType
<1>9. Cardinality(T \cup B) = Cardinality(T) + Cardinality(B) BY <1>6, <1>7, <1>8
<1> QED BY <1>2, <1>5, <1>9 DEF T

LEMMA HeldSame ==
    ASSUME NEW h, NEW g, NEW D, \A a \in D : g[a].size = h[a].size
    PROVE  Held(g, D) = Held(h, D)
BY DEF Held

-----------------------------------------------------------------------------
\* The allocation lists.
LEMMA ElementsOf ==
    ASSUME NEW S, NEW s \in Seq(S)
    PROVE  /\ Len(s) \in Nat /\ DOMAIN s = 1..Len(s)
           /\ \A i \in 1..Len(s) : s[i] \in S
           /\ ToSet(s) = {s[i] : i \in 1..Len(s)}
           /\ ToSet(s) \subseteq S
           /\ IsInjective(s) <=> \A i, j \in 1..Len(s) : s[i] = s[j] => i = j
BY LenProperties DEF ToSet, IsInjective

LEMMA WithoutOne ==
    ASSUME NEW S, NEW s \in Seq(S), IsInjective(s), NEW x \in ToSet(s)
    PROVE  /\ Without(s, x) \in Seq(S) /\ IsInjective(Without(s, x))
           /\ ToSet(Without(s, x)) = ToSet(s) \ {x}
           /\ Len(Without(s, x)) = Len(s) - 1
           /\ \E i \in 1..Len(s) :
                 /\ s[i] = x
                 /\ \A j \in 1..Len(s) - 1 :
                       Without(s, x)[j] = s[IF j < i THEN j ELSE j + 1]
<1> DEFINE c == Len(s)
           i == CHOOSE j \in 1..Len(s) : s[j] = x
           r == Without(s, x)
           place(j) == IF j < i THEN j ELSE j + 1
<1>1. /\ c \in Nat /\ (\A j \in 1..c : s[j] \in S)
      /\ ToSet(s) = {s[j] : j \in 1..c}
      /\ \A j, k \in 1..c : s[j] = s[k] => j = k
  BY ElementsOf
<1>2. i \in 1..c /\ s[i] = x BY <1>1
<1>3. r = [j \in 1..c - 1 |-> IF j < i THEN s[j] ELSE s[j + 1]] BY DEF Without
<1> HIDE DEF c, i, r
<1>4. /\ c - 1 \in Nat
      /\ \A j \in 1..c - 1 : place(j) \in 1..c /\ place(j) # i /\ r[j] = s[place(j)]
      /\ \A j, k \in 1..c - 1 : place(j) = place(k) => j = k
      /\ \A k \in 1..c : k # i => \E j \in 1..c - 1 : place(j) = k
  <2>1. \A j \in 1..c - 1 : place(j) \in 1..c /\ place(j) # i BY <1>1, <1>2
  <2>2. \A j, k \in 1..c - 1 : place(j) = place(k) => j = k BY <1>1, <1>2
  <2>3. ASSUME NEW k \in 1..c, k # i PROVE \E j \in 1..c - 1 : place(j) = k
    <3>1. CASE k < i
      <4>1. k \in 1..c - 1 /\ place(k) = k BY <3>1, <1>1, <1>2
      <4> QED BY <4>1
    <3>2. CASE ~(k < i)
      <4>1. k - 1 \in 1..c - 1 /\ place(k - 1) = k BY <2>3, <3>2, <1>1, <1>2
      <4> QED BY <4>1
    <3> QED BY <3>1, <3>2
  <2>4. c - 1 \in Nat BY <1>1, <1>2
  <2> QED BY <2>1, <2>2, <2>3, <2>4, <1>3
<1>p. \A j \in 1..c - 1 : r[j] = s[IF j < i THEN j ELSE j + 1] BY <1>4
<1> HIDE DEF place
<1>5. r \in Seq(S)
  <2>1. \A j \in 1..c - 1 : r[j] \in S BY <1>1, <1>4
  <2>2. r \in [1..c - 1 -> S] BY <2>1, <1>3
  <2> QED BY <2>2, <1>4, SeqDef
<1>6. Len(r) = c - 1 BY <1>3, <1>4, <1>5
<1>7. IsInjective(r) BY <1>1, <1>4, <1>5, <1>6, ElementsOf
<1>8. ToSet(r) = {r[j] : j \in 1..c - 1} BY <1>5, <1>6, ElementsOf
<1>9. ToSet(r) = ToSet(s) \ {x}
  <2>1. \A j \in 1..c - 1 : r[j] \in ToSet(s) /\ r[j] # x
    <3> SUFFICES ASSUME NEW j \in 1..c - 1 PROVE r[j] \in ToSet(s) /\ r[j] # x
      OBVIOUS
    <3> DEFINE k == place(j)
    <3>1. k \in 1..c /\ k # i /\ r[j] = s[k] BY <1>4
    <3> HIDE DEF k
    <3>2. s[k] \in ToSet(s) BY <3>1, <1>1
    <3>3. s[k] # s[i] BY <3>1, <1>1, <1>2
    <3> QED BY <3>1, <3>2, <3>3, <1>2
  <2>2. \A k \in 1..c : k # i => s[k] \in ToSet(r) BY <1>4, <1>8
  <2>3. \A k \in 1..c : s[k] # x => s[k] \in ToSet(r) BY <2>2, <1>2
  <2>4. ToSet(s) \ {x} \subseteq ToSet(r) BY <2>3, <1>1
  <2>5. ToSet(r) \subseteq ToSet(s) \ {x} BY <2>1, <1>8
  <2> QED BY <2>4, <2>5
<1>10. \E k \in 1..c : /\ s[k] = x
                       /\ \A j \in 1..c - 1 : r[j] = s[IF j < k THEN j ELSE j + 1]
  BY <1>2, <1>p
<1> QED BY <1>5, <1>6, <1>7, <1>9, <1>10 DEF r, c

LEMMA WithOneMore ==
    ASSUME NEW S, NEW s \in Seq(S), IsInjective(s), NEW x \in S, x \notin ToSet(s)
    PROVE  /\ Append(s, x) \in Seq(S) /\ IsInjective(Append(s, x))
           /\ ToSet(Append(s, x)) = ToSet(s) \cup {x}
<1> DEFINE c == Len(s)
           r == Append(s, x)
<1>1. /\ c \in Nat /\ (\A j \in 1..c : s[j] \in S)
      /\ ToSet(s) = {s[j] : j \in 1..c}
      /\ \A j, k \in 1..c : s[j] = s[k] => j = k
  BY ElementsOf
<1>2. /\ r \in Seq(S) /\ Len(r) = c + 1 /\ r[c + 1] = x
      /\ \A j \in 1..c : r[j] = s[j]
  BY AppendProperties
<1> HIDE DEF c, r
<1>3. ToSet(r) = {r[j] : j \in 1..c + 1} BY <1>2, ElementsOf
<1>4. \A j \in 1..c + 1 : j = c + 1 \/ (j \in 1..c /\ j # c + 1) BY <1>1
<1>5. \A j \in 1..c : j \in 1..c + 1 BY <1>1
<1>6. c + 1 \in 1..c + 1 BY <1>1
<1>7. ToSet(r) = ToSet(s) \cup {x} BY <1>1, <1>2, <1>3, <1>4, <1>5, <1>6
<1>8. \A j, k \in 1..c + 1 : r[j] = r[k] => j = k BY <1>1, <1>2, <1>4
<1>9. IsInjective(r) BY <1>2, <1>8, ElementsOf
<1> QED BY <1>2, <1>7, <1>9 DEF r

\* The links l of a list s: each item has the next one's address.
Behind(s, i) == IF i = Len(s) THEN Nowhere ELSE s[i + 1]

Threads(l, s) == \A i \in 1..Len(s) : l[s[i]] = Behind(s, i)

LEMMA ThreadedBack ==
    ASSUME NEW S, NEW s \in Seq(S), NEW x \in S, NEW l, NEW m, Threads(l, s),
           m[x] = Nowhere,
           \A i \in 1..Len(s) : m[s[i]] = IF i = Len(s) THEN x ELSE l[s[i]]
    PROVE  Threads(m, Append(s, x))
<1> DEFINE c == Len(s)
           r == Append(s, x)
<1>1. /\ c \in Nat /\ r \in Seq(S) /\ Len(r) = c + 1 /\ r[c + 1] = x
      /\ \A j \in 1..c : r[j] = s[j]
  BY ElementsOf, AppendProperties
<1>2. /\ \A i \in 1..c : l[s[i]] = Behind(s, i)
      /\ \A i \in 1..c : m[s[i]] = IF i = c THEN x ELSE l[s[i]]
  BY DEF Threads
<1>3. \A i \in 1..c : Behind(s, i) = IF i = c THEN Nowhere ELSE s[i + 1]
  BY DEF Behind
<1>4. \A i \in 1..c + 1 : Behind(r, i) = IF i = c + 1 THEN Nowhere ELSE r[i + 1]
  BY <1>1 DEF Behind
<1> HIDE DEF c, r
<1>5. ASSUME NEW i \in 1..c + 1 PROVE m[r[i]] = Behind(r, i)
  <2>1. CASE i = c + 1 BY <2>1, <1>1, <1>4
  <2>2. CASE i = c
    <3>1. i \in 1..c /\ i # c + 1 BY <2>2, <1>1
    <3> QED BY <3>1, <2>2, <1>1, <1>2, <1>4
  <2>3. CASE i # c /\ i # c + 1
    <3>1. i \in 1..c /\ i + 1 \in 1..c BY <2>3, <1>1
    <3> QED BY <3>1, <2>3, <1>1, <1>2, <1>3, <1>4
  <2> QED BY <2>1, <2>2, <2>3
<1> QED BY <1>1, <1>5 DEF Threads, r

\* Without an item, the one in front of it has that item's link.
LEMMA ThreadedPast ==
    ASSUME NEW S, NEW s \in Seq(S), IsInjective(s), NEW x \in ToSet(s),
           NEW l, NEW m, Threads(l, s),
           \A y \in ToSet(s) : m[y] = IF Precedes(s, y, x) THEN l[x] ELSE l[y]
    PROVE  Threads(m, Without(s, x))
<1> DEFINE c == Len(s)
           r == Without(s, x)
<1>1. /\ c \in Nat /\ (\A j \in 1..c : s[j] \in ToSet(s))
      /\ \A j, k \in 1..c : s[j] = s[k] => j = k
  BY ElementsOf
<1>2. /\ Len(r) = c - 1
      /\ \E i \in 1..c :
            s[i] = x /\ \A j \in 1..c - 1 : r[j] = s[IF j < i THEN j ELSE j + 1]
  BY WithoutOne
<1>3. PICK i \in 1..c :
         s[i] = x /\ \A j \in 1..c - 1 : r[j] = s[IF j < i THEN j ELSE j + 1]
  BY <1>2
<1>4. \A k \in 1..c : l[s[k]] = IF k = c THEN Nowhere ELSE s[k + 1]
  BY DEF Threads, Behind
<1>5. \A k \in 1..c : Precedes(s, s[k], x) <=> k + 1 = i
  <2>1. \A k \in 1..c : Precedes(s, s[k], x)
                           <=> \E j \in 1..c - 1 : s[j] = s[k] /\ s[j + 1] = x
    BY DEF Precedes
  <2>2. \A j \in 1..c - 1 : j \in 1..c /\ j + 1 \in 1..c BY <1>1
  <2> HIDE DEF c
  <2>3. ASSUME NEW k \in 1..c, NEW j \in 1..c - 1, s[j] = s[k], s[j + 1] = x
        PROVE  k + 1 = i
    <3>1. j = k BY <2>2, <2>3, <1>1
    <3>2. j + 1 = i BY <2>2, <2>3, <1>1, <1>3
    <3> QED BY <3>1, <3>2
  <2>4. ASSUME NEW k \in 1..c, k + 1 = i PROVE k \in 1..c - 1 /\ s[k + 1] = x
    BY <2>4, <1>1, <1>3
  <2> QED BY <2>1, <2>3, <2>4
<1>6. \A k \in 1..c : m[s[k]] = IF k + 1 = i THEN l[s[i]] ELSE l[s[k]]
  BY <1>1, <1>3, <1>5
<1>7. \A j \in 1..c - 1 : Behind(r, j) = IF j = c - 1 THEN Nowhere ELSE r[j + 1]
  BY <1>2 DEF Behind
<1> HIDE DEF c, r
<1>8. ASSUME NEW j \in 1..c - 1 PROVE m[r[j]] = Behind(r, j)
  <2>0. j \in Nat /\ i \in Nat BY <1>1
  <2>1. CASE j + 1 < i
    <3>1. /\ j \in 1..c /\ j # c /\ j # c - 1 /\ j + 1 # i /\ j < i
          /\ j + 1 \in 1..c - 1
      BY <2>0, <2>1, <1>1
    <3>2. r[j] = s[j] /\ r[j + 1] = s[j + 1] BY <3>1, <2>1, <1>3
    <3> QED BY <3>1, <3>2, <1>4, <1>6, <1>7
  <2>2. CASE j + 1 = i
    <3>1. j \in 1..c /\ j < i /\ (j = c - 1 <=> i = c) BY <2>0, <2>2, <1>1
    <3>2. r[j] = s[j] BY <3>1, <1>3
    <3>3. m[r[j]] = IF i = c THEN Nowhere ELSE s[i + 1] BY <3>1, <3>2, <2>2, <1>4, <1>6
    <3>4. j # c - 1 => j + 1 \in 1..c - 1 /\ ~(j + 1 < i) BY <2>0, <2>2, <1>1
    <3>5. j # c - 1 => r[j + 1] = s[i + 1] BY <3>4, <2>2, <1>3
    <3> QED BY <3>1, <3>3, <3>5, <1>7
  <2>3. CASE i <= j
    <3>1. /\ j + 1 \in 1..c /\ ~(j < i) /\ (j + 1) + 1 # i
          /\ (j = c - 1 <=> j + 1 = c)
      BY <2>0, <2>3, <1>1
    <3>2. r[j] = s[j + 1] BY <3>1, <1>3
    <3>3. m[r[j]] = IF j + 1 = c THEN Nowhere ELSE s[(j + 1) + 1]
      BY <3>1, <3>2, <1>4, <1>6
    <3>4. j # c - 1 => j + 1 \in 1..c - 1 /\ ~(j + 1 < i) BY <2>0, <2>3, <1>1
    <3>5. j # c - 1 => r[j + 1] = s[(j + 1) + 1] BY <3>4, <1>3
    <3> QED BY <3>1, <3>3, <3>5, <1>7
  <2> QED BY <2>0, <2>1, <2>2, <2>3
<1> QED BY <1>2, <1>8 DEF Threads, r

\* The head has the link to what is the head without it.
LEMMA HeadOff ==
    ASSUME NEW S, NEW s \in Seq(S), IsInjective(s), s # <<>>, NEW l, Threads(l, s)
    PROVE  Head(s) \in ToSet(s) /\ l[Head(s)] = First(Without(s, Head(s)))
<1> DEFINE c == Len(s)
           r == Without(s, Head(s))
<1>1. /\ c \in Nat /\ ToSet(s) = {s[j] : j \in 1..c}
      /\ \A j, k \in 1..c : s[j] = s[k] => j = k
  BY ElementsOf
<1>2. Head(s) = s[1] /\ c # 0 BY HeadTailProperties, EmptySeq
<1>3. 1 \in 1..c BY <1>1, <1>2
<1>4. Head(s) \in ToSet(s) BY <1>1, <1>2, <1>3
<1>5. l[Head(s)] = IF 1 = c THEN Nowhere ELSE s[2]
  <2>1. l[s[1]] = Behind(s, 1) BY <1>3 DEF Threads
  <2>2. Behind(s, 1) = IF 1 = c THEN Nowhere ELSE s[1 + 1] BY DEF Behind
  <2>3. 1 + 1 = 2 OBVIOUS
  <2> QED BY <2>1, <2>2, <2>3, <1>2
<1>6. /\ r \in Seq(S) /\ Len(r) = c - 1
      /\ \E i \in 1..c : /\ s[i] = Head(s)
                         /\ \A j \in 1..c - 1 : r[j] = s[IF j < i THEN j ELSE j + 1]
  BY <1>4, WithoutOne
<1> HIDE DEF c, r
<1>7. \A j \in 1..c - 1 : r[j] = s[j + 1] BY <1>1, <1>2, <1>3, <1>6
<1>8. First(r) = IF 1 = c THEN Nowhere ELSE s[2]
  <2>1. CASE c = 1
    <3>1. r = <<>> BY <2>1, <1>6, EmptySeq
    <3> QED BY <3>1, <2>1 DEF First
  <2>2. CASE c # 1
    <3>1. 1 \in 1..c - 1 /\ c - 1 # 0 BY <2>2, <1>1, <1>2
    <3>2. r # <<>> BY <3>1, <1>6, EmptySeq
    <3>3. Head(r) = r[1] BY <3>2, <1>6, HeadTailProperties
    <3> QED BY <3>1, <3>2, <3>3, <2>2, <1>7 DEF First
  <2> QED BY <2>1, <2>2
<1> QED BY <1>4, <1>5, <1>8 DEF r

-----------------------------------------------------------------------------
\* OnChain is the blocks of an ordered chain.
LEMMA ChainBlocks ==
    ASSUME NEW h, NEW F, Ordered(h, F)
    PROVE  {Chain(h)[n] : n \in Place} \ {Start, End} = F
<1> DEFINE c == Chain(h)
<1>1. InOrder(c, h, F) BY ChainInOrder
<1> HIDE DEF c
<1>2. /\ \A n \in Place : c[n] \in F \cup {Start, End}
      /\ \A a \in F : \E n \in Place : c[n] = a
  BY <1>1 DEF InOrder
<1>3. Start \notin F /\ End \notin F
  <2>1. Span \in Nat BY HeapAssumption
  <2> QED BY <2>1 DEF Ordered, Start, End
<1>4. {c[n] : n \in Place} \ {Start, End} = F BY <1>2, <1>3
<1> QED BY <1>4 DEF c

Live == DOMAIN owner

LiveInv ==
    /\ owner \in [Live -> Owner \cup {NoOwner}]
    /\ \A a \in Live : hdr[a].valid /\ hdr[a].list = owner[a] /\ hdr[a].next = Nowhere

LastInv ==
    /\ lastFreed \in 0..End - 1 \cup {Nowhere}
    /\ lastFreed # Nowhere => lastFreed \notin Live /\ ~hdr[lastFreed].valid

ListsExact ==
    \A o \in Owner :
       /\ ToSet(allocList[o]) = {a \in Live : owner[a] = o}
       /\ IsInjective(allocList[o])

LinksAgree == \A o \in Owner : Threads(link, allocList[o])

\* The inductive invariant, without the task that is being deleted: live and free
\* blocks are a layout, and the headers and lists say who they belong to.
BlocksInv ==
    /\ TypeOK /\ ListsExact /\ LinksAgree
    /\ Layout(hdr, Live, OnChain)
    /\ free = Span - Cardinality(Held(hdr, Live))
    /\ LiveInv /\ LastInv

\* The next block a deleted task frees is the head of what is left of its list.
FreeingInv ==
    /\ deleting = NoOwner => freeing = Nowhere
    /\ deleting # NoOwner => freeing = First(allocList[deleting])

HeapInv == BlocksInv /\ FreeingInv

LEMMA HeapInitial ==
    ASSUME Init
    PROVE  HeapInv /\ FirstFitHeap!SpecInit
<1>0. Span \in Nat \ {0} /\ Start = -1 /\ End = Span /\ Nowhere \notin 0..Span
  BY HeapAssumption DEF Start, End
<1>1. Live = {} BY DEF Init, Live
<1>2. hdr \in [Start..End -> Header]
  <2>1. /\ 0 \in 0..End \cup {Nowhere} /\ End \in 0..End \cup {Nowhere}
        /\ Span \in 0..Span /\ 0 \in 0..Span
    BY <1>0
  <2>2. Unused \in Header BY <2>1 DEF Unused, Header
  <2>3. /\ [Unused EXCEPT !.next = 0] \in Header
        /\ [Unused EXCEPT !.next = End, !.size = Span, !.valid = TRUE] \in Header
    BY <2>1 DEF Unused, Header
  <2> QED BY <2>2, <2>3 DEF Init
<1>3. /\ hdr[Start].size = 0 /\ hdr[Start].next = 0
      /\ hdr[0].size = Span /\ hdr[0].next = End
  <2>1. Start \in Start..End /\ 0 \in Start..End /\ Start # 0 BY <1>0
  <2>2. hdr[Start] = [Unused EXCEPT !.next = 0] BY <2>1 DEF Init
  <2>3. hdr[0] = [Unused EXCEPT !.next = End, !.size = Span, !.valid = TRUE]
    BY <2>1 DEF Init
  <2> QED BY <2>2, <2>3 DEF Unused
<1>4. Ordered(hdr, {0}) BY <1>0, <1>3 DEF Ordered
<1>5. OnChain = {0} BY <1>4, ChainBlocks DEF OnChain
<1>6. Tiled(hdr, {0}) BY <1>0, <1>3 DEF Tiled
<1>7. Apart(hdr, {0}) BY <1>0, <1>3 DEF Apart
<1>8. Layout(hdr, Live, OnChain)
  BY <1>1, <1>2, <1>3, <1>4, <1>5, <1>6, <1>7 DEF Layout, Headers
<1>9. Held(hdr, Live) = {} BY <1>1 DEF Held
<1>10. free = Span - Cardinality(Held(hdr, Live))
  <2>1. Cardinality(Held(hdr, Live)) = 0 BY <1>9, FS_EmptySet
  <2>2. free = Span BY DEF Init
  <2> QED BY <2>1, <2>2, <1>0
<1>11. <<>> \in Seq(0..End - 1) /\ IsInjective(<<>>) /\ ToSet(<<>>) = {}
  BY DEF IsInjective, ToSet
<1>12. TypeOK
  <2>1. link \in [0..End - 1 -> 0..End - 1 \cup {Nowhere}] BY DEF Init
  <2> QED BY <2>1, <1>0, <1>2, <1>11 DEF Init, TypeOK
<1>13. ListsExact /\ LinksAgree
  <2>1. \A o \in Owner : allocList[o] = <<>> BY DEF Init
  <2>2. ListsExact BY <2>1, <1>1, <1>11 DEF ListsExact
  <2>3. Threads(link, <<>>) BY DEF Threads
  <2> QED BY <2>1, <2>2, <2>3 DEF LinksAgree
<1>14. LiveInv /\ LastInv BY <1>0, <1>1 DEF Init, LiveInv, LastInv, Live
<1>15. FreeingInv BY DEF Init, FreeingInv
<1>16. LiveBlocks = {} BY <1>1 DEF LiveBlocks, Live
<1>17. FirstFitHeap!SpecInit
  <2>1. given = Nowhere /\ least = Span BY DEF Init
  <2> QED BY <2>1, <1>16 DEF FirstFitHeap!SpecInit
<1> QED BY <1>8, <1>10, <1>12, <1>13, <1>14, <1>15, <1>17 DEF HeapInv, BlocksInv

-----------------------------------------------------------------------------
\* Where a block ends, the next one starts; and where one starts, another ends.
LEMMA BlockAt ==
    ASSUME NEW D, NEW F, Layout(hdr, D, F), NEW x \in 0..End - 1,
           x = 0 \/ \E a \in D \cup F : a + hdr[a].size = x
    PROVE  x \in D \cup F
<1>0. Span \in Nat /\ End = Span BY HeapAssumption DEF End
<1>1. /\ D \cup F \subseteq 0..End - 1
      /\ \A b \in D \cup F : hdr[b].size \in Nat \ {0}
      /\ \A b, c \in D \cup F : b < c => b + hdr[b].size <= c
  BY DEF Layout, Tiled
<1>2. PICK b \in D \cup F : b <= x /\ x < b + hdr[b].size BY DEF Layout, Tiled
<1>3. b \in Nat /\ hdr[b].size \in Nat BY <1>0, <1>1
<1>4. CASE x = 0 BY <1>2, <1>3, <1>4
<1>5. CASE x # 0
  <2>1. PICK a \in D \cup F : a + hdr[a].size = x BY <1>5
  <2>2. a \in Nat /\ hdr[a].size \in Nat /\ hdr[a].size # 0 BY <1>0, <1>1
  <2>3. (b < a => b + hdr[b].size <= a) /\ (a < b => a + hdr[a].size <= b)
    BY <1>1
  <2>4. b = x BY <2>1, <2>2, <2>3, <1>2, <1>3
  <2> QED BY <2>4
<1> QED BY <1>4, <1>5

LEMMA BlockBefore ==
    ASSUME NEW D, NEW F, Layout(hdr, D, F), NEW x \in D \cup F, x # 0
    PROVE  \E a \in D \cup F : a + hdr[a].size = x
<1>0. Span \in Nat /\ End = Span BY HeapAssumption DEF End
<1>1. /\ D \cup F \subseteq 0..End - 1
      /\ \A b \in D \cup F : hdr[b].size \in Nat \ {0}
      /\ \A b, c \in D \cup F : b < c => b + hdr[b].size <= c
      /\ \A y \in 0..End - 1 : \E b \in D \cup F : b <= y /\ y < b + hdr[b].size
  BY DEF Layout, Tiled
<1>2. x \in Nat /\ x - 1 \in 0..End - 1 BY <1>0, <1>1
<1>3. PICK b \in D \cup F : b <= x - 1 /\ x - 1 < b + hdr[b].size BY <1>1, <1>2
<1>4. b \in Nat /\ hdr[b].size \in Nat BY <1>0, <1>1
<1>5. b < x BY <1>2, <1>3, <1>4
<1>6. b + hdr[b].size <= x BY <1>1, <1>5
<1>7. b + hdr[b].size = x BY <1>2, <1>3, <1>4, <1>6
<1> QED BY <1>7

LEMMA TakenHeld ==
    FirstFitHeap!Taken = Held(hdr, Live)
<1> DEFINE T == FirstFitHeap!Taken
<1>1. T = UNION {b.addr..b.addr + b.size - 1 : b \in LiveBlocks}
  BY DEF FirstFitHeap!Taken
<1> HIDE DEF T
<1>2. LiveBlocks = {[addr |-> a, size |-> hdr[a].size] : a \in Live}
  BY DEF LiveBlocks, Live
<1>3. ASSUME NEW x \in T PROVE x \in Held(hdr, Live)
  <2>1. PICK b \in LiveBlocks : x \in b.addr..b.addr + b.size - 1 BY <1>1
  <2>2. PICK a \in Live : b = [addr |-> a, size |-> hdr[a].size] BY <1>2
  <2>3. x \in a..a + hdr[a].size - 1 BY <2>1, <2>2
  <2> QED BY <2>3 DEF Held
<1>4. ASSUME NEW a \in Live, NEW x \in a..a + hdr[a].size - 1 PROVE x \in T
  <2> DEFINE b == [addr |-> a, size |-> hdr[a].size]
  <2>1. b \in LiveBlocks /\ b.addr = a /\ b.size = hdr[a].size BY <1>2
  <2> HIDE DEF b
  <2>2. x \in b.addr..b.addr + b.size - 1 BY <2>1
  <2> QED BY <2>1, <2>2, <1>1
<1>5. T = Held(hdr, Live) BY <1>3, <1>4 DEF Held
<1> QED BY <1>5 DEF T

\* FirstFitHeap's gaps are the blocks on the chain, since no two of these touch.
GapAt(a) == [addr |-> a, size |-> hdr[a].size]

LEMMA BlockIsGap ==
    ASSUME NEW F, Layout(hdr, Live, F), NEW a \in F
    PROVE  GapAt(a) \in FirstFitHeap!Gap
<1> DEFINE z == hdr[a].size
           g == GapAt(a)
           Froms == {0} \cup {b.addr + b.size : b \in LiveBlocks}
           Tos == {Span} \cup {b.addr : b \in LiveBlocks}
<1>0. Span \in Nat /\ End = Span BY HeapAssumption DEF End
<1>1. /\ Live \cup F \subseteq 0..End - 1 /\ Live \cap F = {} /\ Apart(hdr, F)
      /\ \A b \in Live \cup F : hdr[b].size \in Nat \ {0} /\ b + hdr[b].size <= End
      /\ \A b, c \in Live \cup F : b < c => b + hdr[b].size <= c
  BY DEF Layout, Tiled
<1>2. a \in Nat /\ a < End /\ z \in Nat \ {0} /\ a + z <= End BY <1>0, <1>1
<1>3. a \in Froms
  <2>1. CASE a # 0
    <3>1. PICK d \in Live \cup F : d + hdr[d].size = a BY <2>1, BlockBefore
    <3>2. d \in Live BY <3>1, <1>1 DEF Apart
    <3>3. GapAt(d) \in LiveBlocks BY <3>2 DEF LiveBlocks, GapAt, Live
    <3>4. GapAt(d).addr + GapAt(d).size = a BY <3>1 DEF GapAt
    <3> QED BY <3>3, <3>4
  <2> QED BY <2>1
<1>4. a + z \in Tos
  <2>1. CASE a + z # Span
    <3>1. a + z \in 0..End - 1 BY <2>1, <1>0, <1>2
    <3>2. a + z \in Live \cup F BY <3>1, BlockAt
    <3>3. a + z \in Live BY <3>2, <1>1 DEF Apart
    <3>4. GapAt(a + z) \in LiveBlocks BY <3>3 DEF LiveBlocks, GapAt, Live
    <3>5. GapAt(a + z).addr = a + z BY DEF GapAt
    <3> QED BY <3>4, <3>5
  <2> QED BY <2>1
<1>5. FirstFitHeap!Taken \cap (a..a + z - 1) = {}
  <2> SUFFICES ASSUME NEW d \in Live, NEW x \in d..d + hdr[d].size - 1,
                      x \in a..a + z - 1
               PROVE  FALSE
    BY TakenHeld DEF Held
  <2>1. d \in Nat /\ hdr[d].size \in Nat /\ d # a BY <1>0, <1>1
  <2>2. (d < a => d + hdr[d].size <= a) /\ (a < d => a + z <= d) BY <1>1
  <2> QED BY <2>1, <2>2, <1>2
<1>6. g.addr = a /\ g.size = z BY DEF GapAt
<1>7. z \in 1..Span BY <1>0, <1>2
<1>8. g \in [addr : Froms, size : 1..Span] BY <1>3, <1>7 DEF GapAt
<1>9. FirstFitHeap!Gap =
         {q \in [addr : Froms, size : 1..Span] :
            /\ q.addr + q.size \in Tos
            /\ FirstFitHeap!Taken \cap (q.addr..q.addr + q.size - 1) = {}}
  BY DEF FirstFitHeap!Gap
<1> HIDE DEF z, g, Froms, Tos
<1>10. g.addr + g.size \in Tos BY <1>4, <1>6
<1>11. FirstFitHeap!Taken \cap (g.addr..g.addr + g.size - 1) = {} BY <1>5, <1>6
<1>12. g \in FirstFitHeap!Gap BY <1>8, <1>9, <1>10, <1>11
<1> QED BY <1>12 DEF g

LEMMA GapIsBlock ==
    ASSUME NEW F, Layout(hdr, Live, F), NEW g \in FirstFitHeap!Gap
    PROVE  g.addr \in F /\ g = GapAt(g.addr)
<1> DEFINE a == g.addr
           z == g.size
           e == a + hdr[a].size
           Froms == {0} \cup {b.addr + b.size : b \in LiveBlocks}
           Tos == {Span} \cup {b.addr : b \in LiveBlocks}
<1>0. Span \in Nat /\ End = Span BY HeapAssumption DEF End
<1>1. /\ Live \cup F \subseteq 0..End - 1 /\ Live \cap F = {} /\ Apart(hdr, F)
      /\ \A b \in Live \cup F : hdr[b].size \in Nat \ {0} /\ b + hdr[b].size <= End
      /\ \A b, c \in Live \cup F : b < c => b + hdr[b].size <= c
  BY DEF Layout, Tiled
<1>2. FirstFitHeap!Gap =
         {q \in [addr : Froms, size : 1..Span] :
            /\ q.addr + q.size \in Tos
            /\ FirstFitHeap!Taken \cap (q.addr..q.addr + q.size - 1) = {}}
  BY DEF FirstFitHeap!Gap
<1>3. /\ g = [addr |-> a, size |-> z] /\ a \in Froms /\ z \in 1..Span
      /\ a + z \in Tos /\ FirstFitHeap!Taken \cap (a..a + z - 1) = {}
  BY <1>2
<1>4. a = 0 \/ \E d \in Live : d + hdr[d].size = a BY <1>3 DEF LiveBlocks, Live
<1>5. a + z = Span \/ a + z \in Live BY <1>3 DEF LiveBlocks, Live
<1>6. \A d \in Live : d..d + hdr[d].size - 1 \subseteq FirstFitHeap!Taken
  BY TakenHeld DEF Held
<1> HIDE DEF a, z, Froms, Tos
<1>7. \A d \in Live : d \in Nat /\ hdr[d].size \in Nat \ {0} BY <1>0, <1>1
<1>8. a \in Nat /\ z \in Nat \ {0} BY <1>0, <1>3, <1>4, <1>7
<1>9. a + z <= End BY <1>0, <1>1, <1>5
<1>10. a \in 0..End - 1 BY <1>0, <1>8, <1>9
<1>11. a \notin Live /\ \A d \in Live : d \in a..a + z - 1 => FALSE
  <2> SUFFICES ASSUME NEW d \in Live, d \in a..a + z - 1 PROVE FALSE
    <3>1. a \in a..a + z - 1 BY <1>8
    <3> QED BY <3>1
  <2>1. d \in d..d + hdr[d].size - 1 BY <1>7
  <2> QED BY <2>1, <1>3, <1>6
<1>12. a \in F BY <1>4, <1>10, <1>11, BlockAt
<1>13. /\ hdr[a].size \in Nat \ {0} /\ e \in Nat /\ e <= End
  BY <1>0, <1>1, <1>8, <1>12
<1>14. ~(e < a + z)
  <2> SUFFICES ASSUME e < a + z PROVE FALSE OBVIOUS
  <2>1. e \in 0..End - 1 BY <1>0, <1>8, <1>9, <1>13
  <2>2. e \in Live \cup F BY <2>1, <1>12, BlockAt
  <2>3. e \in Live BY <2>2, <1>1, <1>12 DEF Apart
  <2>4. e \in a..a + z - 1 BY <1>8, <1>13
  <2> QED BY <2>3, <2>4, <1>11
<1>15. ~(a + z < e)
  <2> SUFFICES ASSUME a + z < e PROVE FALSE OBVIOUS
  <2>1. a + z \in Live BY <1>0, <1>5, <1>8, <1>13
  <2>2. a < a + z BY <1>8
  <2>3. e <= a + z BY <2>1, <2>2, <1>1, <1>12
  <2> QED BY <2>3, <1>8, <1>13
<1>16. hdr[a].size = z BY <1>8, <1>13, <1>14, <1>15
<1>17. g = GapAt(a) BY <1>3, <1>16 DEF GapAt
<1> QED BY <1>12, <1>17 DEF a

\* The memory that FirstFitHeap and kFreeMemory count.
LEMMA FreeIsChain ==
    ASSUME NEW F, Layout(hdr, Live, F),
           free = Span - Cardinality(Held(hdr, Live))
    PROVE  /\ FirstFitHeap!FreeBytes = free
           /\ free = Cardinality(Held(hdr, F))
           /\ \A a \in F : hdr[a].size <= free
<1> DEFINE L == Held(hdr, Live)
           C == Held(hdr, F)
<1>0. Span \in Nat /\ End = Span BY HeapAssumption DEF End
<1>1. /\ Live \cup F \subseteq 0..End - 1 /\ Live \cap F = {}
      /\ \A b \in Live \cup F : hdr[b].size \in Nat \ {0} /\ b + hdr[b].size <= End
      /\ \A b, c \in Live \cup F : b < c => b + hdr[b].size <= c
      /\ \A y \in 0..End - 1 : \E b \in Live \cup F : b <= y /\ y < b + hdr[b].size
  BY DEF Layout, Tiled
<1>2. \A b \in Live \cup F : b \in Nat /\ hdr[b].size \in Nat BY <1>0, <1>1
<1>3. L \cup C = 0..Span - 1
  <2>1. ASSUME NEW y \in 0..Span - 1 PROVE y \in L \cup C
    <3>1. PICK b \in Live \cup F : b <= y /\ y < b + hdr[b].size BY <1>0, <1>1
    <3>2. y \in b..b + hdr[b].size - 1 BY <3>1, <1>0, <1>2
    <3> QED BY <3>2 DEF Held
  <2>2. ASSUME NEW b \in Live \cup F, NEW y \in b..b + hdr[b].size - 1
        PROVE  y \in 0..Span - 1
    <3>1. b + hdr[b].size <= Span BY <1>0, <1>1
    <3> QED BY <3>1, <1>0, <1>2
  <2> QED BY <2>1, <2>2 DEF Held
<1>4. L \cap C = {}
  <2> SUFFICES ASSUME NEW a \in Live, NEW b \in F,
                      NEW x \in a..a + hdr[a].size - 1, x \in b..b + hdr[b].size - 1
               PROVE  FALSE
    BY DEF Held
  <2>1. /\ a \in Nat /\ hdr[a].size \in Nat /\ b \in Nat /\ hdr[b].size \in Nat
        /\ a # b
    BY <1>1, <1>2
  <2>2. /\ a < b => a + hdr[a].size <= b
        /\ b < a => b + hdr[b].size <= a
    BY <1>1
  <2> QED BY <2>1, <2>2
<1> HIDE DEF L, C
<1>5. IsFiniteSet(0..Span - 1) /\ Cardinality(0..Span - 1) = Span
  <2>1. /\ IsFiniteSet(0..Span - 1)
        /\ Cardinality(0..Span - 1) = IF 0 > Span - 1 THEN 0 ELSE (Span - 1) - 0 + 1
    BY <1>0, FS_Interval
  <2> QED BY <2>1, <1>0
<1>6. L \subseteq 0..Span - 1 /\ C \subseteq 0..Span - 1 BY <1>3
<1>7. IsFiniteSet(L) /\ IsFiniteSet(C) BY <1>5, <1>6, FS_Subset
<1>8. Cardinality(L) \in Nat /\ Cardinality(C) \in Nat BY <1>7, FS_CardinalityType
<1>9. Cardinality(L \cup C) = Cardinality(L) + Cardinality(C) - Cardinality(L \cap C)
  BY <1>7, FS_Union
<1>10. Cardinality(L \cap C) = 0 BY <1>4, FS_EmptySet
<1>11. Span = Cardinality(L) + Cardinality(C)
  <2>1. Cardinality(L \cup C) = Span BY <1>3, <1>5
  <2> QED BY <2>1, <1>0, <1>8, <1>9, <1>10
<1>12. free = Cardinality(C) BY <1>0, <1>8, <1>11 DEF L
<1>13. FirstFitHeap!Taken = L BY TakenHeld DEF L
<1>14. FirstFitHeap!FreeBytes = free
  <2>1. FirstFitHeap!FreeBytes = Span - Cardinality(FirstFitHeap!Taken)
    BY DEF FirstFitHeap!FreeBytes, FirstFitHeap!Cardinality, Cardinality
  <2> QED BY <2>1, <1>13 DEF L
<1>15. ASSUME NEW a \in F PROVE hdr[a].size <= free
  <2> DEFINE z == hdr[a].size
             B == a..a + z - 1
  <2>1. B \subseteq C BY DEF C, Held
  <2>2. a \in Nat /\ z \in Nat \ {0} BY <1>0, <1>1
  <2> HIDE DEF z
  <2>3. Cardinality(B) = IF a > a + z - 1 THEN 0 ELSE (a + z - 1) - a + 1
    BY <2>2, FS_Interval
  <2>4. Cardinality(B) = z BY <2>2, <2>3
  <2>5. Cardinality(B) <= Cardinality(C) BY <2>1, <1>7, FS_Subset
  <2> QED BY <2>4, <2>5, <1>12 DEF z
<1> QED BY <1>12, <1>14, <1>15 DEF C

-----------------------------------------------------------------------------
LEMMA Untouched ==
    ASSUME BlocksInv, UNCHANGED <<mem, owner, lastFreed>>,
           given' \in 0..End - 1 \cup {Nowhere},
           deleting' \in Owner \cup {NoOwner}, freeing' \in 0..End - 1 \cup {Nowhere}
    PROVE  BlocksInv' /\ LiveBlocks' = LiveBlocks /\ Live' = Live
<1> USE DEF mem
<1>1. Live' = Live /\ OnChain' = OnChain BY DEF Live, OnChain
<1>2. TypeOK' /\ ListsExact' /\ LinksAgree'
  BY DEF BlocksInv, TypeOK, ListsExact, LinksAgree, Threads, Behind, Live
<1>3. Layout(hdr, Live, OnChain)' BY <1>1 DEF BlocksInv
<1>4. (free = Span - Cardinality(Held(hdr, Live)))' BY <1>1 DEF BlocksInv
<1>5. LiveInv' /\ LastInv' BY <1>1 DEF BlocksInv, LiveInv, LastInv
<1>6. LiveBlocks' = LiveBlocks BY DEF LiveBlocks
<1> QED BY <1>1, <1>2, <1>3, <1>4, <1>5, <1>6 DEF BlocksInv

LEMMA FailStep ==
    ASSUME BlocksInv, NEW n \in Request, AllocFails(n)
    PROVE  BlocksInv' /\ Live' = Live /\ FirstFitHeap!SpecFail(n)
<1> DEFINE need == n + HeaderSize
<1>0. Span \in Nat /\ End = Span /\ n \in Nat /\ HeaderSize \in Nat
  BY HeapAssumption DEF End
<1>1. BlocksInv' /\ LiveBlocks' = LiveBlocks /\ Live' = Live
  <2>1. given' \in 0..End - 1 \cup {Nowhere} BY DEF AllocFails
  <2>2. deleting' \in Owner \cup {NoOwner} /\ freeing' \in 0..End - 1 \cup {Nowhere}
    BY DEF AllocFails, loop, BlocksInv, TypeOK
  <2> QED BY <2>1, <2>2, Untouched DEF AllocFails
<1>2. Layout(hdr, Live, OnChain) BY DEF BlocksInv
<1>3. ASSUME NEW g \in FirstFitHeap!Gap, g.size >= n + HeaderSize PROVE FALSE
  <2> DEFINE a == g.addr
  <2>1. a \in OnChain /\ g = GapAt(a) BY <1>2, GapIsBlock
  <2>2. g.size = hdr[a].size BY <2>1 DEF GapAt
  <2> HIDE DEF a
  <2>3. hdr[a].size <= free BY <2>1, <1>2, FreeIsChain DEF BlocksInv
  <2>4. hdr[a].size \in Nat /\ a \in Nat /\ a < End /\ free \in Nat
    BY <2>1, <1>0, <1>2 DEF BlocksInv, TypeOK, Layout, Tiled
  <2>5. CASE need > free BY <2>2, <2>3, <2>4, <2>5, <1>0, <1>3
  <2>6. CASE FirstFitting(need) = End
    <3>1. Ordered(hdr, OnChain) BY <1>2 DEF Layout
    <3> HIDE DEF need
    <3>2. \A b \in OnChain : hdr[b].size >= need => End <= b
      BY <3>1, <2>6, StopsAtFit
    <3>3. hdr[a].size >= need BY <2>2, <1>3 DEF need
    <3> QED BY <3>2, <3>3, <2>1, <2>4, <1>0
  <2> QED BY <2>5, <2>6 DEF AllocFails
<1>4. FirstFitHeap!Fitting(n) = {} BY <1>3 DEF FirstFitHeap!Fitting
<1> QED BY <1>1, <1>4 DEF FirstFitHeap!SpecFail, AllocFails, mem

\* mem_heapAlloc has allocated block b.
Allocated(b, need, o) ==
    /\ b \in OnChain /\ need \in Nat \ {0} /\ need <= hdr[b].size
    /\ \A a \in OnChain : hdr[a].size >= need => b <= a
    /\ Layout(hdr', Live \cup {b}, OnChain')
    /\ \A a \in Live : /\ hdr'[a].size = hdr[a].size
                       /\ hdr'[a].valid = hdr[a].valid /\ hdr'[a].list = hdr[a].list
                       /\ hdr'[a].next = hdr[a].next
    /\ hdr'[b].valid /\ hdr'[b].list = o /\ hdr'[b].next = Nowhere
    /\ hdr'[b].size = IF hdr[b].size - need <= MinBlock THEN hdr[b].size ELSE need
    /\ free' = free - hdr'[b].size

LEMMA AllocHeaders ==
    ASSUME BlocksInv, NEW n \in Request, NEW o \in Owner \cup {NoOwner},
           Alloc(o, n), NEW need, need = n + HeaderSize,
           NEW b, b = FirstFitting(need)
    PROVE  Allocated(b, need, o)
<1>0. /\ Span \in Nat /\ End = Span /\ n \in Nat \ {0} /\ HeaderSize \in Nat
      /\ need \in Nat \ {0}
  BY HeapAssumption DEF End
<1>1. Layout(hdr, Live, OnChain) BY DEF BlocksInv
<1>2. b # End BY DEF Alloc
<1>3. /\ b \in OnChain /\ hdr[b].size >= need
      /\ \A a \in OnChain : hdr[a].size >= need => b <= a
  BY <1>1, <1>2, StopsAtFit DEF Layout
<1>4. /\ hdr[b].size \in Nat /\ b \notin Live
      /\ \A a \in Live \cup OnChain : a \in 0..End - 1
  BY <1>1, <1>3 DEF Layout, Tiled
<1>5. need <= hdr[b].size BY <1>0, <1>3, <1>4
<1> DEFINE h == Cut(b, need)
<1>d. h = Cut(b, need) OBVIOUS
<1>e. hdr' = Taken(h, b, o) /\ free' = free - h[b].size BY DEF Alloc, Taken
<1> HIDE DEF h
<1>6. /\ \E G : Layout(h, Live \cup {b}, G)
      /\ \A a \in Live : h[a].size = hdr[a].size /\ h[a].next = hdr[a].next
      /\ \A a \in 0..End - 1 : h[a].valid = hdr[a].valid /\ h[a].list = hdr[a].list
      /\ h[b].size = IF hdr[b].size - need <= MinBlock THEN hdr[b].size ELSE need
  <2>1. Severed(h, Live, b, need) BY <1>0, <1>1, <1>3, <1>5, <1>d, Cutting
  <2> QED BY <2>1 DEF Severed
<1>7. PICK G : Layout(h, Live \cup {b}, G) BY <1>6
<1> DEFINE D == Live \cup {b}
<1>8. b \in D /\ \A a \in Live : a \in D /\ a # b BY <1>4
<1> HIDE DEF D
<1>9. /\ Layout(hdr', D, G)
      /\ \A a \in D : /\ hdr'[a].size = h[a].size
                      /\ a # b => /\ hdr'[a].valid = h[a].valid
                                  /\ hdr'[a].list = h[a].list
                                  /\ hdr'[a].next = h[a].next
      /\ hdr'[b].valid /\ hdr'[b].list = o /\ hdr'[b].next = Nowhere
  BY <1>7, <1>8, <1>e, Taking DEF D
<1>10. OnChain' = G
  <2>1. Ordered(hdr', G) BY <1>9 DEF Layout
  <2> QED BY <2>1, ChainBlocks DEF OnChain
<1>11. Layout(hdr', Live \cup {b}, OnChain') BY <1>9, <1>10 DEF D
<1>12. \A a \in Live : /\ hdr'[a].size = hdr[a].size
                       /\ hdr'[a].valid = hdr[a].valid /\ hdr'[a].list = hdr[a].list
                       /\ hdr'[a].next = hdr[a].next
  BY <1>4, <1>6, <1>8, <1>9
<1>13. hdr'[b].size = h[b].size BY <1>8, <1>9
<1> QED BY <1>0, <1>3, <1>5, <1>6, <1>9, <1>11, <1>12, <1>13, <1>e DEF Allocated

LEMMA AllocStep ==
    ASSUME BlocksInv, NEW n \in Request, NEW o \in Owner \cup {NoOwner}, Alloc(o, n)
    PROVE  /\ BlocksInv' /\ FirstFitHeap!SpecAlloc(n)
           /\ Live \subseteq Live'
<1> DEFINE need == n + HeaderSize
           b == FirstFitting(need)
           z == hdr'[b].size
<1>0. /\ Span \in Nat /\ End = Span /\ n \in Nat /\ HeaderSize \in Nat
      /\ MinBlock \in Nat /\ Nowhere \notin 0..Span /\ NoOwner \notin Owner
  BY HeapAssumption DEF End
<1>1. /\ owner' = [a \in Live \cup {b} |-> IF a = b THEN o ELSE owner[a]]
      /\ allocList' = IF o = NoOwner THEN allocList
                      ELSE [allocList EXCEPT ![o] = Append(@, b)]
      /\ least' = IF free' < least THEN free' ELSE least
      /\ given' = b /\ lastFreed' = Nowhere
      /\ link' = IF o = NoOwner THEN link ELSE LinkedBack(o, b)
      /\ deleting' = deleting /\ freeing' = freeing
  BY DEF Alloc, Live, loop
<1>2. Allocated(b, need, o) BY AllocHeaders
<1> HIDE DEF need, b
<1>3. /\ b \in OnChain /\ need \in Nat \ {0} /\ need <= hdr[b].size
      /\ \A a \in OnChain : hdr[a].size >= need => b <= a
      /\ Layout(hdr', Live \cup {b}, OnChain')
      /\ \A a \in Live : /\ hdr'[a].size = hdr[a].size
                         /\ hdr'[a].valid = hdr[a].valid /\ hdr'[a].list = hdr[a].list
                         /\ hdr'[a].next = hdr[a].next
      /\ hdr'[b].valid /\ hdr'[b].list = o /\ hdr'[b].next = Nowhere
      /\ z = IF hdr[b].size - need <= MinBlock THEN hdr[b].size ELSE need
      /\ free' = free - z
  BY <1>2 DEF Allocated
<1> HIDE DEF z
<1>4. Live' = Live \cup {b} BY <1>1 DEF Live
<1>5. /\ Layout(hdr, Live, OnChain) /\ TypeOK /\ ListsExact /\ LinksAgree
      /\ LiveInv /\ free = Span - Cardinality(Held(hdr, Live))
  BY DEF BlocksInv
<1>6. b \notin Live /\ b \in 0..End - 1 /\ \A a \in Live : a # b
  BY <1>3, <1>5 DEF Layout, Tiled
<1>7. Layout(hdr, Live, OnChain)' BY <1>3, <1>4
<1>8. (free = Span - Cardinality(Held(hdr, Live)))'
  <2>1. Held(hdr', Live) = Held(hdr, Live) BY <1>3, HeldSame
  <2>2. Cardinality(Held(hdr', Live \cup {b})) = Cardinality(Held(hdr', Live)) + z
    <3>1. Layout(hdr', Live \cup {b}, OnChain') BY <1>3
    <3>2. Cardinality(Held(hdr', Live \cup {b}))
            = Cardinality(Held(hdr', Live)) + hdr'[b].size
      BY <3>1, <1>6, HeldGrows
    <3> QED BY <3>2 DEF z
  <2>3. Cardinality(Held(hdr, Live)) \in Nat BY <1>0, <1>5, HeldFinite
  <2>4. z \in Nat BY <1>7, <1>4 DEF Layout, Tiled, z
  <2>5. free' = Span - Cardinality(Held(hdr', Live \cup {b}))
    BY <2>1, <2>2, <2>3, <2>4, <1>0, <1>3, <1>5
  <2> QED BY <2>5, <1>4
<1>9. free' \in 0..Span
  <2>1. Cardinality(Held(hdr', Live \cup {b})) \in 0..Span BY <1>3, HeldFinite
  <2> QED BY <2>1, <1>0, <1>4, <1>8
<1>10. ListsExact' /\ LinksAgree' /\ allocList' \in [Owner -> Seq(0..End - 1)]
  <2>1. allocList \in [Owner -> Seq(0..End - 1)] BY <1>5 DEF TypeOK
  <2>2. ASSUME NEW p \in Owner
        PROVE  /\ allocList'[p] \in Seq(0..End - 1)
               /\ ToSet(allocList'[p]) = {a \in Live' : owner'[a] = p}
               /\ IsInjective(allocList'[p]) /\ Threads(link', allocList'[p])
    <3> DEFINE s == allocList[p]
    <3>1. /\ s \in Seq(0..End - 1) /\ IsInjective(s)
          /\ ToSet(s) = {a \in Live : owner[a] = p} /\ Threads(link, s)
      BY <2>1, <1>5 DEF ListsExact, LinksAgree
    <3>e. /\ Len(s) \in Nat
          /\ \A i \in 1..Len(s) : s[i] \in ToSet(s) /\ s[i] \in 0..End - 1
          /\ \A i, j \in 1..Len(s) : s[i] = s[j] => i = j
      <4> DEFINE S == 0..End - 1
      <4>1. s \in Seq(S) BY <3>1
      <4> HIDE DEF S, s
      <4>2. /\ Len(s) \in Nat /\ \A i \in 1..Len(s) : s[i] \in S
            /\ ToSet(s) = {s[i] : i \in 1..Len(s)}
            /\ \A i, j \in 1..Len(s) : s[i] = s[j] => i = j
        BY <4>1, <3>1, ElementsOf
      <4> QED BY <4>2 DEF S
    <3>2. CASE p = o
      <4>1. allocList'[p] = Append(s, b) BY <3>2, <2>1, <1>0, <1>1
      <4> HIDE DEF s
      <4>2. b \notin ToSet(s) BY <3>1, <1>6
      <4>3. /\ Append(s, b) \in Seq(0..End - 1) /\ IsInjective(Append(s, b))
            /\ ToSet(Append(s, b)) = ToSet(s) \cup {b}
        <5> DEFINE S == 0..End - 1
        <5>1. s \in Seq(S) /\ IsInjective(s) /\ b \in S BY <3>1, <1>6
        <5> HIDE DEF S
        <5>2. /\ Append(s, b) \in Seq(S) /\ IsInjective(Append(s, b))
              /\ ToSet(Append(s, b)) = ToSet(s) \cup {b}
          BY <4>2, <5>1, WithOneMore
        <5> QED BY <5>2 DEF S
      <4>4. {a \in Live' : owner'[a] = p} = {a \in Live : owner[a] = p} \cup {b}
        BY <3>2, <1>1, <1>4, <1>6
      <4>5. Threads(link', Append(s, b))
        <5>1. link' = LinkedBack(p, b) BY <3>2, <1>0, <1>1
        <5>2. link'[b] = Nowhere BY <5>1, <1>6 DEF LinkedBack
        <5>3. ASSUME NEW i \in 1..Len(s)
              PROVE  link'[s[i]] = IF i = Len(s) THEN b ELSE link[s[i]]
          <6>1. s[i] \in 0..End - 1 /\ s[i] # b BY <3>e, <4>2
          <6>2. s # <<>> /\ Last(s) = s[Len(s)] /\ Len(s) \in 1..Len(s)
            BY <3>e DEF Last
          <6>3. s[i] = Last(s) <=> i = Len(s) BY <6>2, <3>e
          <6>4. link'[s[i]] = IF s[i] = Last(s) THEN b ELSE link[s[i]]
            BY <5>1, <6>1, <6>2 DEF LinkedBack, s
          <6> QED BY <6>3, <6>4
        <5> DEFINE S == 0..End - 1
        <5>4. s \in Seq(S) /\ b \in S BY <3>1, <1>6
        <5> HIDE DEF S
        <5> QED BY <5>2, <5>3, <5>4, <3>1, ThreadedBack
      <4> QED BY <4>1, <4>3, <4>4, <4>5, <3>1
    <3>3. CASE p # o
      <4>1. allocList'[p] = s BY <3>3, <2>1, <1>0, <1>1
      <4>2. {a \in Live' : owner'[a] = p} = {a \in Live : owner[a] = p}
        BY <3>3, <1>1, <1>4, <1>6
      <4>3. ASSUME NEW i \in 1..Len(s) PROVE link'[s[i]] = link[s[i]]
        <5>1. s[i] \in Live /\ owner[s[i]] = p /\ s[i] \in 0..End - 1 BY <3>1, <3>e
        <5>2. CASE o = NoOwner BY <5>2, <1>1
        <5>3. CASE o # NoOwner
          <6> DEFINE q == allocList[o]
          <6>1. o \in Owner BY <5>3
          <6>2. q \in Seq(0..End - 1) /\ ToSet(q) = {a \in Live : owner[a] = o}
            BY <6>1, <2>1, <1>5 DEF ListsExact
          <6>3. q # <<>> => Last(q) \in ToSet(q)
            <7>1. Len(q) \in Nat /\ \A j \in 1..Len(q) : q[j] \in ToSet(q)
              BY <6>2, ElementsOf
            <7>2. q # <<>> => Len(q) # 0 BY <6>2, EmptySeq
            <7> QED BY <7>1, <7>2 DEF Last
          <6>4. q # <<>> => s[i] # Last(q) BY <6>2, <6>3, <5>1, <3>3
          <6>5. s[i] # b BY <5>1, <1>6
          <6> QED BY <6>4, <6>5, <5>1, <5>3, <1>1 DEF LinkedBack
        <5> QED BY <5>2, <5>3
      <4>4. Threads(link', s) BY <4>3, <3>1 DEF Threads
      <4> QED BY <4>1, <4>2, <4>4, <3>1
    <3> QED BY <3>2, <3>3
  <2>3. allocList' \in [Owner -> Seq(0..End - 1)]
    <3>1. /\ DOMAIN allocList' = Owner
          /\ allocList' = [p \in Owner |-> allocList'[p]]
      BY <2>1, <1>1
    <3> QED BY <3>1, <2>2
  <2> QED BY <2>2, <2>3 DEF ListsExact, LinksAgree, Live
<1>11. TypeOK'
  <2>1. hdr' \in [Start..End -> Header] BY <1>3 DEF Layout, Headers
  <2>2. least' \in 0..Span BY <1>1, <1>5, <1>9 DEF TypeOK
  <2>3. given' \in 0..End - 1 \cup {Nowhere} BY <1>1, <1>6
  <2>4. link' \in [0..End - 1 -> 0..End - 1 \cup {Nowhere}]
    BY <1>1, <1>5, <1>6 DEF TypeOK, LinkedBack
  <2>5. deleting' \in Owner \cup {NoOwner} /\ freeing' \in 0..End - 1 \cup {Nowhere}
    BY <1>1, <1>5 DEF TypeOK
  <2> QED BY <2>1, <2>2, <2>3, <2>4, <2>5, <1>9, <1>10 DEF TypeOK
<1>12. LiveInv'
  <2>1. \A a \in Live \cup {b} : /\ hdr'[a].valid /\ hdr'[a].list = owner'[a]
                                /\ hdr'[a].next = Nowhere
    BY <1>1, <1>3, <1>5, <1>6 DEF LiveInv
  <2>2. owner' \in [Live \cup {b} -> Owner \cup {NoOwner}]
    BY <1>1, <1>5 DEF LiveInv
  <2> QED BY <2>1, <2>2, <1>4 DEF LiveInv
<1>13. LastInv' BY <1>1 DEF LastInv
<1>14. BlocksInv' BY <1>7, <1>8, <1>10, <1>11, <1>12, <1>13 DEF BlocksInv
<1>15. FirstFitHeap!SpecAlloc(n)
  <2> DEFINE g == GapAt(b)
  <2>1. g \in FirstFitHeap!Gap BY <1>3, <1>5, BlockIsGap
  <2>2. g.addr = b /\ g.size = hdr[b].size BY DEF GapAt
  <2> HIDE DEF g
  <2>3. hdr[b].size \in Nat /\ need = n + HeaderSize
    BY <1>3, <1>5 DEF Layout, Tiled, need
  <2>4. g \in FirstFitHeap!Fitting(n)
    <3>1. g.size >= n + HeaderSize BY <2>2, <2>3, <1>0, <1>3
    <3> QED BY <3>1, <2>1 DEF FirstFitHeap!Fitting
  <2>5. ASSUME NEW f \in FirstFitHeap!Fitting(n) PROVE g.addr <= f.addr
    <3>1. f \in FirstFitHeap!Gap /\ f.size >= n + HeaderSize
      BY DEF FirstFitHeap!Fitting
    <3>2. f.addr \in OnChain /\ f = GapAt(f.addr) BY <3>1, <1>5, GapIsBlock
    <3>3. f.size = hdr[f.addr].size BY <3>2 DEF GapAt
    <3>4. hdr[f.addr].size >= need BY <3>1, <3>3, <2>3
    <3> QED BY <3>2, <3>4, <2>2, <1>3
  <2>6. z = IF g.size - (n + HeaderSize) > MinBlock THEN n + HeaderSize ELSE g.size
    BY <2>2, <2>3, <1>0, <1>3
  <2>7. LiveBlocks' = LiveBlocks \cup {[addr |-> g.addr, size |-> z]}
    <3>1. LiveBlocks' = {[addr |-> a, size |-> hdr'[a].size] : a \in Live \cup {b}}
      BY <1>4 DEF LiveBlocks, Live
    <3>2. LiveBlocks = {[addr |-> a, size |-> hdr[a].size] : a \in Live}
      BY DEF LiveBlocks, Live
    <3>3. {[addr |-> a, size |-> hdr[a].size] : a \in Live}
            = {[addr |-> a, size |-> hdr'[a].size] : a \in Live}
      BY <1>3
    <3> QED BY <3>1, <3>2, <3>3, <2>2 DEF z
  <2>8. least' = IF FirstFitHeap!FreeBytes - z < least
                 THEN FirstFitHeap!FreeBytes - z ELSE least
    <3>1. FirstFitHeap!FreeBytes = free BY <1>5, FreeIsChain
    <3> QED BY <3>1, <1>1, <1>3
  <2>9. given' = g.addr BY <2>2, <1>1
  <2> QED BY <2>4, <2>5, <2>6, <2>7, <2>8, <2>9 DEF FirstFitHeap!SpecAlloc
<1> QED BY <1>4, <1>14, <1>15

\* mem_heapFree of a live block.
LEMMA Released ==
    ASSUME BlocksInv, NEW a \in Live, HeapFree(a)
    PROVE  /\ hdr' = InsertFreeBlock(Dropped(hdr, a), a)
           /\ OffList(owner[a], a) /\ free' = free + hdr[a].size
           /\ owner[a] \in Owner \cup {NoOwner}
BY DEF BlocksInv, LiveInv, HeapFree, Dropped

LEMMA ReleaseStep ==
    ASSUME BlocksInv, NEW a \in Live, HeapFree(a), Forget(a),
           deleting' \in Owner \cup {NoOwner}, freeing' \in 0..End - 1 \cup {Nowhere}
    PROVE  /\ BlocksInv' /\ FirstFitHeap!SpecFree
           /\ Live' = Live \ {a}
<1> DEFINE D == Live \ {a}
           h == Dropped(hdr, a)
           g == InsertFreeBlock(h, a)
           o == owner[a]
           z == hdr[a].size
<1>0. /\ Span \in Nat /\ End = Span /\ NoOwner \notin Owner
      /\ Nowhere \notin 0..Span
  BY HeapAssumption DEF End
<1>1. /\ Layout(hdr, Live, OnChain) /\ TypeOK /\ ListsExact /\ LinksAgree
      /\ LiveInv /\ free = Span - Cardinality(Held(hdr, Live))
  BY DEF BlocksInv
<1>2. o \in Owner \cup {NoOwner} BY Released
<1>3. /\ hdr' = g /\ free' = free + z
      /\ allocList' = IF o = NoOwner THEN allocList
                      ELSE [allocList EXCEPT ![o] = Without(@, a)]
      /\ link' = IF o = NoOwner THEN link ELSE LinkedPast(o, a)
  BY Released DEF OffList
<1>4. /\ owner' = [b \in D |-> owner[b]] /\ lastFreed' = a
      /\ least' = least /\ given' = given
  BY DEF Forget, Live
<1> HIDE DEF o
<1>5. Live' = D BY <1>4 DEF Live
<1>6. /\ Live \cup OnChain \subseteq 0..End - 1 /\ a \notin OnChain
      /\ Live = D \cup {a} /\ a \notin D /\ z \in Nat /\ D \cap OnChain = {}
  BY <1>1 DEF Layout, Tiled
<1>e. h = Dropped(hdr, a) /\ g = InsertFreeBlock(h, a) OBVIOUS
<1> HIDE DEF D, h, g
<1>7. /\ Layout(h, Live, OnChain) /\ ~h[a].valid
      /\ \A b \in Live : h[b].size = hdr[b].size /\ h[b].next = hdr[b].next
      /\ \A b \in 0..End - 1 : b # a => /\ h[b].valid = hdr[b].valid
                                        /\ h[b].list = hdr[b].list
  BY <1>1, <1>e, Dropping
<1>8. /\ \E G : G \subseteq OnChain \cup {a} /\ Layout(g, D, G)
      /\ \A b \in D : g[b].size = h[b].size /\ g[b].next = h[b].next
      /\ \A b \in 0..End - 1 : g[b].valid = h[b].valid /\ g[b].list = h[b].list
  <2>1. D \cup OnChain \cup {a} = Live \cup OnChain BY <1>6
  <2>2. /\ Headers(h) /\ Tiled(h, D \cup OnChain \cup {a})
        /\ Ordered(h, OnChain) /\ Apart(h, OnChain)
    BY <2>1, <1>7 DEF Layout
  <2>3. a \in 0..End - 1 /\ a \notin D \cup OnChain BY <1>6
  <2> QED BY <2>2, <2>3, <1>6, <1>e, Insertion
<1>9. PICK G : Layout(g, D, G) BY <1>8
<1>10. OnChain' = G
  <2>1. Ordered(hdr', G) BY <1>3, <1>9 DEF Layout
  <2> QED BY <2>1, ChainBlocks DEF OnChain
<1>11. Layout(hdr, Live, OnChain)' BY <1>3, <1>5, <1>9, <1>10
<1>12. \A b \in D : /\ hdr'[b].size = hdr[b].size /\ hdr'[b].next = hdr[b].next
                    /\ hdr'[b].valid = hdr[b].valid /\ hdr'[b].list = hdr[b].list
  <2> SUFFICES ASSUME NEW b \in D
               PROVE  /\ hdr'[b].size = hdr[b].size /\ hdr'[b].next = hdr[b].next
                      /\ hdr'[b].valid = hdr[b].valid /\ hdr'[b].list = hdr[b].list
    OBVIOUS
  <2>1. b \in Live /\ b \in 0..End - 1 /\ b # a BY <1>6
  <2> QED BY <2>1, <1>3, <1>7, <1>8
<1>13. ~hdr'[a].valid /\ a \in 0..End - 1 BY <1>3, <1>6, <1>7, <1>8
<1>14. (free = Span - Cardinality(Held(hdr, Live)))'
  <2>1. Held(hdr', D) = Held(hdr, D) BY <1>12, HeldSame
  <2>2. Cardinality(Held(hdr, D \cup {a})) = Cardinality(Held(hdr, D)) + z
    <3>1. Layout(hdr, D \cup {a}, OnChain) BY <1>1, <1>6
    <3> QED BY <3>1, <1>6, HeldGrows
  <2>3. Cardinality(Held(hdr', D)) \in Nat BY <1>0, <1>5, <1>11, HeldFinite
  <2>4. free' = Span - Cardinality(Held(hdr', D))
    <3>1. Cardinality(Held(hdr, Live)) = Cardinality(Held(hdr', D)) + z
      BY <2>1, <2>2, <1>6
    <3> QED BY <3>1, <2>3, <1>0, <1>1, <1>3, <1>6
  <2> QED BY <2>4, <1>5
<1>15. free' \in 0..Span
  <2>1. Cardinality(Held(hdr', D)) \in 0..Span BY <1>5, <1>11, HeldFinite
  <2> QED BY <2>1, <1>0, <1>5, <1>14
<1>16. ListsExact' /\ LinksAgree' /\ allocList' \in [Owner -> Seq(0..End - 1)]
  <2>1. allocList \in [Owner -> Seq(0..End - 1)] BY <1>1 DEF TypeOK
  <2>2. ASSUME NEW p \in Owner
        PROVE  /\ allocList'[p] \in Seq(0..End - 1)
               /\ ToSet(allocList'[p]) = {b \in Live' : owner'[b] = p}
               /\ IsInjective(allocList'[p]) /\ Threads(link', allocList'[p])
    <3> DEFINE s == allocList[p]
    <3>1. /\ s \in Seq(0..End - 1) /\ IsInjective(s)
          /\ ToSet(s) = {b \in Live : owner[b] = p} /\ Threads(link, s)
      BY <2>1, <1>1 DEF ListsExact, LinksAgree
    <3>e. \A i \in 1..Len(s) : s[i] \in ToSet(s) BY <3>1, ElementsOf
    <3>2. CASE p = o
      <4>1. allocList'[p] = Without(s, a) BY <3>2, <2>1, <1>0, <1>3
      <4> HIDE DEF s
      <4>2. a \in ToSet(s) BY <3>1, <3>2 DEF o
      <4>3. /\ Without(s, a) \in Seq(0..End - 1) /\ IsInjective(Without(s, a))
            /\ ToSet(Without(s, a)) = ToSet(s) \ {a}
        <5> DEFINE S == 0..End - 1
        <5>1. s \in Seq(S) /\ IsInjective(s) BY <3>1
        <5> HIDE DEF S
        <5>2. /\ Without(s, a) \in Seq(S) /\ IsInjective(Without(s, a))
              /\ ToSet(Without(s, a)) = ToSet(s) \ {a}
          BY <4>2, <5>1, WithoutOne
        <5> QED BY <5>2 DEF S
      <4>4. {b \in Live' : owner'[b] = p} = {b \in Live : owner[b] = p} \ {a}
        BY <1>4, <1>5, <1>6
      <4>5. Threads(link', Without(s, a))
        <5>1. link' = LinkedPast(p, a) BY <3>2, <1>0, <1>3
        <5>2. \A y \in ToSet(s) :
                 link'[y] = IF Precedes(s, y, a) THEN link[a] ELSE link[y]
          BY <5>1, <3>1, <1>6 DEF LinkedPast, s
        <5> DEFINE S == 0..End - 1
        <5>3. s \in Seq(S) BY <3>1
        <5> HIDE DEF S
        <5> QED BY <5>2, <5>3, <4>2, <3>1, ThreadedPast
      <4> QED BY <4>1, <4>3, <4>4, <4>5, <3>1
    <3>3. CASE p # o
      <4>1. allocList'[p] = s BY <3>3, <2>1, <1>0, <1>3
      <4>2. {b \in Live' : owner'[b] = p} = {b \in Live : owner[b] = p}
        BY <3>3, <1>4, <1>5, <1>6 DEF o
      <4>3. ASSUME NEW y \in ToSet(s) PROVE link'[y] = link[y]
        <5>1. y \in Live /\ owner[y] = p /\ y \in 0..End - 1 BY <3>1, <1>6
        <5>2. CASE o = NoOwner BY <5>2, <1>3
        <5>3. CASE o # NoOwner
          <6> DEFINE q == allocList[o]
          <6>1. q \in Seq(0..End - 1) /\ ToSet(q) = {b \in Live : owner[b] = o}
            BY <5>3, <1>2, <2>1, <1>1 DEF ListsExact
          <6>2. Len(q) \in Nat /\ \A j \in 1..Len(q) : q[j] \in ToSet(q)
            BY <6>1, ElementsOf
          <6>3. \A j \in 1..Len(q) - 1 : j \in 1..Len(q) BY <6>2
          <6>4. \A j \in 1..Len(q) - 1 : q[j] # y BY <6>1, <6>2, <6>3, <5>1, <3>3
          <6>5. ~Precedes(q, y, a) BY <6>4 DEF Precedes
          <6> QED BY <6>5, <5>1, <5>3, <1>3 DEF LinkedPast
        <5> QED BY <5>2, <5>3
      <4>4. Threads(link', s) BY <4>3, <3>1, <3>e DEF Threads
      <4> QED BY <4>1, <4>2, <4>4, <3>1
    <3> QED BY <3>2, <3>3
  <2>3. allocList' \in [Owner -> Seq(0..End - 1)]
    <3>1. /\ DOMAIN allocList' = Owner
          /\ allocList' = [p \in Owner |-> allocList'[p]]
      BY <2>1, <1>3
    <3> QED BY <3>1, <2>2
  <2> QED BY <2>2, <2>3 DEF ListsExact, LinksAgree, Live
<1>17. TypeOK'
  <2>1. hdr' \in [Start..End -> Header] BY <1>11 DEF Layout, Headers
  <2>2. link' \in [0..End - 1 -> 0..End - 1 \cup {Nowhere}]
    BY <1>1, <1>3, <1>6 DEF TypeOK, LinkedPast
  <2> QED BY <2>1, <2>2, <1>1, <1>4, <1>15, <1>16 DEF TypeOK
<1>18. LiveInv'
  <2>1. \A b \in D : /\ hdr'[b].valid /\ hdr'[b].list = owner'[b]
                   /\ hdr'[b].next = Nowhere
    BY <1>1, <1>4, <1>6, <1>12 DEF LiveInv
  <2>2. owner' \in [D -> Owner \cup {NoOwner}] BY <1>1, <1>4, <1>6 DEF LiveInv
  <2> QED BY <2>1, <2>2, <1>5 DEF LiveInv
<1>19. LastInv' BY <1>4, <1>5, <1>6, <1>13 DEF LastInv
<1>20. BlocksInv' BY <1>11, <1>14, <1>16, <1>17, <1>18, <1>19 DEF BlocksInv
<1>21. FirstFitHeap!SpecFree
  <2> DEFINE q == GapAt(a)
  <2>1. LiveBlocks' = {[addr |-> b, size |-> hdr'[b].size] : b \in D}
    BY <1>5 DEF LiveBlocks, Live
  <2>2. LiveBlocks = {GapAt(b) : b \in Live} BY DEF LiveBlocks, Live, GapAt
  <2>3. {[addr |-> b, size |-> hdr'[b].size] : b \in D} = {GapAt(b) : b \in D}
    BY <1>12 DEF GapAt
  <2>4. \A b \in D : GapAt(b) # q
    <3>1. \A b \in D : GapAt(b).addr = b /\ GapAt(a).addr = a BY DEF GapAt
    <3> QED BY <3>1, <1>6
  <2>5. q \in LiveBlocks BY <2>2
  <2> HIDE DEF q
  <2>6. LiveBlocks' = LiveBlocks \ {q}
    BY <2>1, <2>2, <2>3, <2>4, <1>6 DEF q
  <2> QED BY <2>5, <2>6, <1>4 DEF FirstFitHeap!SpecFree
<1> QED BY <1>5, <1>20, <1>21 DEF D

LEMMA FreeStep ==
    ASSUME HeapInv, NEW a \in 0..End - 1, Free(a)
    PROVE  /\ HeapInv'
           /\ FirstFitHeap!SpecFree \/ UNCHANGED <<LiveBlocks, given, least>>
<1>1. /\ BlocksInv /\ FreeingInv /\ deleting = NoOwner
      /\ deleting' = deleting /\ freeing' = freeing /\ HeapFree(a) /\ Forget(a)
  BY DEF HeapInv, Free, loop
<1>2. FreeingInv' BY <1>1 DEF FreeingInv
<1>l. deleting' \in Owner \cup {NoOwner} /\ freeing' \in 0..End - 1 \cup {Nowhere}
  BY <1>1 DEF BlocksInv, TypeOK
<1>3. CASE a \in Live
  <2>1. BlocksInv' /\ FirstFitHeap!SpecFree BY <1>1, <1>3, <1>l, ReleaseStep
  <2> QED BY <2>1, <1>2 DEF HeapInv
<1>4. CASE a \notin Live
  <2>1. a = lastFreed /\ a # Nowhere /\ ~hdr[a].valid
    <3>1. Nowhere \notin 0..Span /\ Span \in Nat BY HeapAssumption
    <3>2. a # Nowhere BY <3>1 DEF End
    <3>3. a = lastFreed BY <1>4 DEF Free, Live
    <3> QED BY <3>2, <3>3, <1>1 DEF BlocksInv, LastInv
  <2>2. UNCHANGED mem /\ given' = given /\ least' = least /\ lastFreed' = lastFreed
    BY <2>1, <1>1 DEF HeapFree, Forget, mem
  <2>3. owner' = owner
    <3>1. owner \in [Live -> Owner \cup {NoOwner}] BY <1>1 DEF BlocksInv, LiveInv
    <3>2. owner' = [b \in Live |-> owner[b]] BY <1>1, <1>4 DEF Forget, Live
    <3> QED BY <3>1, <3>2
  <2>4. given' \in 0..End - 1 \cup {Nowhere} BY <2>2, <1>1 DEF BlocksInv, TypeOK
  <2>5. BlocksInv' /\ LiveBlocks' = LiveBlocks
    BY <2>2, <2>3, <2>4, <1>1, <1>l, Untouched
  <2> QED BY <2>2, <2>5, <1>2 DEF HeapInv
<1> QED BY <1>3, <1>4

\* What is freed is live, the head of the list; its own link, which the free leaves
\* alone, is to the head of the list without it.
LEMMA FreeNextStep ==
    ASSUME HeapInv, FreeNext
    PROVE  HeapInv' /\ FirstFitHeap!SpecFree
<1> DEFINE a == freeing
           o == deleting
           s == allocList[o]
<1>0. NoOwner \notin Owner BY HeapAssumption
<1>1. /\ BlocksInv /\ FreeingInv /\ a # Nowhere /\ HeapFree(a) /\ Forget(a)
      /\ freeing' = link'[a] /\ deleting' = o
      /\ TypeOK /\ ListsExact /\ LinksAgree
  BY DEF HeapInv, BlocksInv, FreeNext
<1>2. o \in Owner /\ a = First(s) BY <1>1 DEF FreeingInv, TypeOK
<1>3. s # <<>> /\ a = Head(s) BY <1>1, <1>2 DEF First
<1>4. /\ s \in Seq(0..End - 1) /\ IsInjective(s) /\ Threads(link, s)
      /\ ToSet(s) = {b \in Live : owner[b] = o}
  BY <1>1, <1>2 DEF TypeOK, ListsExact, LinksAgree
<1>5. Head(s) \in ToSet(s) /\ link[Head(s)] = First(Without(s, Head(s)))
  <2> DEFINE S == 0..End - 1
  <2>1. s \in Seq(S) BY <1>4
  <2> HIDE DEF S, s
  <2> QED BY <2>1, <1>3, <1>4, HeadOff
<1>6. a \in Live /\ owner[a] = o /\ a \in 0..End - 1
  BY <1>1, <1>3, <1>4, <1>5 DEF TypeOK
<1> HIDE DEF a, o, s
<1>7. /\ allocList' = [allocList EXCEPT ![o] = Without(@, a)]
      /\ link' = LinkedPast(o, a)
  <2>1. OffList(o, a) BY <1>1, <1>6, Released
  <2> QED BY <2>1, <1>0, <1>2 DEF OffList
<1>8. link'[a] = link[a] BY <1>6, <1>7 DEF LinkedPast
<1>9. deleting' \in Owner \cup {NoOwner} /\ freeing' \in 0..End - 1 \cup {Nowhere}
  BY <1>1, <1>2, <1>6, <1>8 DEF TypeOK
<1>10. BlocksInv' /\ FirstFitHeap!SpecFree BY <1>1, <1>6, <1>9, ReleaseStep
<1>11. FreeingInv'
  <2>1. allocList'[o] = Without(s, a) BY <1>1, <1>2, <1>7 DEF TypeOK, s
  <2>2. freeing' = First(allocList'[o]) BY <2>1, <1>1, <1>3, <1>5, <1>8
  <2> QED BY <2>2, <1>0, <1>1, <1>2 DEF FreeingInv
<1> QED BY <1>10, <1>11 DEF HeapInv

\* The steps in which tasks_deleteTask begins with a list and is done with it.
LEMMA DeleteStep ==
    ASSUME HeapInv, NEW o \in Owner, DeleteAllocations(o)
    PROVE  HeapInv' /\ UNCHANGED <<LiveBlocks, given, least>>
<1>0. NoOwner \notin Owner BY HeapAssumption
<1>1. /\ BlocksInv /\ UNCHANGED <<mem, owner, lastFreed>> /\ given' = given
      /\ deleting' = o /\ freeing' = First(allocList[o])
      /\ TypeOK /\ allocList' = allocList /\ least' = least
  BY DEF HeapInv, BlocksInv, DeleteAllocations, mem, history
<1>2. given' \in 0..End - 1 \cup {Nowhere} BY <1>1 DEF TypeOK
<1>3. First(allocList[o]) \in 0..End - 1 \cup {Nowhere}
  <2>1. allocList[o] \in Seq(0..End - 1) BY <1>1 DEF TypeOK
  <2> QED BY <2>1, HeadTailProperties DEF First
<1>4. BlocksInv' /\ LiveBlocks' = LiveBlocks BY <1>1, <1>2, <1>3, Untouched
<1>5. FreeingInv' BY <1>0, <1>1 DEF FreeingInv
<1> QED BY <1>1, <1>4, <1>5 DEF HeapInv

LEMMA DeletedStep ==
    ASSUME HeapInv, FreedAll
    PROVE  HeapInv' /\ UNCHANGED <<LiveBlocks, given, least>>
<1>1. /\ BlocksInv /\ UNCHANGED <<mem, owner, lastFreed>> /\ given' = given
      /\ deleting' = NoOwner /\ freeing = Nowhere /\ freeing' = freeing
      /\ TypeOK /\ least' = least
  BY DEF HeapInv, BlocksInv, FreedAll, mem, history
<1>2. given' \in 0..End - 1 \cup {Nowhere} BY <1>1 DEF TypeOK
<1>3. BlocksInv' /\ LiveBlocks' = LiveBlocks BY <1>1, <1>2, Untouched
<1>4. FreeingInv' BY <1>1 DEF FreeingInv
<1> QED BY <1>1, <1>3, <1>4 DEF HeapInv

\* Every step keeps the invariant and is a step of the first fit heap, or none.
LEMMA HeapStep ==
    ASSUME HeapInv, [Next]_vars
    PROVE  HeapInv' /\ [FirstFitHeap!HeapSpecNext]_<<LiveBlocks, given, least>>
<1>1. BlocksInv /\ FreeingInv BY DEF HeapInv
<1>2. ASSUME NEW n \in Request, AllocFails(n)
      PROVE  HeapInv' /\ FirstFitHeap!HeapSpecNext
  <2>1. BlocksInv' /\ Live' = Live /\ FirstFitHeap!SpecFail(n)
    BY <1>1, <1>2, FailStep
  <2>2. FreeingInv' BY <1>1, <1>2 DEF AllocFails, FreeingInv, loop
  <2> QED BY <2>1, <2>2 DEF HeapInv, FirstFitHeap!HeapSpecNext
<1>3. ASSUME NEW n \in Request, NEW o \in Owner \cup {NoOwner}, Alloc(o, n)
      PROVE  HeapInv' /\ FirstFitHeap!HeapSpecNext
  <2>1. BlocksInv' /\ FirstFitHeap!SpecAlloc(n) /\ Live \subseteq Live'
    BY <1>1, <1>3, AllocStep
  <2>2. FreeingInv' BY <1>1, <1>3 DEF Alloc, FreeingInv, loop
  <2> QED BY <2>1, <2>2 DEF HeapInv, FirstFitHeap!HeapSpecNext
<1>4. ASSUME NEW a \in 0..End - 1, Free(a)
      PROVE  /\ HeapInv'
             /\ FirstFitHeap!HeapSpecNext \/ UNCHANGED <<LiveBlocks, given, least>>
  BY <1>4, FreeStep DEF FirstFitHeap!HeapSpecNext
<1>5. CASE FreeNext BY <1>5, FreeNextStep DEF FirstFitHeap!HeapSpecNext
<1>6. ASSUME NEW o \in Owner, DeleteAllocations(o)
      PROVE  HeapInv' /\ UNCHANGED <<LiveBlocks, given, least>>
  BY <1>6, DeleteStep
<1>f. CASE FreedAll BY <1>f, DeletedStep
<1>7. CASE UNCHANGED vars
  <2>1. /\ UNCHANGED <<mem, owner, lastFreed>> /\ given' = given
        /\ deleting' = deleting /\ freeing' = freeing /\ TypeOK
        /\ allocList' = allocList /\ least' = least
    BY <1>1, <1>7 DEF vars, mem, loop, history, BlocksInv
  <2>2. /\ given' \in 0..End - 1 \cup {Nowhere}
        /\ deleting' \in Owner \cup {NoOwner}
        /\ freeing' \in 0..End - 1 \cup {Nowhere}
    BY <2>1 DEF TypeOK
  <2>3. BlocksInv' /\ LiveBlocks' = LiveBlocks BY <2>1, <2>2, <1>1, Untouched
  <2>4. FreeingInv' BY <2>1, <1>1 DEF FreeingInv
  <2> QED BY <2>1, <2>3, <2>4 DEF HeapInv
<1>8. CASE Next
  BY <1>2, <1>3, <1>4, <1>5, <1>6, <1>f, <1>8 DEF Next, TaskMemory, Malloc
<1> QED BY <1>7, <1>8

LEMMA HeapInvariant ==
    Spec => []HeapInv
<1>1. Init => HeapInv BY HeapInitial
<1>2. HeapInv /\ [Next]_vars => HeapInv' BY HeapStep
<1> QED BY <1>1, <1>2, PTL DEF Spec

\* The headers, the lists and kFreeMemory keep their types: no size or address
\* leaves the heap, and kFreeMemory does not wrap below 0 in mem_heapAlloc.
THEOREM HeapTypes ==
    Spec => []TypeOK
<1>1. HeapInv => TypeOK BY DEF HeapInv, BlocksInv
<1> QED BY <1>1, HeapInvariant, PTL

\* Blocks never overlap and no byte is lost, in a heap of any size and after any
\* requests: whatever mem_heapAlloc cuts and mem_insertFreeBlock merges, every byte
\* is in one block, live or on the chain, and kFreeMemory counts the latter.
THEOREM EveryByteInOneBlock ==
    Spec => []HeapTiled
<1>1. HeapInv => HeapTiled
  <2> SUFFICES ASSUME HeapInv PROVE HeapTiled OBVIOUS
  <2> DEFINE B == Live \cup OnChain
  <2>0. Span \in Nat /\ End = Span BY HeapAssumption DEF End
  <2>1. /\ Layout(hdr, Live, OnChain)
        /\ free = Span - Cardinality(Held(hdr, Live))
    BY DEF HeapInv, BlocksInv
  <2>2. /\ \A a \in B : a \in Nat /\ hdr[a].size \in Nat
        /\ \A a, b \in B : a < b => a + hdr[a].size <= b
        /\ \A x \in 0..End - 1 : \E a \in B : a <= x /\ x < a + hdr[a].size
    BY <2>0, <2>1 DEF Layout, Tiled
  <2> HIDE DEF B
  <2>3. ASSUME NEW x \in 0..Span - 1
        PROVE  \E a \in B : /\ x \in Bytes(a)
                            /\ \A b \in B : x \in Bytes(b) => a = b
    <3>1. PICK a \in B : a <= x /\ x < a + hdr[a].size BY <2>0, <2>2
    <3>2. x \in Bytes(a) BY <3>1, <2>0, <2>2 DEF Bytes
    <3>3. ASSUME NEW b \in B, x \in Bytes(b) PROVE a = b
      <4>1. /\ a \in Nat /\ b \in Nat /\ hdr[a].size \in Nat /\ hdr[b].size \in Nat
            /\ a < b => a + hdr[a].size <= b
            /\ b < a => b + hdr[b].size <= a
        BY <2>2
      <4>2. b <= x /\ x < b + hdr[b].size BY <4>1, <3>3, <2>0 DEF Bytes
      <4> QED BY <4>1, <4>2, <3>1, <2>0
    <3> QED BY <3>2, <3>3
  <2>4. free = Cardinality(UNION {Bytes(a) : a \in OnChain})
    <3>1. free = Cardinality(Held(hdr, OnChain)) BY <2>1, FreeIsChain
    <3> QED BY <3>1 DEF Held, Bytes
  <2> QED BY <2>3, <2>4 DEF HeapTiled, B, Live
<1> QED BY <1>1, HeapInvariant, PTL

\* No two free blocks lie next to each other, whichever way mem_insertFreeBlock
\* merges the ones it meets: freeing everything leaves one block.
THEOREM FragmentsMerged ==
    Spec => []ChainMerged
<1>1. HeapInv => ChainMerged
  <2> SUFFICES ASSUME HeapInv, NEW a \in OnChain, hdr[a].next # End
               PROVE  a + hdr[a].size < hdr[a].next
    BY DEF ChainMerged
  <2> DEFINE n == hdr[a].next
  <2>1. Layout(hdr, Live, OnChain) BY DEF HeapInv, BlocksInv
  <2>2. n \in OnChain /\ a < n BY <2>1 DEF Layout, Ordered
  <2>3. a + hdr[a].size <= n /\ a + hdr[a].size # n
    BY <2>1, <2>2 DEF Layout, Tiled, Apart
  <2>4. a \in Nat /\ n \in Nat /\ hdr[a].size \in Nat
    <3>1. Span \in Nat BY HeapAssumption
    <3> QED BY <3>1, <2>1, <2>2 DEF Layout, Tiled, End
  <2> QED BY <2>3, <2>4
<1> QED BY <1>1, HeapInvariant, PTL

\* A task's allocation list names the live blocks allocated for it, each once, and
\* tasks_deleteTask frees them all: the link it reads from the block it has just freed
\* is still the one to the next, although that block has been put on the chain or
\* merged; mem_insertFreeBlock and common_listDeleteAny leave allocListItem.next alone.
THEOREM ListsNameLiveBlocks ==
    Spec => []AllocListsExact
<1>1. HeapInv => AllocListsExact
  BY DEF HeapInv, BlocksInv, ListsExact, FreeingInv, AllocListsExact, Live
<1> QED BY <1>1, HeapInvariant, PTL

\* mem_heapAlloc and mem_heapFree are first fit: each step is one of HeapSpec's, or,
\* for a double free and where a deletion starts and ends, none.
THEOREM HeapIsFirstFit ==
    Spec => ImplementsFirstFit
<1>1. Init => HeapInv /\ FirstFitHeap!SpecInit BY HeapInitial
<1>2. HeapInv /\ [Next]_vars
        => HeapInv' /\ [FirstFitHeap!HeapSpecNext]_<<LiveBlocks, given, least>>
  BY HeapStep
<1> QED BY <1>1, <1>2, PTL DEF Spec, ImplementsFirstFit, FirstFitHeap!FirstFit
=============================================================================
