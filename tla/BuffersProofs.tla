---------------------------- MODULE BuffersProofs ----------------------------
(***************************************************************************)
(* Buffers, for items and buffers of any size: how far writes reach, and   *)
(* that a FIFO is a queue and a LIFO a stack (BufferSpec).                 *)
(*                                                                         *)
(* Bytes are dealt with in slots of ItemSize bytes; slot s begins at byte  *)
(* s * ItemSize.                                                           *)
(***************************************************************************)
EXTENDS Buffers, TLAPS

\* The slot of the n-th item after slot o, in a ring of q slots.
Place(o, q, n) == IF o + n < q THEN o + n ELSE o + n - q

\* Slot s of memory m holds item v.
Holds(m, s, v) == \A j \in 0..ItemSize - 1 : m[s * ItemSize + j] = <<v, j>>

\* A buffer of q slots, c of them in use from slot o on.  The last slot of a FIFO
\* may end behind the buffer, and what is behind the last slot of a LIFO is unused.
Shape(q, o, c) ==
    /\ order \in {"FIFO", "LIFO"}
    /\ q \in Nat \ {0} /\ o \in 0..q - 1 /\ c \in 0..q
    /\ c * ItemSize <= bufferSize
    /\ outputPosition = o * ItemSize
    /\ currentPosition = c * ItemSize
    /\ order = "FIFO" => /\ bufferSize \in q * ItemSize - ItemSize + 1 .. q * ItemSize
                         /\ inputPosition = Place(o, q, c) * ItemSize
    /\ order = "LIFO" => /\ bufferSize \in q * ItemSize .. q * ItemSize + ItemSize - 1
                         /\ o = 0

\* The slots in use hold items.
Filled(m, q, o, c) ==
    \A n \in 0..c - 1 : \E v \in Value : Holds(m, Place(o, q, n), v)

\* Nothing behind the last slot is written to.  A FIFO has written all slots below
\* the next one, or all of them when it has come round.
Reached(q, c) ==
    /\ \A a \in DOMAIN mem : a >= q * ItemSize => mem[a] = Untouched
    /\ order = "FIFO" => \A a \in 0..inputPosition - 1 : mem[a] # Untouched
    /\ order = "FIFO" /\ inputPosition = 0 /\ c # 0 =>
          \A a \in 0..q * ItemSize - 1 : mem[a] # Untouched

Holding(q, o, c) ==
    /\ DOMAIN mem = 0..bufferSize + ItemSize - 2
    /\ Shape(q, o, c)
    /\ Filled(mem, q, o, c)
    /\ Reached(q, c)

BuffersInv == \E q, o, c \in Nat : Holding(q, o, c)

-----------------------------------------------------------------------------
\* Slots do not overlap, and dividing by the item size counts them.
LEMMA SlotBelow ==
    ASSUME NEW i \in Int, NEW j \in Int, i < j
    PROVE  i * ItemSize + ItemSize <= j * ItemSize
<1>0. PICK I \in Nat \ {0} : I = ItemSize BY BuffersAssumption
<1>1. PICK d \in Nat : d = j - i - 1 OBVIOUS
<1>2. j = i + 1 + d BY <1>1
<1>3. (i + 1 + d) * I = i * I + I + d * I OBVIOUS
<1>4. d * I \in Nat OBVIOUS
<1>5. PICK a \in Int, b \in Nat : a = i * I /\ b = d * I BY <1>4
<1>6. i * I + I <= j * I BY <1>2, <1>3, <1>5
<1> QED BY <1>0, <1>6

LEMMA SlotsDiffer ==
    ASSUME NEW i \in Int, NEW j \in Int, i # j,
           NEW b \in 0..ItemSize - 1
    PROVE  j * ItemSize + b \notin i * ItemSize .. i * ItemSize + ItemSize - 1
<1>1. i * ItemSize \in Int /\ j * ItemSize \in Int /\ ItemSize \in Nat \ {0}
  BY BuffersAssumption
<1>2. CASE i < j
  <2>1. i * ItemSize + ItemSize <= j * ItemSize BY <1>2, SlotBelow
  <2> QED BY <1>1, <2>1
<1>3. CASE j < i
  <2>1. j * ItemSize + ItemSize <= i * ItemSize BY <1>3, SlotBelow
  <2> QED BY <1>1, <2>1
<1> QED BY <1>2, <1>3

LEMMA SlotsDivide ==
    ASSUME NEW q \in Nat,
           NEW x \in q * ItemSize .. q * ItemSize + ItemSize - 1
    PROVE  x \div ItemSize = q
<1>0. PICK I \in Nat \ {0} : I = ItemSize BY BuffersAssumption
<1>1. PICK d \in Int : d = x \div I OBVIOUS
<1>2. d * I <= x /\ x < d * I + I BY <1>0, <1>1
<1>3. ~(d < q)
  <2>1. ASSUME d < q PROVE d * I + I <= q * I BY <2>1, <1>0, SlotBelow
  <2> QED BY <2>1, <1>0, <1>2
<1>4. ~(q < d)
  <2>1. ASSUME q < d PROVE q * I + I <= d * I BY <2>1, <1>0, SlotBelow
  <2> QED BY <2>1, <1>0, <1>2
<1> QED BY <1>0, <1>1, <1>3, <1>4

LEMMA NextSlot ==
    ASSUME NEW i \in Int
    PROVE  /\ (i + 1) * ItemSize = i * ItemSize + ItemSize
           /\ (i - 1) * ItemSize = i * ItemSize - ItemSize
           /\ i * ItemSize \in Int
BY BuffersAssumption

\* Going round the ring.
LEMMA Places ==
    ASSUME NEW q \in Nat \ {0}, NEW o \in 0..q - 1
    PROVE  /\ \A n \in 0..q : Place(o, q, n) \in 0..q - 1
           /\ \A m, n \in 0..q - 1 : m # n => Place(o, q, m) # Place(o, q, n)
           /\ \A n \in 0..q - 1 :
                /\ Place(o, q, n + 1) = Place(Place(o, q, n), q, 1)
                /\ Place(Place(o, q, 1), q, n) = Place(o, q, n + 1)
           /\ Place(o, q, 0) = o
           /\ \A n \in 0..q - 1 : o = 0 => Place(o, q, n) = n
BY DEF Place

\* Buffers of the sizes that Shape names have q slots, and hold c items and one
\* more only if there is a slot for it.
LEMMA SlotsAre ==
    ASSUME NEW q \in Nat \ {0}, NEW ord \in {"FIFO", "LIFO"}, NEW size,
           ord = "FIFO" => size \in q * ItemSize - ItemSize + 1 .. q * ItemSize,
           ord = "LIFO" => size \in q * ItemSize .. q * ItemSize + ItemSize - 1
    PROVE  /\ size \in Nat
           /\ q * ItemSize \in Nat
           /\ q * ItemSize <= size + ItemSize - 1
           /\ (IF ord = "FIFO" THEN (size + ItemSize - 1) \div ItemSize
                               ELSE size \div ItemSize) = q
<1>1. ItemSize \in Nat \ {0} /\ q * ItemSize \in Int BY BuffersAssumption
<1>2. q * ItemSize >= ItemSize
  <2>1. 0 * ItemSize + ItemSize <= q * ItemSize BY SlotBelow
  <2> QED BY <1>1, <2>1
<1>3. size \in Nat /\ q * ItemSize <= size + ItemSize - 1 BY <1>1, <1>2
<1>4. CASE ord = "FIFO"
  <2>1. size + ItemSize - 1 \in q * ItemSize .. q * ItemSize + ItemSize - 1
    BY <1>1, <1>4
  <2> QED BY <1>1, <1>2, <1>3, <1>4, <2>1, SlotsDivide
<1>5. CASE ord = "LIFO" BY <1>1, <1>2, <1>3, <1>5, SlotsDivide
<1> QED BY <1>4, <1>5

LEMMA Fitting ==
    ASSUME NEW q \in Nat \ {0}, NEW c \in 0..q, NEW size \in Nat,
           c * ItemSize + ItemSize <= size,
           size <= q * ItemSize + ItemSize - 1
    PROVE  /\ c < q /\ c < size \div ItemSize
           /\ (c + 1) * ItemSize <= size
<1>0. PICK I \in Nat \ {0} : I = ItemSize BY BuffersAssumption
<1>1. (c + 1) * ItemSize = c * ItemSize + ItemSize BY NextSlot
<1>2. c * I \in Int /\ q * I \in Int BY <1>0
<1>3. c < q
  <2>1. ASSUME c = q PROVE FALSE BY <1>0, <1>2, <2>1
  <2> QED BY <2>1
<1>4. PICK d \in Int : d = size \div I BY <1>0
<1>5. d * I <= size /\ size < d * I + I BY <1>0, <1>4
<1>6. ~(d < c + 1)
  <2>1. ASSUME d < c + 1 PROVE d * I + I <= (c + 1) * I
    BY <1>0, <2>1, SlotBelow
  <2> QED BY <1>0, <1>1, <1>2, <1>5, <2>1
<1> QED BY <1>0, <1>1, <1>3, <1>4, <1>6

\* A position moves on to the next slot of the ring.
LEMMA Advancing ==
    ASSUME NEW q \in Nat \ {0}, NEW s \in 0..q - 1,
           bufferSize \in q * ItemSize - ItemSize + 1 .. q * ItemSize
    PROVE  Advance(s * ItemSize) = Place(s, q, 1) * ItemSize
<1>1. s * ItemSize + ItemSize = (s + 1) * ItemSize BY NextSlot
<1>0. bufferSize \in Int /\ q * ItemSize \in Int BY BuffersAssumption
<1>2. CASE s + 1 < q
  <2>1. (s + 1) * ItemSize + ItemSize <= q * ItemSize BY <1>2, SlotBelow
  <2>2. (s + 1) * ItemSize < bufferSize
    BY <1>0, <2>1, NextSlot, BuffersAssumption
  <2>3. ~(s * ItemSize + ItemSize >= bufferSize)
    BY <1>0, <1>1, <2>2, NextSlot, BuffersAssumption
  <2>4. Place(s, q, 1) = s + 1 BY <1>2 DEF Place
  <2> QED BY <1>1, <2>3, <2>4 DEF Advance
<1>3. CASE s + 1 = q
  <2>1. s * ItemSize + ItemSize >= bufferSize
    BY <1>0, <1>1, <1>3, BuffersAssumption
  <2>2. Place(s, q, 1) = 0 BY <1>3 DEF Place
  <2>3. 0 * ItemSize = 0 BY BuffersAssumption
  <2> QED BY <2>1, <2>2, <2>3 DEF Advance
<1> QED BY <1>2, <1>3

-----------------------------------------------------------------------------
\* What common_memcpy reads from position a, and from slot s, in any memory.
ReadAt(m, a) ==
    IF \E v \in Value : \A j \in 0..ItemSize - 1 : m[a + j] = <<v, j>>
    THEN CHOOSE v \in Value : m[a] = <<v, 0>>
    ELSE Nothing

Stored(m, s) == ReadAt(m, s * ItemSize)

LEMMA StoredIs ==
    ASSUME NEW m, NEW s \in Int, NEW v \in Value, Holds(m, s, v)
    PROVE  Stored(m, s) = v
<1>1. 0 \in 0..ItemSize - 1 /\ s * ItemSize + 0 = s * ItemSize
  BY BuffersAssumption
<1>2. m[s * ItemSize] = <<v, 0>> BY <1>1 DEF Holds
<1>3. \A w \in Value : m[s * ItemSize] = <<w, 0>> => w = v BY <1>2
<1>4. (CHOOSE w \in Value : m[s * ItemSize] = <<w, 0>>) = v BY <1>2, <1>3
<1> QED BY <1>4 DEF Holds, Stored, ReadAt

\* Writing item v to slot s, inside the buffer.
LEMMA Copying ==
    ASSUME DOMAIN mem = 0..bufferSize + ItemSize - 2,
           NEW q \in Nat \ {0}, bufferSize \in Nat,
           q * ItemSize <= bufferSize + ItemSize - 1,
           NEW s \in 0..q - 1, NEW v \in Value,
           NEW m, m = CopyIn(s * ItemSize, v)
    PROVE  /\ DOMAIN m = DOMAIN mem
           /\ Holds(m, s, v)
           /\ \A r \in 0..q - 1, w \in Value :
                r # s /\ Holds(mem, r, w) => Holds(m, r, w)
           /\ \A a \in DOMAIN mem : a >= q * ItemSize => m[a] = mem[a]
           /\ \A a \in s * ItemSize .. s * ItemSize + ItemSize - 1 :
                a \in DOMAIN mem /\ m[a] # Untouched
           /\ \A a \in DOMAIN mem : mem[a] # Untouched => m[a] # Untouched
<1>1. m = [b \in DOMAIN mem |->
             IF b \in s * ItemSize .. s * ItemSize + ItemSize - 1
             THEN <<v, b - s * ItemSize>> ELSE mem[b]]
  BY DEF CopyIn
<1>2. \A r \in 0..q - 1 : /\ r * ItemSize \in Nat
                          /\ r * ItemSize + ItemSize <= q * ItemSize
  <2> SUFFICES ASSUME NEW r \in 0..q - 1
               PROVE  /\ r * ItemSize \in Nat
                      /\ r * ItemSize + ItemSize <= q * ItemSize
    OBVIOUS
  <2>1. r * ItemSize + ItemSize <= q * ItemSize BY SlotBelow
  <2>2. r * ItemSize \in Nat /\ q * ItemSize \in Nat BY BuffersAssumption
  <2> QED BY <2>1, <2>2, BuffersAssumption
<1>3. PICK p \in Nat : p = s * ItemSize /\ p + ItemSize <= q * ItemSize
  BY <1>2
<1>0. PICK e \in Nat : e = q * ItemSize BY BuffersAssumption
<1>4. \A j \in 0..ItemSize - 1 : p + j \in DOMAIN mem
  BY <1>0, <1>3, BuffersAssumption
<1>5. Holds(m, s, v)
  BY <1>1, <1>3, <1>4, BuffersAssumption DEF Holds
<1>6. ASSUME NEW r \in 0..q - 1, NEW w \in Value, r # s, Holds(mem, r, w)
      PROVE  Holds(m, r, w)
  <2> SUFFICES ASSUME NEW j \in 0..ItemSize - 1
               PROVE  m[r * ItemSize + j] = <<w, j>>
    BY DEF Holds
  <2>1. r * ItemSize + j \notin s * ItemSize .. s * ItemSize + ItemSize - 1
    BY <1>6, SlotsDiffer
  <2>2. r * ItemSize + j \in DOMAIN mem BY <1>0, <1>2, BuffersAssumption
  <2>3. mem[r * ItemSize + j] = <<w, j>> BY <1>6 DEF Holds
  <2> QED BY <1>1, <2>1, <2>2, <2>3
<1>10. /\ ItemSize \in Nat \ {0} /\ e <= bufferSize + ItemSize - 1
       /\ p + ItemSize <= e
       /\ m = [b \in DOMAIN mem |->
                 IF b \in p .. p + ItemSize - 1 THEN <<v, b - p>> ELSE mem[b]]
  BY <1>0, <1>1, <1>3, BuffersAssumption
<1>7. \A a \in DOMAIN mem : a >= q * ItemSize => m[a] = mem[a]
  <2>1. \A a \in DOMAIN mem : a >= e => a \notin p .. p + ItemSize - 1
    BY <1>10
  <2> QED BY <1>0, <1>10, <2>1
<1>8. \A a \in p .. p + ItemSize - 1 : a \in DOMAIN mem /\ m[a] # Untouched
  <2> SUFFICES ASSUME NEW a \in p .. p + ItemSize - 1
               PROVE  a \in DOMAIN mem /\ m[a] # Untouched
    OBVIOUS
  <2>1. a \in DOMAIN mem BY <1>10
  <2>2. m[a] = <<v, a - p>> BY <1>10, <2>1
  <2> QED BY <2>1, <2>2, BuffersAssumption DEF Untouched
<1>9. \A a \in DOMAIN mem : mem[a] # Untouched => m[a] # Untouched
  <2> SUFFICES ASSUME NEW a \in DOMAIN mem, mem[a] # Untouched
               PROVE  m[a] # Untouched
    OBVIOUS
  <2>1. CASE a \in p .. p + ItemSize - 1 BY <1>8, <2>1
  <2>2. CASE a \notin p .. p + ItemSize - 1 BY <1>10, <2>2
  <2> QED BY <2>1, <2>2
<1> QED BY <1>1, <1>3, <1>5, <1>6, <1>7, <1>8, <1>9

-----------------------------------------------------------------------------
\* The items in c slots of memory m from slot o on.
Contents(m, q, o, c) == [n \in 1..c |-> Stored(m, Place(o, q, n - 1))]

\* The byte position that Items gives the n-th item is that of its slot.
LEMMA Positions ==
    ASSUME NEW q \in Nat \ {0}, NEW o \in 0..q - 1, NEW n \in 0..q - 1,
           NEW ord \in {"FIFO", "LIFO"}, NEW size, NEW first,
           size = q * ItemSize, ord = "LIFO" => o = 0,
           first = o * ItemSize
    PROVE  (IF ord = "FIFO"
            THEN LET a == first + n * ItemSize
                 IN  IF a < size THEN a ELSE a - size
            ELSE n * ItemSize) = Place(o, q, n) * ItemSize
<1>0. PICK I \in Nat \ {0} : I = ItemSize BY BuffersAssumption
<1>1. CASE ord = "LIFO" BY <1>1, Places
<1>2. CASE ord = "FIFO"
  <2>1. /\ first + n * ItemSize = (o + n) * ItemSize
        /\ (o + n - q) * ItemSize = (o + n) * ItemSize - size
    BY <1>0, <1>2
  <2>2. CASE o + n < q
    <3>1. (o + n) * ItemSize + ItemSize <= q * ItemSize BY <2>2, SlotBelow
    <3>2. (o + n) * ItemSize < size
      BY <1>2, <3>1, NextSlot, BuffersAssumption
    <3> QED BY <1>2, <2>1, <2>2, <3>2 DEF Place
  <2>3. CASE ~(o + n < q)
    <3>1. CASE o + n = q
      <4>1. (o + n) * ItemSize = size BY <1>2, <3>1
      <4>2. ~((o + n) * ItemSize < size) BY <1>0, <4>1
      <4> QED BY <1>2, <2>1, <2>3, <4>2 DEF Place
    <3>2. CASE q < o + n
      <4>1. q * ItemSize + ItemSize <= (o + n) * ItemSize BY <3>2, SlotBelow
      <4>2. ~((o + n) * ItemSize < size)
        BY <1>2, <4>1, NextSlot, BuffersAssumption
      <4> QED BY <1>2, <2>1, <2>3, <4>2 DEF Place
    <3> QED BY <2>3, <3>1, <3>2
  <2> QED BY <2>2, <2>3
<1> QED BY <1>1, <1>2

\* What the byte counts say of the slots.
LEMMA Counting ==
    ASSUME NEW q, NEW o, NEW c, Shape(q, o, c)
    PROVE  /\ Count = c /\ Slots = q
           /\ (order = "FIFO" /\ HasSpace) \/ (order = "LIFO" /\ LifoHasSpace)
                => /\ c < q /\ c < bufferSize \div ItemSize
                   /\ (c + 1) * ItemSize <= bufferSize
           /\ Available <=> c # 0
           /\ LifoAvailable <=> c # 0
           /\ bufferSize \in Nat /\ q * ItemSize <= bufferSize + ItemSize - 1
           /\ Items = Contents(mem, q, o, c)
<1>1. /\ q \in Nat \ {0} /\ o \in 0..q - 1 /\ c \in 0..q
      /\ currentPosition = c * ItemSize
      /\ order \in {"FIFO", "LIFO"}
  BY DEF Shape
<1>2. c * ItemSize \in Nat /\ q * ItemSize \in Nat /\ ItemSize \in Nat \ {0}
  BY <1>1, BuffersAssumption
<1>4. /\ bufferSize \in Nat /\ q * ItemSize <= bufferSize + ItemSize - 1
      /\ Slots = q
  BY <1>1, SlotsAre DEF Shape, Slots
<1>3. Count = c
  <2>1. c * ItemSize \in c * ItemSize .. c * ItemSize + ItemSize - 1 BY <1>2
  <2>2. (c * ItemSize) \div ItemSize = c BY <1>1, <2>1, SlotsDivide
  <2> QED BY <1>1, <2>2 DEF Count
<1>6. ASSUME (order = "FIFO" /\ HasSpace) \/ (order = "LIFO" /\ LifoHasSpace)
      PROVE  /\ c < q /\ c < bufferSize \div ItemSize
             /\ (c + 1) * ItemSize <= bufferSize
  <2>1. c * ItemSize + ItemSize <= bufferSize
    BY <1>1, <1>2, <1>4, <1>6 DEF HasSpace, LifoHasSpace
  <2>2. bufferSize <= q * ItemSize + ItemSize - 1 BY <1>1, <1>2 DEF Shape
  <2> QED BY <1>1, <1>4, <2>1, <2>2, Fitting
<1>7. c # 0 => c * ItemSize # 0
  <2>1. 0 < c => 0 * ItemSize + ItemSize <= c * ItemSize BY <1>1, SlotBelow
  <2>2. 0 * ItemSize = 0 BY <1>2
  <2> QED BY <1>1, <1>2, <2>1, <2>2
<1>8. (Available <=> c # 0) /\ (LifoAvailable <=> c # 0)
  BY <1>1, <1>2, <1>7 DEF Available, LifoAvailable
<1>9. ASSUME NEW n \in 1..c
      PROVE  ItemAt(IF order = "FIFO" THEN FifoPosition(n - 1)
                                      ELSE (n - 1) * ItemSize)
               = Stored(mem, Place(o, q, n - 1))
  <2>1. n - 1 \in 0..q - 1 BY <1>1
  <2>2. (IF order = "FIFO" THEN FifoPosition(n - 1) ELSE (n - 1) * ItemSize)
          = Place(o, q, n - 1) * ItemSize
    BY <1>1, <1>4, <2>1, Positions DEF Shape, FifoPosition
  <2>3. ItemAt(IF order = "FIFO" THEN FifoPosition(n - 1)
                                 ELSE (n - 1) * ItemSize)
          = ReadAt(mem, IF order = "FIFO" THEN FifoPosition(n - 1)
                                          ELSE (n - 1) * ItemSize)
    BY DEF ItemAt, ReadAt
  <2> QED BY <2>2, <2>3 DEF Stored
<1>10. Items = Contents(mem, q, o, c)
  BY <1>3, <1>9 DEF Items, Contents
<1> QED BY <1>3, <1>4, <1>6, <1>8, <1>10

\* The same of the state after a step.
LEMMA CountingNext ==
    ASSUME NEW q, NEW o, NEW c, Shape(q, o, c)'
    PROVE  Items' = Contents(mem', q, o, c) /\ Slots' = q
<1>1. /\ q \in Nat \ {0} /\ o \in 0..q - 1 /\ c \in 0..q
      /\ currentPosition' = c * ItemSize
  BY DEF Shape
<1>2. (c * ItemSize) \div ItemSize = c
  <2>1. c * ItemSize \in c * ItemSize .. c * ItemSize + ItemSize - 1
    BY <1>1, BuffersAssumption
  <2> QED BY <1>1, <2>1, SlotsDivide
<1>5. Slots' = q BY <1>1, SlotsAre DEF Shape, Slots
<1>3. Count' = c BY <1>1, <1>2 DEF Count
<1>4. ASSUME NEW n \in 1..c
      PROVE  ItemAt(IF order = "FIFO" THEN FifoPosition(n - 1)
                                      ELSE (n - 1) * ItemSize)'
               = Stored(mem', Place(o, q, n - 1))
  <2>1. n - 1 \in 0..q - 1 BY <1>1
  <2>2. (IF order = "FIFO" THEN FifoPosition(n - 1) ELSE (n - 1) * ItemSize)'
          = Place(o, q, n - 1) * ItemSize
    BY <1>1, <1>5, <2>1, Positions DEF Shape, FifoPosition
  <2>3. ItemAt(IF order = "FIFO" THEN FifoPosition(n - 1)
                                 ELSE (n - 1) * ItemSize)'
          = ReadAt(mem', (IF order = "FIFO" THEN FifoPosition(n - 1)
                                            ELSE (n - 1) * ItemSize)')
    BY DEF ItemAt, ReadAt
  <2> QED BY <2>2, <2>3 DEF Stored
<1> QED BY <1>3, <1>4, <1>5 DEF Items, Contents

LEMMA ContentsTyped ==
    ASSUME NEW m, NEW q \in Nat \ {0}, NEW o \in 0..q - 1, NEW c \in 0..q,
           Filled(m, q, o, c)
    PROVE  /\ Contents(m, q, o, c) \in Seq(Value)
           /\ Len(Contents(m, q, o, c)) = c
           /\ \A n \in 1..c : Contents(m, q, o, c)[n] = Stored(m, Place(o, q, n - 1))
<1>1. ASSUME NEW n \in 1..c PROVE Stored(m, Place(o, q, n - 1)) \in Value
  <2>1. n - 1 \in 0..c - 1 /\ n - 1 \in 0..q OBVIOUS
  <2>2. PICK v \in Value : Holds(m, Place(o, q, n - 1), v) BY <2>1 DEF Filled
  <2>3. Place(o, q, n - 1) \in Int BY <2>1, Places
  <2> QED BY <2>2, <2>3, StoredIs
<1>2. Contents(m, q, o, c) \in [1..c -> Value] BY <1>1 DEF Contents
<1>3. Contents(m, q, o, c) \in Seq(Value) BY <1>2
<1> QED BY <1>2, <1>3 DEF Contents

-----------------------------------------------------------------------------
LEMMA Writing ==
    ASSUME NEW q, NEW o, NEW c, Holding(q, o, c),
           NEW v \in Value, FifoWrite(v) \/ LifoWrite(v)
    PROVE  Holding(q, o, c + 1)' /\ Store!Put(v)
<1>1. /\ q \in Nat \ {0} /\ o \in 0..q - 1 /\ c \in 0..q
      /\ Shape(q, o, c) /\ Filled(mem, q, o, c)
      /\ currentPosition = c * ItemSize
      /\ DOMAIN mem = 0..bufferSize + ItemSize - 2
  BY DEF Holding, Shape
<1>2. /\ c < q /\ c < bufferSize \div ItemSize
      /\ (c + 1) * ItemSize <= bufferSize
      /\ bufferSize \in Nat /\ q * ItemSize <= bufferSize + ItemSize - 1
      /\ Items = Contents(mem, q, o, c)
  BY <1>1, Counting DEF FifoWrite, LifoWrite
<1>3. c < q /\ c \in 0..q - 1 /\ c + 1 \in 0..q BY <1>1, <1>2
<1>4. PICK s \in 0..q - 1 : s = Place(o, q, c) BY <1>1, <1>3, Places
<1>5. mem' = CopyIn(s * ItemSize, v)
  <2>1. CASE FifoWrite(v) BY <1>1, <1>4, <2>1 DEF FifoWrite, Shape
  <2>2. CASE LifoWrite(v)
    <3>1. s = c BY <1>1, <1>3, <1>4, <2>2, Places DEF LifoWrite, Shape
    <3> QED BY <1>1, <2>2, <3>1 DEF LifoWrite
  <2> QED BY <2>1, <2>2
<1>6. /\ DOMAIN mem' = DOMAIN mem
      /\ Holds(mem', s, v)
      /\ \A r \in 0..q - 1, w \in Value :
           r # s /\ Holds(mem, r, w) => Holds(mem', r, w)
      /\ \A a \in DOMAIN mem : a >= q * ItemSize => mem'[a] = mem[a]
      /\ \A a \in s * ItemSize .. s * ItemSize + ItemSize - 1 :
           a \in DOMAIN mem /\ mem'[a] # Untouched
      /\ \A a \in DOMAIN mem : mem[a] # Untouched => mem'[a] # Untouched
  BY <1>1, <1>2, <1>5, Copying
<1>7. /\ order' = order /\ bufferSize' = bufferSize
      /\ outputPosition' = outputPosition /\ out' = out
      /\ currentPosition' = currentPosition + ItemSize
  BY DEF FifoWrite, LifoWrite, fixed
<1>8. Shape(q, o, c + 1)'
  <2>1. currentPosition' = (c + 1) * ItemSize BY <1>1, <1>7, NextSlot
  <2>2. ASSUME order = "FIFO"
        PROVE  inputPosition' = Place(o, q, c + 1) * ItemSize
    <3>1. /\ FifoWrite(v)
          /\ bufferSize \in q * ItemSize - ItemSize + 1 .. q * ItemSize
          /\ inputPosition = s * ItemSize
      BY <1>1, <1>4, <2>2 DEF LifoWrite, Shape
    <3>2. inputPosition' = Place(s, q, 1) * ItemSize
      BY <1>1, <3>1, Advancing DEF FifoWrite
    <3>3. Place(o, q, c + 1) = Place(s, q, 1) BY <1>1, <1>3, <1>4, Places
    <3> QED BY <3>2, <3>3
  <2> QED BY <1>1, <1>2, <1>3, <1>7, <2>1, <2>2 DEF Shape
<1>9. ASSUME NEW n \in 0..c - 1
      PROVE  Place(o, q, n) \in 0..q - 1 /\ Place(o, q, n) # s
  <2>1. n \in 0..q - 1 /\ n \in 0..q /\ n # c BY <1>1
  <2>2. \A m \in 0..q - 1 : m # n => Place(o, q, m) # Place(o, q, n)
    BY <1>1, <2>1, Places
  <2>3. Place(o, q, n) \in 0..q - 1 BY <1>1, <2>1, Places
  <2> QED BY <1>3, <1>4, <2>1, <2>2, <2>3
<1>10. Filled(mem', q, o, c + 1)
  <2> SUFFICES ASSUME NEW n \in 0..c
               PROVE  \E w \in Value : Holds(mem', Place(o, q, n), w)
    BY <1>1 DEF Filled
  <2>1. CASE n = c BY <1>4, <1>6, <2>1
  <2>2. CASE n # c
    <3>1. n \in 0..c - 1 BY <1>1, <2>2
    <3>2. PICK w \in Value : Holds(mem, Place(o, q, n), w)
      BY <1>1, <3>1 DEF Filled
    <3> QED BY <1>6, <1>9, <3>1, <3>2
  <2> QED BY <2>1, <2>2
<1>11. Reached(q, c + 1)'
  <2>1. /\ \A a \in DOMAIN mem : a >= q * ItemSize => mem[a] = Untouched
        /\ order = "FIFO" => \A a \in 0..inputPosition - 1 : mem[a] # Untouched
    BY DEF Holding, Reached
  <2>2. \A a \in DOMAIN mem' : a >= q * ItemSize => mem'[a] = Untouched
    BY <1>6, <2>1
  <2>3. CASE order = "LIFO" BY <1>7, <2>2, <2>3 DEF Reached
  <2>4. CASE order = "FIFO"
    <3>1. inputPosition = s * ItemSize /\ FifoWrite(v)
      BY <1>1, <1>4, <2>4 DEF LifoWrite, Shape
    <3>2. PICK i \in Nat, e \in Nat : i = s * ItemSize /\ e = q * ItemSize
      BY <1>1, BuffersAssumption
    <3>3. i + ItemSize <= e BY <1>1, <3>2, SlotBelow
    <3>4. 0..e - 1 \subseteq DOMAIN mem
      BY <1>1, <1>2, <3>2, BuffersAssumption
    <3>9. ItemSize \in Nat \ {0} BY BuffersAssumption
    <3>5. \A a \in 0..i + ItemSize - 1 : mem'[a] # Untouched
      <4> SUFFICES ASSUME NEW a \in 0..i + ItemSize - 1
                   PROVE  mem'[a] # Untouched
        OBVIOUS
      <4>1. CASE a < i
        <5>1. inputPosition = i BY <3>1, <3>2
        <5>2. a \in 0..i - 1 BY <3>9, <4>1
        <5>3. mem[a] # Untouched BY <2>1, <2>4, <5>1, <5>2
        <5>4. a \in 0..e - 1 BY <3>3, <3>9, <5>2
        <5> QED BY <1>6, <3>4, <5>3, <5>4
      <4>2. CASE a >= i
        <5>1. a \in i .. i + ItemSize - 1 BY <3>9, <4>2
        <5> QED BY <1>6, <3>2, <5>1
      <4> QED BY <3>9, <4>1, <4>2
    <3>6. inputPosition' = Place(s, q, 1) * ItemSize
      BY <1>1, <2>4, <3>1, Advancing DEF FifoWrite, Shape
    <3>7. CASE s + 1 < q
      <4>1. Place(s, q, 1) = s + 1 BY <3>7 DEF Place
      <4>2. inputPosition' = i + ItemSize BY <3>2, <3>6, <4>1, NextSlot
      <4>3. inputPosition' # 0 BY <3>9, <4>2
      <4>4. \A a \in 0..inputPosition' - 1 : mem'[a] # Untouched
        BY <3>5, <3>9, <4>2
      <4> QED BY <2>2, <4>3, <4>4 DEF Reached
    <3>8. CASE s + 1 = q
      <4>1. Place(s, q, 1) = 0 BY <3>8 DEF Place
      <4>2. inputPosition' = 0 BY <3>6, <4>1, BuffersAssumption
      <4>3. e = i + ItemSize BY <3>2, <3>8, NextSlot
      <4>4. 0..inputPosition' - 1 = {} BY <4>2
      <4>5. \A a \in 0..q * ItemSize - 1 : mem'[a] # Untouched
        BY <3>2, <3>5, <3>9, <4>3
      <4> QED BY <2>2, <4>4, <4>5 DEF Reached
    <3> QED BY <1>1, <3>7, <3>8
  <2> QED BY <1>1, <2>3, <2>4 DEF Shape
<1>12. Items' = Append(Items, v)
  <2> DEFINE before == Contents(mem, q, o, c)
             after  == Contents(mem', q, o, c + 1)
  <2>1. /\ before \in Seq(Value) /\ Len(before) = c
        /\ \A n \in 1..c : before[n] = Stored(mem, Place(o, q, n - 1))
    BY <1>1, ContentsTyped
  <2>2. /\ after \in Seq(Value) /\ Len(after) = c + 1
        /\ \A n \in 1..c + 1 : after[n] = Stored(mem', Place(o, q, n - 1))
    BY <1>1, <1>3, <1>10, ContentsTyped
  <2>3. ASSUME NEW n \in 1..c PROVE after[n] = before[n]
    <3>1. n - 1 \in 0..c - 1 BY <1>1
    <3>2. PICK w \in Value : Holds(mem, Place(o, q, n - 1), w)
      BY <1>1, <3>1 DEF Filled
    <3>3. /\ Place(o, q, n - 1) \in Int
          /\ Holds(mem', Place(o, q, n - 1), w)
      BY <1>6, <1>9, <3>1, <3>2
    <3>4. /\ Stored(mem, Place(o, q, n - 1)) = w
          /\ Stored(mem', Place(o, q, n - 1)) = w
      BY <3>2, <3>3, StoredIs
    <3>5. n \in 1..c + 1 BY <1>1
    <3> QED BY <2>1, <2>2, <3>4, <3>5
  <2>4. after[c + 1] = v
    <3>1. Stored(mem', s) = v BY <1>6, StoredIs
    <3>2. c + 1 \in 1..c + 1 /\ (c + 1) - 1 = c BY <1>1
    <3> QED BY <1>4, <2>2, <3>1, <3>2
  <2> HIDE DEF before, after
  <2>5. after = Append(before, v) BY <1>1, <2>1, <2>2, <2>3, <2>4
  <2>6. Items' = after BY <1>8, CountingNext DEF after
  <2> QED BY <1>2, <2>5, <2>6 DEF before
<1>13. Len(Items) < bufferSize \div ItemSize BY <1>1, <1>2, <1>3, ContentsTyped
<1>14. Store!Put(v)
  BY <1>7, <1>12, <1>13 DEF Store!Put, Store!fixed
<1> QED BY <1>1, <1>6, <1>7, <1>8, <1>10, <1>11, <1>14 DEF Holding

\* The first and the last of the items in the buffer.
LEMMA Ends ==
    ASSUME NEW q, NEW o, NEW c, Holding(q, o, c), c # 0
    PROVE  /\ Items # <<>> /\ Len(Items) = c
           /\ Head(Items) = Stored(mem, o)
           /\ order = "LIFO" => Items[c] = Stored(mem, c - 1)
           /\ ItemAt(outputPosition) = Stored(mem, o)
           /\ ItemAt(currentPosition - ItemSize) = Stored(mem, c - 1)
<1>1. /\ q \in Nat \ {0} /\ o \in 0..q - 1 /\ c \in 1..q
      /\ Shape(q, o, c) /\ Filled(mem, q, o, c)
      /\ outputPosition = o * ItemSize /\ currentPosition = c * ItemSize
  BY DEF Holding, Shape
<1>2. Items = Contents(mem, q, o, c) BY <1>1, Counting
<1>3. /\ Items \in Seq(Value) /\ Len(Items) = c
      /\ \A n \in 1..c : Items[n] = Stored(mem, Place(o, q, n - 1))
  BY <1>1, <1>2, ContentsTyped
<1>4. Items[1] = Stored(mem, o)
  <2>1. 1 \in 1..c /\ 1 - 1 = 0 /\ Place(o, q, 0) = o BY <1>1, Places
  <2> QED BY <1>3, <2>1
<1>5. ASSUME order = "LIFO" PROVE Items[c] = Stored(mem, c - 1)
  <2>1. c \in 1..c /\ c - 1 \in 0..q - 1 BY <1>1
  <2>2. Place(o, q, c - 1) = c - 1 BY <1>1, <1>5, <2>1, Places DEF Shape
  <2> QED BY <1>3, <2>1, <2>2
<1>6. ItemAt(outputPosition) = Stored(mem, o)
  BY <1>1 DEF ItemAt, Stored, ReadAt
<1>7. ItemAt(currentPosition - ItemSize) = Stored(mem, c - 1)
  <2>1. currentPosition - ItemSize = (c - 1) * ItemSize BY <1>1, NextSlot
  <2>2. ItemAt(currentPosition - ItemSize)
          = ReadAt(mem, currentPosition - ItemSize)
    BY DEF ItemAt, ReadAt
  <2> QED BY <2>1, <2>2 DEF Stored
<1> QED BY <1>1, <1>3, <1>4, <1>5, <1>6, <1>7

LEMMA ReadingFifo ==
    ASSUME NEW q, NEW o, NEW c, Holding(q, o, c), FifoRead
    PROVE  Holding(q, Place(o, q, 1), c - 1)' /\ Store!Take
<1>1. /\ q \in Nat \ {0} /\ o \in 0..q - 1 /\ c \in 0..q
      /\ Shape(q, o, c) /\ Filled(mem, q, o, c)
      /\ currentPosition = c * ItemSize /\ outputPosition = o * ItemSize
      /\ order = "FIFO"
      /\ bufferSize \in q * ItemSize - ItemSize + 1 .. q * ItemSize
      /\ inputPosition = Place(o, q, c) * ItemSize
  BY DEF Holding, Shape, FifoRead
<1>2. c # 0 /\ c - 1 \in 0..q - 1 /\ c - 1 \in 0..q
  <2>1. c # 0 BY <1>1, Counting DEF FifoRead
  <2> QED BY <1>1, <2>1
<1>3. PICK p \in 0..q - 1 : p = Place(o, q, 1) BY <1>1, <1>2, Places
<1>4. \A n \in 0..c - 1 : Place(p, q, n) = Place(o, q, n + 1)
  BY <1>1, <1>3, Places
<1>5. /\ order' = order /\ bufferSize' = bufferSize /\ mem' = mem
      /\ inputPosition' = inputPosition
      /\ outputPosition' = p * ItemSize
      /\ currentPosition' = (c - 1) * ItemSize
  BY <1>1, <1>3, NextSlot, Advancing DEF FifoRead, fixed
<1>6. Shape(q, p, c - 1)'
  <2>1. Place(p, q, c - 1) = Place(o, q, c) BY <1>1, <1>2, <1>4
  <2>2. (c - 1) * ItemSize <= bufferSize
    <3>1. (c - 1) * ItemSize = c * ItemSize - ItemSize /\ c * ItemSize \in Int
      BY <1>1, NextSlot
    <3>2. c * ItemSize <= bufferSize /\ bufferSize \in Int
      BY <1>1, BuffersAssumption DEF Shape
    <3> QED BY <3>1, <3>2, BuffersAssumption
  <2> QED BY <1>1, <1>2, <1>3, <1>5, <2>1, <2>2 DEF Shape
<1>7. Filled(mem, q, p, c - 1)
  BY <1>1, <1>2, <1>4 DEF Filled
<1>8. Items' = Tail(Items)
  <2> DEFINE before == Contents(mem, q, o, c)
             after  == Contents(mem, q, p, c - 1)
  <2>1. /\ before \in Seq(Value) /\ Len(before) = c
        /\ \A n \in 1..c : before[n] = Stored(mem, Place(o, q, n - 1))
    BY <1>1, ContentsTyped
  <2>2. /\ after \in Seq(Value) /\ Len(after) = c - 1
        /\ \A n \in 1..c - 1 : after[n] = Stored(mem, Place(p, q, n - 1))
    BY <1>1, <1>2, <1>7, ContentsTyped
  <2>3. ASSUME NEW n \in 1..c - 1 PROVE after[n] = before[n + 1]
    <3>1. n - 1 \in 0..c - 1 /\ (n - 1) + 1 = (n + 1) - 1 /\ n + 1 \in 1..c
      BY <1>1
    <3> QED BY <1>4, <2>1, <2>2, <3>1
  <2> HIDE DEF before, after
  <2>4. after = Tail(before) BY <1>1, <1>2, <2>1, <2>2, <2>3
  <2>5. Items = before BY <1>1, Counting DEF before
  <2>6. Items' = after BY <1>5, <1>6, CountingNext DEF after
  <2> QED BY <2>4, <2>5, <2>6
<1>9. Store!Take
  <2>1. Items # <<>> /\ Head(Items) = ItemAt(outputPosition)
    BY <1>2, Ends
  <2>2. out' = Head(Items) BY <2>1 DEF FifoRead
  <2> QED
    BY <1>1, <1>5, <1>8, <2>1, <2>2 DEF Store!Take, Store!Oldest, Store!fixed
<1>10. Reached(q, c - 1)' /\ DOMAIN mem' = 0..bufferSize' + ItemSize - 2
  BY <1>2, <1>5 DEF Holding, Reached
<1> QED BY <1>3, <1>5, <1>6, <1>7, <1>9, <1>10 DEF Holding

LEMMA ReadingLifo ==
    ASSUME NEW q, NEW o, NEW c, Holding(q, o, c), LifoRead
    PROVE  Holding(q, o, c - 1)' /\ Store!Take
<1>1. /\ q \in Nat \ {0} /\ o \in 0..q - 1 /\ c \in 0..q
      /\ Shape(q, o, c) /\ Filled(mem, q, o, c)
      /\ currentPosition = c * ItemSize
      /\ order = "LIFO"
  BY DEF Holding, Shape, LifoRead
<1>2. c # 0 /\ c - 1 \in 0..q - 1 /\ c - 1 \in 0..q
  <2>1. c # 0 BY <1>1, Counting DEF LifoRead
  <2> QED BY <1>1, <2>1
<1>3. /\ order' = order /\ bufferSize' = bufferSize /\ mem' = mem
      /\ outputPosition' = outputPosition
      /\ currentPosition' = (c - 1) * ItemSize
  BY <1>1, NextSlot DEF LifoRead, fixed
<1>4. Shape(q, o, c - 1)'
  <2>1. (c - 1) * ItemSize = c * ItemSize - ItemSize /\ c * ItemSize \in Int
    BY <1>1, NextSlot
  <2>2. c * ItemSize <= bufferSize /\ bufferSize \in Int
    BY <1>1, BuffersAssumption DEF Shape
  <2>3. (c - 1) * ItemSize <= bufferSize BY <2>1, <2>2, BuffersAssumption
  <2> QED BY <1>1, <1>2, <1>3, <2>3 DEF Shape
<1>5. Filled(mem, q, o, c - 1) BY <1>1, <1>2 DEF Filled
<1>6. Items' = SubSeq(Items, 1, Len(Items) - 1)
  <2> DEFINE before == Contents(mem, q, o, c)
             after  == Contents(mem, q, o, c - 1)
  <2>1. /\ before \in Seq(Value) /\ Len(before) = c
        /\ \A n \in 1..c : before[n] = Stored(mem, Place(o, q, n - 1))
    BY <1>1, ContentsTyped
  <2>2. /\ after \in Seq(Value) /\ Len(after) = c - 1
        /\ \A n \in 1..c - 1 : after[n] = Stored(mem, Place(o, q, n - 1))
    BY <1>1, <1>2, <1>5, ContentsTyped
  <2>3. ASSUME NEW n \in 1..c - 1 PROVE after[n] = before[n]
    <3>1. n \in 1..c BY <1>1
    <3> QED BY <2>1, <2>2, <3>1
  <2> HIDE DEF before, after
  <2>4. after = SubSeq(before, 1, Len(before) - 1)
    BY <1>1, <1>2, <2>1, <2>2, <2>3
  <2>5. Items = before BY <1>1, Counting DEF before
  <2>6. Items' = after BY <1>3, <1>4, CountingNext DEF after
  <2> QED BY <2>4, <2>5, <2>6
<1>7. Store!Take
  <2>1. /\ Items # <<>>
        /\ Items[Len(Items)] = ItemAt(currentPosition - ItemSize)
    BY <1>1, <1>2, Ends
  <2>2. out' = Items[Len(Items)] BY <2>1 DEF LifoRead
  <2> QED
    BY <1>1, <1>3, <1>6, <2>1, <2>2 DEF Store!Take, Store!Newest, Store!fixed
<1>8. Reached(q, c - 1)' /\ DOMAIN mem' = 0..bufferSize' + ItemSize - 2
  BY <1>1, <1>3 DEF Holding, Reached
<1> QED BY <1>3, <1>4, <1>5, <1>7, <1>8 DEF Holding

\* A step that changes no position and no byte.
LEMMA Resting ==
    ASSUME NEW q, NEW o, NEW c, Holding(q, o, c),
           UNCHANGED <<fixed, mem, inputPosition, outputPosition, currentPosition>>
    PROVE  Holding(q, o, c)' /\ Items' = Items /\ UNCHANGED Store!fixed
<1>1. /\ order' = order /\ bufferSize' = bufferSize /\ mem' = mem
      /\ inputPosition' = inputPosition /\ outputPosition' = outputPosition
      /\ currentPosition' = currentPosition
  BY DEF fixed
<1>2. Shape(q, o, c)' BY <1>1 DEF Holding, Shape
<1>3. Items' = Items
  <2>1. Shape(q, o, c) BY DEF Holding
  <2>2. Items = Contents(mem, q, o, c) BY <2>1, Counting
  <2>3. Items' = Contents(mem', q, o, c) BY <1>2, CountingNext
  <2> QED BY <1>1, <2>2, <2>3
<1>4. Reached(q, c)' BY <1>1 DEF Holding, Reached
<1> QED BY <1>1, <1>2, <1>3, <1>4 DEF Holding, Store!fixed

LEMMA Peeking ==
    ASSUME NEW q, NEW o, NEW c, Holding(q, o, c), FifoPeek \/ LifoPeek
    PROVE  Holding(q, o, c)' /\ Store!See
<1>1. Shape(q, o, c) /\ order \in {"FIFO", "LIFO"} BY DEF Holding, Shape
<1>2. Available BY DEF FifoPeek, LifoPeek
<1>3. c # 0 BY <1>1, <1>2, Counting
<1>4. Holding(q, o, c)' /\ Items' = Items /\ UNCHANGED Store!fixed
  <2>1. UNCHANGED <<fixed, mem, inputPosition, outputPosition, currentPosition>>
    BY DEF FifoPeek, LifoPeek
  <2> QED BY <2>1, Resting
<1>5. /\ Items # <<>>
      /\ Head(Items) = ItemAt(outputPosition)
      /\ order = "LIFO" => Items[Len(Items)] = ItemAt(currentPosition - ItemSize)
  BY <1>3, Ends
<1>6. out' = IF order = "FIFO" THEN Head(Items) ELSE Items[Len(Items)]
  BY <1>5 DEF FifoPeek, LifoPeek
<1> QED BY <1>4, <1>5, <1>6 DEF Store!See, Store!Oldest, Store!Newest

-----------------------------------------------------------------------------
LEMMA BuffersInitial ==
    ASSUME Init
    PROVE  BuffersInv /\ Store!SpecInit
<1>1. /\ ItemSize \in Nat \ {0} /\ bufferSize \in Nat /\ bufferSize >= ItemSize
      /\ order \in {"FIFO", "LIFO"}
  BY BuffersAssumption DEF Init
<1>0. PICK I \in Nat \ {0} : I = ItemSize BY <1>1
<1>2. PICK q \in Nat \ {0} :
         /\ order = "FIFO" =>
              bufferSize \in q * ItemSize - ItemSize + 1 .. q * ItemSize
         /\ order = "LIFO" =>
              bufferSize \in q * ItemSize .. q * ItemSize + ItemSize - 1
  <2>1. PICK x \in Nat : /\ x >= I
                         /\ order = "FIFO" => x = bufferSize + I - 1
                         /\ order = "LIFO" => x = bufferSize
    <3>1. bufferSize + I - 1 \in Nat /\ bufferSize + I - 1 >= I BY <1>0, <1>1
    <3>2. CASE order = "FIFO" BY <1>1, <3>1, <3>2
    <3>3. CASE order = "LIFO" BY <1>0, <1>1, <3>3
    <3> QED BY <1>1, <3>2, <3>3
  <2>2. PICK q \in Int : q = x \div I BY <1>0
  <2>3. q * I <= x /\ x < q * I + I BY <1>0, <2>1, <2>2
  <2>4. ~(q < 1)
    <3>1. ASSUME q < 1 PROVE q * I + I <= 1 * I BY <1>0, <3>1, SlotBelow
    <3> QED BY <1>0, <2>1, <2>3, <3>1
  <2>5. q * I \in Int BY <1>0
  <2> QED BY <1>0, <1>1, <2>1, <2>3, <2>4, <2>5
<1>3. 0 * ItemSize = 0 /\ Place(0, q, 0) = 0 BY <1>1 DEF Place
<1>4. Shape(q, 0, 0) BY <1>1, <1>2, <1>3 DEF Init, Shape
<1>5. Filled(mem, q, 0, 0) BY DEF Filled
<1>6. Holding(q, 0, 0)
  BY <1>4, <1>5 DEF Init, Holding, Reached
<1>7. Items = <<>>
  <2>1. Items = Contents(mem, q, 0, 0) BY <1>4, Counting
  <2>2. Len(Items) = 0 /\ Items \in Seq(Value)
    BY <1>5, <2>1, ContentsTyped
  <2> QED BY <2>2
<1> QED BY <1>6, <1>7 DEF BuffersInv, Init, Store!SpecInit

\* Every step keeps the invariant and is a step of the store, or none.
LEMMA BuffersStep ==
    ASSUME BuffersInv, [Next]_vars
    PROVE  BuffersInv' /\ [Store!StoreNext]_<<Store!fixed, Items, out>>
<1>1. PICK q, o, c \in Nat : Holding(q, o, c) BY DEF BuffersInv
<1>2. q \in Nat \ {0} /\ o \in 0..q - 1 /\ c \in 0..q BY <1>1 DEF Holding, Shape
<1>3. ASSUME NEW v \in Value, FifoWrite(v) \/ LifoWrite(v)
      PROVE  BuffersInv' /\ Store!StoreNext
  <2>1. Holding(q, o, c + 1)' /\ Store!Put(v) BY <1>1, <1>3, Writing
  <2>2. c + 1 \in Nat BY <1>1
  <2> QED BY <1>1, <2>1, <2>2 DEF BuffersInv, Store!StoreNext
<1>4. ASSUME c # 0 PROVE c - 1 \in Nat /\ Place(o, q, 1) \in Nat
  <2>1. 1 \in 0..q BY <1>2
  <2>2. Place(o, q, 1) \in 0..q - 1 BY <1>2, <2>1, Places
  <2> QED BY <1>2, <1>4, <2>2
<1>5. CASE FifoRead
  <2>1. Holding(q, Place(o, q, 1), c - 1)' /\ Store!Take
    BY <1>1, <1>5, ReadingFifo
  <2>2. c # 0 BY <1>1, <1>5, Counting DEF FifoRead, Holding
  <2>3. c - 1 \in Nat /\ Place(o, q, 1) \in Nat BY <1>4, <2>2
  <2> QED BY <1>1, <2>1, <2>3 DEF BuffersInv, Store!StoreNext
<1>6. CASE LifoRead
  <2>1. Holding(q, o, c - 1)' /\ Store!Take BY <1>1, <1>6, ReadingLifo
  <2>2. c # 0 BY <1>1, <1>6, Counting DEF LifoRead, Holding
  <2> QED BY <1>1, <1>4, <2>1, <2>2 DEF BuffersInv, Store!StoreNext
<1>7. CASE FifoPeek \/ LifoPeek
  <2>1. Holding(q, o, c)' /\ Store!See BY <1>1, <1>7, Peeking
  <2> QED BY <1>1, <2>1 DEF BuffersInv, Store!StoreNext
<1>8. CASE UNCHANGED vars
  <2>1. UNCHANGED <<fixed, mem, inputPosition, outputPosition, currentPosition>>
        /\ out' = out
    BY <1>8 DEF vars
  <2>2. Holding(q, o, c)' /\ Items' = Items /\ UNCHANGED Store!fixed
    BY <1>1, <2>1, Resting
  <2> QED BY <1>1, <2>1, <2>2 DEF BuffersInv
<1> QED BY <1>3, <1>5, <1>6, <1>7, <1>8 DEF Next

\* For items and buffers of any size, ipc_fifoWrite and ipc_lifoWrite write to
\* nothing behind the last slot, and a FIFO that comes round writes all of it: so it
\* writes behind its buffer exactly if its items do not divide it.
THEOREM WritesReachTheirSlots == Spec => []WritesReachSlots
<1>1. Init => BuffersInv BY BuffersInitial
<1>2. BuffersInv /\ [Next]_vars => BuffersInv' BY BuffersStep
<1>3. BuffersInv => WritesReachSlots
  <2> SUFFICES ASSUME NEW q, NEW o, NEW c, Holding(q, o, c)
               PROVE  WritesReachSlots
    BY DEF BuffersInv
  <2>1. Slots = q /\ (Available <=> c # 0) BY Counting DEF Holding
  <2> QED BY <2>1 DEF Holding, Reached, WritesReachSlots
<1> QED BY <1>1, <1>2, <1>3, PTL DEF Spec

\* A FIFO of any size is a queue, and a LIFO a stack: what ipc_fifoRead,
\* ipc_lifoRead and the peeks return is what was written, in the order the store
\* promises, although the two positions of a FIFO wrap on their own and no item
\* knows its length.
THEOREM BuffersImplementStore == Spec => ImplementsStore
<1>1. Init => BuffersInv /\ Store!SpecInit BY BuffersInitial
<1>2. BuffersInv /\ [Next]_vars
        => BuffersInv' /\ [Store!StoreNext]_<<Store!fixed, Items, out>>
  BY BuffersStep
<1> QED BY <1>1, <1>2, PTL DEF Spec, ImplementsStore, Store!StoreSpec
=============================================================================
